------------------------------ MODULE WordPiece ------------------------------
(***************************************************************************)
(* WordPieceTokenizer::encode: a text becomes the token ids a BERT model   *)
(* reads, [CLS] first and [SEP] last.                                      *)
(*                                                                         *)
(* One step per word and one per piece of a word.  An id is kept as where  *)
(* it comes from: a piece is the characters from+1..to of a word, so that  *)
(* properties can tell whether any part of the text is missing.            *)
(***************************************************************************)
EXTENDS Text

CONSTANTS
    Vocab,             \* the vocabulary: [inner, chars]; inner ones have "##"
    MaxTokens,         \* kMaxTokens
    MaxCharsPerWord    \* kMaxCharsPerWord, in bytes

ASSUME WordPieceAssumption ==
    /\ MaxTokens \in Nat /\ MaxTokens >= 2
    /\ MaxCharsPerWord \in Nat

VARIABLES
    encoding,   \* "idle", at a "word", inside a "match", or "done"
    words,      \* what BasicTokenize makes of the text
    word,       \* how many of them the loop has entered
    from,       \* how much of that word is matched
    pieces,     \* its pieces so far
    ids         \* input_ids

encodingVars == <<encoding, words, word, from, pieces, ids>>

Id == [kind : {"cls", "sep", "unk", "piece"}, word : Nat, from : Nat, to : Nat]

Special(kind) == [kind |-> kind, word |-> 0, from |-> 0, to |-> 0]
Unknown(n) == [kind |-> "unk", word |-> n, from |-> 0, to |-> Len(words[n])]
Piece(n, f, t) == [kind |-> "piece", word |-> n, from |-> f, to |-> t]

EncodingInit ==
    /\ encoding = "idle" /\ words = <<>> /\ word = 0
    /\ from = 0 /\ pieces = <<>> /\ ids = <<>>

\* Split at spaces and around what stands alone, and lowercased.
BasicTokenize(text) ==
    LET split == Runs(text, Alone)
    IN  [n \in DOMAIN split |-> [k \in DOMAIN split[n] |-> Lower[split[n][k]]]]

SizeInBytes(w) == FoldSeq(LAMBDA c, sum : sum + Bytes[c], 0, w)

Encode(text) ==
    /\ encoding = "idle"
    /\ words' = BasicTokenize(text)
    /\ ids' = <<Special("cls")>>
    /\ encoding' = "word"
    /\ UNCHANGED <<word, from, pieces>>

\* Mutant: no room is left for [SEP].
RoomForAll == MaxTokens - Len(ids)

\* Ids that still fit before [SEP].
Room == MaxTokens - 1 - Len(ids)

EnterWord ==
    /\ encoding = "word"
    /\ word < Len(words)
    /\ Room > 0
    /\ SizeInBytes(words[word + 1]) <= MaxCharsPerWord
    /\ word' = word + 1
    /\ from' = 0 /\ pieces' = <<>>
    /\ encoding' = "match"
    /\ UNCHANGED <<words, ids>>

EnterLongWord ==
    /\ encoding = "word"
    /\ word < Len(words)
    /\ Room > 0
    /\ SizeInBytes(words[word + 1]) > MaxCharsPerWord
    /\ word' = word + 1
    /\ ids' = Append(ids, Unknown(word + 1))
    /\ UNCHANGED <<encoding, words, from, pieces>>

\* Ends of the pieces in the vocabulary that begin at f in word n.
Matches(n, f) ==
    { t \in (f + 1)..Len(words[n]) :
        [inner |-> f > 0, chars |-> SubSeq(words[n], f + 1, t)] \in Vocab }

\* Greedy: the longest match there is.
MatchPiece ==
    /\ encoding = "match"
    /\ from < Len(words[word])
    /\ \E t \in Matches(word, from) :
        /\ \A u \in Matches(word, from) : u <= t
        /\ pieces' = Append(pieces, Piece(word, from, t))
        /\ from' = t
    /\ UNCHANGED <<encoding, words, word, ids>>

\* Mutant: the loop over a word is not left where nothing matches.
NoMatchTriesAgain ==
    /\ encoding = "match"
    /\ from < Len(words[word])
    /\ Matches(word, from) = {}
    /\ UNCHANGED encodingVars

NoMatch ==
    /\ encoding = "match"
    /\ from < Len(words[word])
    /\ Matches(word, from) = {}
    /\ ids' = Append(ids, Unknown(word))
    /\ encoding' = "word"
    /\ UNCHANGED <<words, word, from, pieces>>

LeaveWord ==
    /\ encoding = "match"
    /\ from = Len(words[word])
    /\ ids' = ids \o SubSeq(pieces, 1, IF Len(pieces) < Room THEN Len(pieces) ELSE Room)
    /\ encoding' = "word"
    /\ UNCHANGED <<words, word, from, pieces>>

Separate ==
    /\ encoding = "word"
    /\ word = Len(words) \/ Room <= 0
    /\ ids' = Append(ids, Special("sep"))
    /\ encoding' = "done"
    /\ UNCHANGED <<words, word, from, pieces>>

EncodeStep ==
    \/ EnterWord \/ EnterLongWord \/ MatchPiece \/ NoMatch \/ LeaveWord \/ Separate

ForgetIds ==
    /\ encoding' = "idle" /\ words' = <<>> /\ word' = 0
    /\ from' = 0 /\ pieces' = <<>> /\ ids' = <<>>

\* The caller has the ids.
EncodingOver ==
    /\ encoding = "done"
    /\ ForgetIds

-----------------------------------------------------------------------------
\* An id stands for the longest match at its place, or for a word of which no
\* part is given up: one that is too long, or cannot be matched to its end.
GreedyPiece(p) ==
    /\ p.kind = "piece"
    /\ p.word \in DOMAIN words
    /\ p.to \in Matches(p.word, p.from)
    /\ \A t \in Matches(p.word, p.from) : t <= p.to

UnknownWord(p) == p.word \in DOMAIN words /\ p = Unknown(p.word)

\* p is where a text starts; q follows p without a gap.
Begins(p) == p.word = 1 /\ p.from = 0

Follows(q, p) ==
    \/ q.word = p.word /\ q.from = p.to
    \/ q.word = p.word + 1 /\ p.to = Len(words[p.word]) /\ q.from = 0

\* Ids between [CLS] and [SEP] read the text from its start, piece by piece.
ReadsOn(s) ==
    /\ \A n \in DOMAIN s : GreedyPiece(s[n]) \/ UnknownWord(s[n])
    /\ s # <<>> => Begins(s[1])
    /\ \A n \in 1..(Len(s) - 1) : Follows(s[n + 1], s[n])

ReadsToTheEnd(s) ==
    IF s = <<>> THEN words = <<>>
    ELSE s[Len(s)].word = Len(words) /\ s[Len(s)].to = Len(words[Len(words)])

\* encode returns a sequence the model can read: [CLS] first, [SEP] last, never
\* more than kMaxTokens (wordpiece_tokenizer.hpp:24-28), and in between the
\* greedy pieces of the text in order, with nothing left out before the limit
\* is reached, though the limit may fall inside a word.
EncodingReadsTheText ==
    encoding = "done" =>
        /\ Len(ids) \in 2..MaxTokens
        /\ ids[1] = Special("cls") /\ ids[Len(ids)] = Special("sep")
        /\ LET body == SubSeq(ids, 2, Len(ids) - 1)
           IN  ReadsOn(body) /\ (Len(ids) < MaxTokens => ReadsToTheEnd(body))
=============================================================================
