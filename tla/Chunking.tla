------------------------------ MODULE Chunking ------------------------------
(***************************************************************************)
(* chunk_text: a text is cut into overlapping windows of tokens.           *)
(*                                                                         *)
(* One step per window.  Sums of two sizes wrap around at SizeMod, as      *)
(* std::size_t does: window and overlap are whatever a caller passes.      *)
(***************************************************************************)
EXTENDS Text

CONSTANT SizeMod     \* 2^64

ASSUME SizeAssumption == SizeMod \in Nat \ {0}

VARIABLES
    chunking,   \* "idle", in the "loop", "done" or "threw"
    tokens,     \* the words of the text
    window,     \* window_tokens
    overlap,    \* overlap_tokens
    start,      \* where the next window starts
    chunks      \* the windows so far: [start_token, end_token)

chunkingVars == <<chunking, tokens, window, overlap, start, chunks>>

Window == [start_token : Nat, end_token : Nat]

ChunkingInit ==
    /\ chunking = "idle" /\ tokens = <<>> /\ chunks = <<>>
    /\ window = 1 /\ overlap = 0 /\ start = 0

\* An overlap as large as the window would never advance.
Refused(w, o) == w = 0 \/ o >= w

ChunkText(text, w, o) ==
    /\ chunking = "idle"
    /\ ~Refused(w, o)
    /\ tokens' = Words(text)
    /\ window' = w /\ overlap' = o
    /\ start' = 0 /\ chunks' = <<>>
    /\ chunking' = IF Words(text) = <<>> THEN "done" ELSE "loop"

ChunkTextRefuses(w, o) ==
    /\ chunking = "idle"
    /\ Refused(w, o)
    /\ chunking' = "threw"
    /\ UNCHANGED <<tokens, window, overlap, start, chunks>>

\* std::min(start + window_tokens, tokens.size())
WindowEnd ==
    LET end == (start + window) % SizeMod
    IN  IF end < Len(tokens) THEN end ELSE Len(tokens)

Step == window - overlap

\* Mutant: the loop goes on until the start has passed the last token.
EmitWindowToTheEnd ==
    LET next == (start + Step) % SizeMod
    IN  /\ chunking = "loop"
        /\ chunks' = Append(chunks, [start_token |-> start, end_token |-> WindowEnd])
        /\ start' = next
        /\ chunking' = IF next < Len(tokens) THEN "loop" ELSE "done"
        /\ UNCHANGED <<tokens, window, overlap>>

EmitWindow ==
    LET next == (start + Step) % SizeMod
    IN  /\ chunking = "loop"
        /\ chunks' = Append(chunks, [start_token |-> start, end_token |-> WindowEnd])
        /\ start' = IF WindowEnd = Len(tokens) THEN start ELSE next
        /\ chunking' = IF WindowEnd = Len(tokens) \/ next >= Len(tokens)
                       THEN "done" ELSE "loop"
        /\ UNCHANGED <<tokens, window, overlap>>

ForgetChunks ==
    /\ chunking' = "idle" /\ tokens' = <<>> /\ chunks' = <<>>
    /\ window' = 1 /\ overlap' = 0 /\ start' = 0

\* The caller has taken the result or caught the exception.
ChunkingOver ==
    /\ chunking \in {"done", "threw"}
    /\ ForgetChunks

\* The text of the n-th chunk.
ChunkWords(n) == SubSeq(tokens, chunks[n].start_token + 1, chunks[n].end_token)

-----------------------------------------------------------------------------
\* Consecutive windows share exactly the tokens of the overlap, and every one
\* but the last is full.
Tiled ==
    \A n \in DOMAIN chunks :
        /\ chunks[n].start_token = (n - 1) * Step
        /\ chunks[n].start_token < chunks[n].end_token
        /\ n < Len(chunks) =>
            /\ chunks[n].end_token = chunks[n].start_token + window
            /\ chunks[n].end_token < Len(tokens)

\* chunk_text returns windows that leave no token out, for any window and
\* overlap it accepts and though the sums may wrap (chunking.hpp:18-30): the
\* first starts at the first token, each next one repeats exactly the overlap,
\* all but the last are full, and only the last reaches the end of the text.
WindowsCover ==
    chunking = "done" =>
        /\ chunks = <<>> <=> tokens = <<>>
        /\ Tiled
        /\ chunks # <<>> => chunks[Len(chunks)].end_token = Len(tokens)
=============================================================================
