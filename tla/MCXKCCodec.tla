----------------------------- MODULE MCXKCCodec -----------------------------
(* Model-checking instances of XKCCodec.  Letters are bytes (alphabet_T =   *)
(* byte_t, the default).  The run cap CountMax stands for 255 and is set to *)
(* 2 so that inputs of length 3 and 4 already split a run at the cap.       *)
EXTENDS XKCCodec

\* All sequences of length lo..hi over S
SeqsOf(S, lo, hi) == UNION {[1..n -> S] : n \in lo..hi}

\* Letters of a sequence
LettersOf(s) == {s[i] : i \in 1..Len(s)}

MCLetters == {65, 66, 67, 68}

\* Buffers of two to five letters, at least two of them distinct.  Four
\* letters give a tree of height 2 (two depth bits), so five-letter buffers
\* write up to 20 bits: the stream crosses one and two byte boundaries.
MCMultiLetterInputs ==
    {s \in SeqsOf(MCLetters, 2, 5) : Cardinality(LettersOf(s)) >= 2}

\* Every non-empty buffer up to three letters long
MCNonEmptyInputs == SeqsOf(MCLetters, 1, 3)

\* The empty buffer
MCEmptyInput == {<< >>}

\* Two-byte letters whose low bytes collide (alphabet_T = uint16_t)
MCWideInputs == SeqsOf({1, 257}, 2, 2)
=============================================================================
