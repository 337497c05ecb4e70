------------------------------ MODULE XKCCodec ------------------------------
(***************************************************************************)
(* encode followed by decode of the buffer it returned, the use the codec  *)
(* is written for (spec 8, "Round-trip"): XKC<alphabet_T>::encode and      *)
(* XKC<alphabet_T>::decode of src/unnamed/part_002, composed.  The two     *)
(* calls share nothing but the byte buffer, as in the code: each builds    *)
(* its own alphabet and its own tree.                                      *)
(***************************************************************************)
EXTENDS XKCFormat, FiniteSets

CONSTANTS Width, CountMax, Inputs, None

\* alphabet_T is one of the widths decide_alphabet_type accepts (lines
\* 18-36), the run cap is positive, the inputs are buffers of alphabet_T
\* values, and None is no tree position.
ASSUME CodecAssumption ==
    /\ Width \in {1, 2, 4}
    /\ CountMax \in Nat \ {0}
    /\ Inputs \subseteq Seq(0..2^(8 * Width) - 1)
    /\ None \notin Seq({0, 1})

VARIABLES
    input, epc, vi, start, occ, occurrences, oi, ealpha, etree, ecur,
    epending, eai, mdb, result, rbyte, rbits, wbits, epath, cnt, k,
    buf, dpc, rd, dmdb, dsize, dwritten, dalpha, dtree, dcur, dpending, dai,
    rdbits, bread, ddepth, dbits, dk, docc, output

E == INSTANCE XKCEncode
D == INSTANCE XKCDecode WITH Buffers <- {}

encVars == <<input, epc, vi, start, occ, occurrences, oi, ealpha, etree, ecur,
             epending, eai, mdb, result, rbyte, rbits, wbits, epath, cnt, k>>
decVars == <<buf, dpc, rd, dmdb, dsize, dwritten, dalpha, dtree, dcur, dpending,
             dai, rdbits, bread, ddepth, dbits, dk, docc, output>>
vars == <<encVars, decVars>>

Init == E!Init /\ D!DInit

\* The caller hands encode's result to decode.
CallDecode ==
    /\ E!EncodeDone
    /\ D!Decode(result)
    /\ UNCHANGED encVars

\* decode has returned, or stopped on undefined behaviour: nothing moves.
Finished ==
    /\ D!DecodeDone \/ D!DecodeFailed
    /\ UNCHANGED vars

\* One step of encode, or of decode once it has been called; the step
\* relation lists every action of the two calls.

Next ==
    \/ E!RunStart /\ UNCHANGED decVars
    \/ E!RunExtend /\ UNCHANGED decVars
    \/ E!RunClose /\ UNCHANGED decVars
    \/ E!RunsDone /\ UNCHANGED decVars
    \/ E!AlphaStep /\ UNCHANGED decVars
    \/ E!AlphaDone /\ UNCHANGED decVars
    \/ E!Sort /\ UNCHANGED decVars
    \/ E!TreeBuild /\ UNCHANGED decVars
    \/ E!TreeInsert /\ UNCHANGED decVars
    \/ E!Header /\ UNCHANGED decVars
    \/ E!PathStart /\ UNCHANGED decVars
    \/ E!EmitBit /\ UNCHANGED decVars
    \/ E!CopyDone /\ UNCHANGED decVars
    \/ E!OccurrenceDone /\ UNCHANGED decVars
    \/ E!PathsDone /\ UNCHANGED decVars
    \/ E!Flush /\ UNCHANGED decVars
    \/ CallDecode
    \/ D!ReadHeader /\ UNCHANGED encVars
    \/ D!ReadLetter /\ UNCHANGED encVars
    \/ D!LettersRead /\ UNCHANGED encVars
    \/ D!DTreeBuild /\ UNCHANGED encVars
    \/ D!DTreeInsert /\ UNCHANGED encVars
    \/ D!DTreeBuilt /\ UNCHANGED encVars
    \/ D!LoopTest /\ UNCHANGED encVars
    \/ D!ReadDepthBit /\ UNCHANGED encVars
    \/ D!DepthRead /\ UNCHANGED encVars
    \/ D!ReadPathBit /\ UNCHANGED encVars
    \/ D!PathRead /\ UNCHANGED encVars
    \/ D!FindValue /\ UNCHANGED encVars
    \/ D!WriteOutput /\ UNCHANGED encVars
    \/ Finished

Spec == Init /\ [][Next]_vars

-----------------------------------------------------------------------------
(***************************************************************************)
(* Properties                                                              *)
(***************************************************************************)

\* Type invariant of both calls
TypeOK == E!EncTypeOK /\ D!DecTypeOK

\* Round trip (spec 8): the bytes decode returns are the bytes that were
\* encoded.  It needs every part right at once: the run collapse, the
\* alphabet, the same tree on both sides, the bit order within a byte, the
\* depth field width and the bit count.
RoundTrip == D!DecodeDone => output = SymbolBytes(input, Width)

\* Determinism (spec 4.5): once decode has rebuilt its tree from the header
\* it is the tree encode built, node for node, or decoding silently yields
\* other letters.
TreesAgree ==
    dpc \in {"loop", "depth", "path", "find", "out", "done"} => dtree = etree

\* The buffer encode returns holds the header, the written bits rounded up
\* to whole bytes and the counter (lines 519-550, 553-567, 682-691).
ResultLayout == Len(result) = HeaderLen(Len(ealpha)) + (wbits + 7) \div 8 + CounterBytes

\* Bit stream exactness (spec 8): the buffer has that layout; the counter
\* decode reads is the number of bits encode wrote; and decode stops having
\* read exactly that many, never a padding bit of the last byte.
BitCountExact ==
    D!DecodeDone =>
        /\ ResultLayout
        /\ dwritten = wbits
        /\ bread = dwritten

\* Every byte decode reads lies inside the buffer it was given, as the
\* comment at line 540 ("an alphabet is always bigger than 0 anyway")
\* takes for granted.
NoUndefinedRead == dpc # "oob"

=============================================================================
