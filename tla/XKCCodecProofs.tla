--------------------------- MODULE XKCCodecProofs ---------------------------
(***************************************************************************)
(* Proof that the buffer XKC<alphabet_T>::encode returns has the layout    *)
(* decode reads (XKCCodec!ResultLayout), for every input buffer and every  *)
(* width of alphabet_T: the header, the written bits rounded up to whole   *)
(* bytes, and the four bytes of written_bits (src/unnamed/part_002, lines  *)
(* 519-550, 553-567 and 682-691).  It is the first conjunct of             *)
(* BitCountExact; the two others compare what decode reads back with what  *)
(* encode wrote, which needs the codec's conversions over all inputs, and  *)
(* they stay with TLC.                                                     *)
(*                                                                         *)
(* ResultLayout only speaks of the returned buffer.  While the paths are   *)
(* written, the bytes pushed so far are the header and the whole bytes of  *)
(* the written bits, and result_byte holds the bits of the partial one     *)
(* (EmitLayout): check_bit pushes result_byte exactly when its eighth bit  *)
(* is counted.  Flush then appends the partial byte if there is one, and   *)
(* the counter.  The lengths need the locals to be sequences of integers   *)
(* (EncodeTyped), and decode is only called on the returned buffer.        *)
(***************************************************************************)
EXTENDS XKCCodec, SequenceTheorems, TLAPS

\* The values pushed on result: integers cut to a byte, and the first header
\* byte, max_depth_bits cut to a byte, whose value the lengths do not need.
ResultBytes == Int \cup {ByteOf(mdb)}

\* The locals of encode that the lengths depend on are sequences and
\* integers.
EncodeTyped ==
    /\ input \in Seq(Int)
    /\ vi \in 1 .. Len(input) + 1
    /\ occ \in [letter : Int, count : Int]
    /\ occurrences \in Seq([letter : Int, count : Int])
    /\ oi \in Nat \ {0}
    /\ ealpha \in Seq([value : Int, freq : Int])
    /\ rbyte \in Int
    /\ wbits \in Nat
    /\ result \in Seq(ResultBytes)

\* The loops of encode
EncodePhases == {"runs", "inner", "alpha", "sort", "tree", "paths", "emit", "flush", "done"}

\* While the paths are written: the header and one byte per eight bits are
\* pushed, and result_byte holds the bits of the partial byte.
EmitLayout ==
    epc \in {"paths", "emit", "flush"} =>
        /\ Len(result) = HeaderLen(Len(ealpha)) + wbits \div 8
        /\ rbits = wbits % 8

LInv ==
    /\ EncodeTyped
    /\ epc \in EncodePhases
    /\ EmitLayout
    /\ E!EncodeDone => ResultLayout
    /\ dpc # "idle" => E!EncodeDone

-----------------------------------------------------------------------------

\* Every input buffer is a sequence of integers.
LEMMA InitLInv == Init => LInv
<1> SUFFICES ASSUME Init PROVE LInv  OBVIOUS
<1>1. input \in Seq(Int)
  <2>1. input \in Seq(0 .. 2^(8 * Width) - 1)  BY CodecAssumption DEF Init, E!Init
  <2>2. 0 .. 2^(8 * Width) - 1 \subseteq Int  BY CodecAssumption
  <2>. QED  BY <2>1, <2>2, SeqMonotonic
<1>2. Len(input) \in Nat  BY <1>1, LenProperties
<1>3. EncodeTyped  BY <1>1, <1>2, EmptySeq DEF Init, E!Init, EncodeTyped
<1>. QED  BY <1>3 DEF Init, E!Init, D!DInit, LInv, EncodePhases, EmitLayout, E!EncodeDone

\* The steps of decode and the call of decode leave encode's locals alone,
\* and decode runs only once encode has returned.
LEMMA DecodeStepLInv ==
    ASSUME LInv,
           \/ CallDecode \/ Finished
           \/ /\ \/ D!ReadHeader \/ D!ReadLetter \/ D!LettersRead
                 \/ D!DTreeBuild \/ D!DTreeInsert \/ D!DTreeBuilt
                 \/ D!LoopTest \/ D!ReadDepthBit \/ D!DepthRead
                 \/ D!ReadPathBit \/ D!PathRead \/ D!FindValue \/ D!WriteOutput
              /\ UNCHANGED encVars
    PROVE  LInv'
<1>1. UNCHANGED encVars  BY DEF CallDecode, Finished, vars
<1>0. ResultBytes' = ResultBytes  BY <1>1 DEF encVars, ResultBytes
<1>2. E!EncodeDone
  <2>1. CASE CallDecode  BY <2>1 DEF CallDecode
  <2>2. CASE Finished  BY <2>2 DEF Finished, LInv, D!DecodeDone, D!DecodeFailed
  <2>3. CASE ~CallDecode /\ ~Finished
    <3>1. dpc # "idle"
      BY <2>3 DEF D!ReadHeader, D!ReadLetter, D!LettersRead, D!DTreeBuild,
                  D!DTreeInsert, D!DTreeBuilt, D!LoopTest, D!ReadDepthBit,
                  D!DepthRead, D!ReadPathBit, D!PathRead, D!FindValue, D!WriteOutput
    <3>. QED  BY <3>1 DEF LInv
  <2>. QED  BY <2>1, <2>2, <2>3
<1>3. dpc' # "idle"
  <2>1. CASE CallDecode  BY <2>1 DEF CallDecode, D!Decode
  <2>2. CASE Finished  BY <2>2 DEF Finished, vars, decVars, D!DecodeDone, D!DecodeFailed
  <2>3. CASE ~CallDecode /\ ~Finished
    BY <2>3 DEF D!ReadHeader, D!ReadLetter, D!LettersRead, D!DTreeBuild,
                D!DTreeInsert, D!DTreeBuilt, D!LoopTest, D!ReadDepthBit,
                D!DepthRead, D!ReadPathBit, D!PathRead, D!FindValue, D!WriteOutput
  <2>. QED  BY <2>1, <2>2, <2>3
<1>. QED
  BY <1>0, <1>1, <1>2, <1>3 DEF LInv, encVars, EncodeTyped, EncodePhases, EmitLayout,
                          ResultLayout, E!EncodeDone

\* A frequency grown by an occurrence's count is an integer.
LEMMA FreqRecord ==
    ASSUME NEW x \in [value : Int, freq : Int], NEW c \in Int
    PROVE  [x EXCEPT !.freq = x.freq + c] \in [value : Int, freq : Int]
OBVIOUS
\* alphabet[i].freq += occurrence.count keeps the alphabet a sequence of
\* records, whether or not i indexes it.
LEMMA FreqUpdate ==
    ASSUME NEW s \in Seq([value : Int, freq : Int]), NEW i, NEW c \in Int
    PROVE  [s EXCEPT ![i].freq = @ + c] \in Seq([value : Int, freq : Int])
<1>1. CASE i \in 1 .. Len(s)
  <2>1. s[i] \in [value : Int, freq : Int]  BY <1>1, ElementOfSeq
  <2>2. [s EXCEPT ![i].freq = @ + c]
          = [s EXCEPT ![i] = [s[i] EXCEPT !.freq = s[i].freq + c]]
    OBVIOUS
  <2>3. [s[i] EXCEPT !.freq = s[i].freq + c] \in [value : Int, freq : Int]
    BY <2>1, FreqRecord
  <2>. QED  BY <1>1, <2>2, <2>3, ExceptSeq
<1>2. CASE i \notin 1 .. Len(s)
  <2>. DEFINE t == [s EXCEPT ![i].freq = @ + c]
  <2>1. DOMAIN s = 1 .. Len(s)  BY LenProperties
  <2>2. i \notin DOMAIN s  BY <1>2, <2>1
  <2>3. DOMAIN t = DOMAIN s  OBVIOUS
  <2>4. \A j \in DOMAIN s : t[j] = s[j]  BY <2>2
  <2>5. t = s  BY <2>3, <2>4
  <2>. QED  BY <2>5
<1>. QED  BY <1>1, <1>2
\* std::sort's result, a reordering of the alphabet, is a sequence over the
\* same records.
LEMMA ReorderSeq ==
    ASSUME NEW S, NEW s \in Seq(S), NEW g \in [1 .. Len(s) -> 1 .. Len(s)]
    PROVE  [i \in 1 .. Len(s) |-> s[g[i]]] \in Seq(S)
<1>1. \A i \in 1 .. Len(s) : s[g[i]] \in S  BY ElementOfSeq
<1>2. Len(s) \in Nat  BY LenProperties
<1>. QED  BY <1>1, <1>2, SeqDef
\* The phases before the header: the run collapse, the frequency table,
\* the sort and the tree keep the locals typed and push nothing.
EarlyPhases == {"runs", "inner", "alpha", "sort", "tree"}

\* The steps of encode before the header keep encode's locals typed, stay
\* in the phases before the header, and decode is not yet called.
LEMMA EarlyStepLInv ==
    ASSUME LInv,
           \/ E!RunStart \/ E!RunExtend \/ E!RunClose \/ E!RunsDone
           \/ E!AlphaStep \/ E!AlphaDone \/ E!Sort
           \/ E!TreeBuild \/ E!TreeInsert,
           UNCHANGED decVars
    PROVE  LInv'
<1>. USE DEF E!runVars, E!treeVars, E!outVars
<1>1. epc \in EarlyPhases /\ epc' \in EarlyPhases
  BY DEF E!RunStart, E!RunExtend, E!RunClose, E!RunsDone, E!AlphaStep,
         E!AlphaDone, E!Sort, E!TreeBuild, E!TreeInsert, EarlyPhases
<1>2. dpc' = "idle"
  <2>1. dpc = "idle"  BY <1>1 DEF LInv, E!EncodeDone, EarlyPhases
  <2>. QED  BY <2>1 DEF decVars
<1>0. ResultBytes' = ResultBytes
  BY DEF E!RunStart, E!RunExtend, E!RunClose, E!RunsDone, E!AlphaStep,
         E!AlphaDone, E!Sort, E!TreeBuild, E!TreeInsert, ResultBytes
<1>3. EncodeTyped'
  <2>. USE <1>0 DEF LInv, EncodeTyped
  <2>1. CASE E!RunStart
    <3>1. vi \in 1 .. Len(input) /\ vi' = vi + 1 /\ occ' = [letter |-> input[vi], count |-> 1]
      BY <2>1 DEF E!RunStart
    <3>2. input[vi] \in Int  BY <3>1, ElementOfSeq
    <3>3. UNCHANGED <<input, occurrences, oi, ealpha, rbyte, wbits, result>>
      BY <2>1 DEF E!RunStart
    <3>. QED  BY <3>1, <3>2, <3>3
  <2>2. CASE E!RunExtend
    <3>1. vi' \in 1 .. Len(input') + 1
      <4>1. vi <= Len(input) /\ vi' = vi + 1 /\ input' = input
        BY <2>2 DEF E!RunExtend, E!RunContinues
      <4>. QED  BY <4>1
    <3>2. occ' \in [letter : Int, count : Int]
      <4>1. occ' = [letter |-> occ.letter, count |-> occ.count + 1]  BY <2>2 DEF E!RunExtend
      <4>. QED  BY <4>1
    <3>3. UNCHANGED <<input, occurrences, oi, ealpha, rbyte, wbits, result>>  BY <2>2 DEF E!RunExtend
    <3>. QED  BY <3>1, <3>2, <3>3
  <2>3. CASE E!RunClose  BY <2>3, AppendProperties DEF E!RunClose
  <2>4. CASE E!RunsDone  BY <2>4 DEF E!RunsDone
  <2>5. CASE E!AlphaStep
    <3>. DEFINE o == occurrences[oi]
                found == {i \in 1 .. Len(ealpha) : ealpha[i].value = o.letter}
                i0 == CHOOSE i \in found : \A j \in found : i <= j
    <3>. USE DEF o, found
    <3>0. oi \in 1 .. Len(occurrences)  BY <2>5 DEF E!AlphaStep
    <3>1. o \in [letter : Int, count : Int]  BY <3>0, ElementOfSeq
    <3>2. ealpha' = IF found = {}
                       THEN Append(ealpha, [value |-> o.letter, freq |-> o.count])
                       ELSE [ealpha EXCEPT ![i0].freq = @ + o.count]
      BY <2>5 DEF E!AlphaStep, i0
    <3>3. ealpha' \in Seq([value : Int, freq : Int])
      <4>1. CASE found = {}  BY <4>1, <3>1, <3>2, AppendProperties
      <4>2. CASE found # {}  BY <4>2, <3>1, <3>2, FreqUpdate
      <4>. QED  BY <4>1, <4>2
    <3>4. oi' \in Nat \ {0}
      <4>1. oi' = oi + 1  BY <2>5 DEF E!AlphaStep
      <4>. QED  BY <4>1
    <3>5. UNCHANGED <<input, vi, occ, occurrences, rbyte, wbits, result>>
      BY <2>5 DEF E!AlphaStep
    <3>. QED  BY <3>3, <3>4, <3>5
  <2>6. CASE E!AlphaDone  BY <2>6 DEF E!AlphaDone
  <2>7. CASE E!Sort
    <3>. DEFINE n == Len(ealpha)
    <3>0. ealpha' \in {[i \in 1 .. n |-> ealpha[g[i]]] : g \in [1 .. n -> 1 .. n]}
      BY <2>7 DEF E!Sort, E!SortedByFreq
    <3>1. PICK g \in [1 .. n -> 1 .. n] : ealpha' = [i \in 1 .. n |-> ealpha[g[i]]]
      BY <3>0
    <3>2. ealpha' \in Seq([value : Int, freq : Int])  BY <3>1, ReorderSeq
    <3>. QED  BY <2>7, <3>2 DEF E!Sort
  <2>8. CASE E!TreeBuild  BY <2>8 DEF E!TreeBuild
  <2>9. CASE E!TreeInsert  BY <2>9 DEF E!TreeInsert
  <2>. QED  BY <2>1, <2>2, <2>3, <2>4, <2>5, <2>6, <2>7, <2>8, <2>9
<1>. QED
  BY <1>1, <1>2, <1>3 DEF LInv, EarlyPhases, EncodePhases, EmitLayout, E!EncodeDone

\* The header: two bytes and one per letter are pushed, and the bit
\* writer starts from zero.
LEMMA HeaderLInv ==
    ASSUME LInv, E!Header, UNCHANGED decVars
    PROVE  LInv'
<1>. DEFINE letters == [i \in 1 .. Len(ealpha) |-> ByteOf(ealpha[i].value)]
<1>. USE DEF E!runVars, E!treeVars, letters
<1>1. Len(ealpha) \in Nat  BY LenProperties DEF LInv, EncodeTyped
<1>2. letters \in Seq(ResultBytes') /\ Len(letters) = Len(ealpha)
  <2>1. \A i \in 1 .. Len(ealpha) : ByteOf(ealpha[i].value) \in Int
    <3>1. TAKE i \in 1 .. Len(ealpha)
    <3>2. ealpha[i] \in [value : Int, freq : Int]  BY ElementOfSeq DEF LInv, EncodeTyped
    <3>. QED  BY <3>2 DEF ByteOf
  <2>. QED  BY <1>1, <2>1, SeqDef DEF ResultBytes
<1>3. result' = << ByteOf(mdb'), ByteOf(Len(ealpha) - 1) >> \o letters
  BY DEF E!Header, E!ByteOf, ByteOf
<1>4. << ByteOf(mdb'), ByteOf(Len(ealpha) - 1) >> \in Seq(ResultBytes')
  <2>1. ByteOf(Len(ealpha) - 1) \in Int  BY <1>1 DEF ByteOf
  <2>. QED  BY <2>1 DEF ResultBytes
<1>5. result' \in Seq(ResultBytes') /\ Len(result') = 2 + Len(ealpha)
  BY <1>2, <1>3, <1>4, ConcatProperties
<1>6. UNCHANGED <<input, vi, occ, occurrences, ealpha, dpc>> /\ oi' = 1
      /\ rbyte' = 0 /\ rbits' = 0 /\ wbits' = 0 /\ epc' = "paths"
  BY DEF E!Header, decVars
<1>7. dpc = "idle"  BY DEF E!Header, LInv, E!EncodeDone
<1>. QED
  BY <1>5, <1>6, <1>7 DEF LInv, EncodeTyped, EncodePhases, EmitLayout, HeaderLen,
                          E!EncodeDone

\* The steps of the path loop that write no bit: path_info, the next copy,
\* the next occurrence and the end of the occurrences.
LEMMA PathStepLInv ==
    ASSUME LInv,
           E!PathStart \/ E!CopyDone \/ E!OccurrenceDone \/ E!PathsDone,
           UNCHANGED decVars
    PROVE  LInv'
<1>. USE DEF E!runVars, E!treeVars, E!outVars
<1>1. UNCHANGED <<input, vi, occ, occurrences, ealpha, mdb, result, rbyte, rbits, wbits, dpc>>
  BY DEF E!PathStart, E!CopyDone, E!OccurrenceDone, E!PathsDone, decVars
<1>2. epc \in {"paths", "emit"} /\ epc' \in {"paths", "emit", "flush"}
  BY DEF E!PathStart, E!CopyDone, E!OccurrenceDone, E!PathsDone
<1>3. oi' \in Nat \ {0}
  <2>1. oi' \in {oi, oi + 1}
    BY DEF E!PathStart, E!CopyDone, E!OccurrenceDone, E!PathsDone
  <2>. QED  BY <2>1 DEF LInv, EncodeTyped
<1>4. dpc = "idle"  BY <1>2 DEF LInv, E!EncodeDone
<1>. QED
  BY <1>1, <1>2, <1>3, <1>4 DEF LInv, EncodeTyped, EncodePhases, EmitLayout,
                                E!EncodeDone, ResultBytes

\* A bit written by write_bit: result_byte with the bit at
\* written_bits_on_result_byte set, or left as it was.
LEMMA WrittenByte ==
    ASSUME NEW b \in Int, NEW c \in 0 .. 7
    PROVE  E!SetBit(b, c) \in Int
<1>1. 2^c \in Nat
  <2>1. CASE c = 0  BY <2>1
  <2>2. CASE c = 1  BY <2>2
  <2>3. CASE c = 2  BY <2>3
  <2>4. CASE c = 3  BY <2>4
  <2>5. CASE c = 4  BY <2>5
  <2>6. CASE c = 5  BY <2>6
  <2>7. CASE c = 6  BY <2>7
  <2>8. CASE c = 7  BY <2>8
  <2>. QED  BY <2>1, <2>2, <2>3, <2>4, <2>5, <2>6, <2>7, <2>8
<1>. QED  BY <1>1 DEF E!SetBit

\* check_bit counts the bit and pushes result_byte with its eighth bit: the
\* whole bytes pushed are the written bits divided by eight.
LEMMA EmitBitLInv ==
    ASSUME LInv, E!EmitBit, UNCHANGED decVars
    PROVE  LInv'
<1>. USE DEF E!runVars, E!treeVars
<1>1. PICK w : /\ w = IF E!Method1Bit(epath, k) = 1 THEN E!SetBit(rbyte, rbits) ELSE rbyte
               /\ E!CheckBit(w)
  BY DEF E!EmitBit
<1>2. epc = "emit" /\ rbits = wbits % 8 /\ Len(result) = HeaderLen(Len(ealpha)) + wbits \div 8
  BY DEF E!EmitBit, LInv, EmitLayout
<1>3. wbits \in Nat /\ rbyte \in Int /\ result \in Seq(ResultBytes)  BY DEF LInv, EncodeTyped
<1>4. w \in Int
  <2>1. rbits \in 0 .. 7  BY <1>2, <1>3
  <2>. QED  BY <1>1, <1>3, <2>1, WrittenByte
<1>5. UNCHANGED <<input, epc, vi, occ, occurrences, oi, ealpha, mdb, dpc>>
  BY DEF E!EmitBit, decVars
<1>6. ResultBytes' = ResultBytes  BY <1>5 DEF ResultBytes
<1>7. wbits' = wbits + 1  BY <1>1 DEF E!CheckBit
<1>8. /\ result' \in Seq(ResultBytes)
      /\ Len(result') = HeaderLen(Len(ealpha)) + (wbits + 1) \div 8
      /\ rbits' = (wbits + 1) % 8
      /\ rbyte' \in Int
  <2>1. CASE rbits + 1 = 8
    <3>1. result' = Append(result, w) /\ rbyte' = 0 /\ rbits' = 0  BY <1>1, <2>1 DEF E!CheckBit
    <3>2. (wbits + 1) \div 8 = wbits \div 8 + 1 /\ (wbits + 1) % 8 = 0  BY <1>2, <1>3, <2>1
    <3>3. w \in ResultBytes  BY <1>4 DEF ResultBytes
    <3>4. Append(result, w) \in Seq(ResultBytes) /\ Len(Append(result, w)) = Len(result) + 1
      BY <1>3, <3>3, AppendProperties
    <3>5. Len(ealpha) \in Nat  BY LenProperties DEF LInv, EncodeTyped
    <3>. QED  BY <3>1, <3>2, <3>4, <3>5, <1>2, <1>3 DEF HeaderLen
  <2>2. CASE rbits + 1 # 8
    <3>1. result' = result /\ rbyte' = w /\ rbits' = rbits + 1  BY <1>1, <2>2 DEF E!CheckBit
    <3>2. (wbits + 1) \div 8 = wbits \div 8 /\ (wbits + 1) % 8 = rbits + 1
      BY <1>2, <1>3, <2>2
    <3>. QED  BY <3>1, <3>2, <1>2, <1>3, <1>4
  <2>. QED  BY <2>1, <2>2
<1>9. dpc = "idle"  BY <1>2 DEF LInv, E!EncodeDone
<1>. QED
  BY <1>2, <1>3, <1>5, <1>6, <1>7, <1>8, <1>9
  DEF LInv, EncodeTyped, EncodePhases, EmitLayout, E!EncodeDone

\* Three pieces pushed one after the other
LEMMA Concat3 ==
    ASSUME NEW S, NEW a \in Seq(S), NEW b \in Seq(S), NEW c \in Seq(S)
    PROVE  a \o (b \o c) \in Seq(S) /\ Len(a \o (b \o c)) = Len(a) + Len(b) + Len(c)
<1>1. b \o c \in Seq(S) /\ Len(b \o c) = Len(b) + Len(c)  BY ConcatProperties
<1>. QED  BY <1>1, ConcatProperties

\* The four bytes of written_bits in memory order
LEMMA CounterBytesSeq ==
    ASSUME NEW x \in Nat
    PROVE  E!LEBytes(x, E!CounterBytes) \in Seq(Int) /\ Len(E!LEBytes(x, E!CounterBytes)) = 4
<1>1. \A i \in 1 .. 4 : (x \div 2^(8 * (i - 1))) % 256 \in Int
  <2>1. TAKE i \in 1 .. 4
  <2>2. 2^(8 * (i - 1)) \in Nat \ {0}
    <3>1. CASE i = 1
      <4>1. 2^(8 * (i - 1)) = 2^0  BY <3>1
      <4>. QED  BY <4>1, SMTT(30)
    <3>2. CASE i = 2
      <4>1. 2^(8 * (i - 1)) = 2^8  BY <3>2
      <4>. QED  BY <4>1, SMTT(30)
    <3>3. CASE i = 3
      <4>1. 2^(8 * (i - 1)) = 2^16  BY <3>3
      <4>. QED  BY <4>1, SMTT(30)
    <3>4. CASE i = 4
      <4>1. 2^(8 * (i - 1)) = 2^24  BY <3>4
      <4>. QED  BY <4>1, SMTT(30)
    <3>. QED  BY <3>1, <3>2, <3>3, <3>4
  <2>. QED  BY <2>2
<1>. QED  BY <1>1, SeqDef DEF E!LEBytes, E!CounterBytes

\* The end of encode: the partial byte, if any bit is in it, and the
\* counter complete the buffer.
LEMMA FlushLInv ==
    ASSUME LInv, E!Flush, UNCHANGED decVars
    PROVE  LInv'
<1>. USE DEF E!runVars, E!treeVars
<1>0. PICK partial, counter : /\ partial = IF rbits > 0 THEN << rbyte >> ELSE << >>
                              /\ counter = E!LEBytes(wbits, E!CounterBytes)
  OBVIOUS
<1>1. epc = "flush" /\ rbits = wbits % 8 /\ Len(result) = HeaderLen(Len(ealpha)) + wbits \div 8
  BY DEF E!Flush, LInv, EmitLayout
<1>2. wbits \in Nat /\ rbyte \in Int /\ result \in Seq(ResultBytes) /\ Len(ealpha) \in Nat
  BY LenProperties DEF LInv, EncodeTyped
<1>3. result' = result \o (partial \o counter)
  <2>1. result' = result \o E!Trailer  BY DEF E!Flush
  <2>2. E!Trailer = partial \o counter  BY <1>0 DEF E!Trailer
  <2>. QED  BY <2>1, <2>2
<1>4. partial \in Seq(ResultBytes) /\ Len(partial) = IF wbits % 8 > 0 THEN 1 ELSE 0
  <2>1. CASE rbits > 0
    <3>1. rbyte \in ResultBytes  BY <1>2 DEF ResultBytes
    <3>. QED  BY <2>1, <3>1, <1>0, <1>1
  <2>2. CASE ~(rbits > 0)
    <3>1. << >> \in Seq(ResultBytes)  BY EmptySeq
    <3>2. ~(wbits % 8 > 0)  BY <2>2, <1>1
    <3>. QED  BY <2>2, <3>1, <3>2, <1>0, EmptySeq
  <2>. QED  BY <2>1, <2>2
<1>5. counter \in Seq(ResultBytes) /\ Len(counter) = 4
  <2>1. counter \in Seq(Int) /\ Len(counter) = 4  BY <1>0, <1>2, CounterBytesSeq
  <2>2. Seq(Int) \subseteq Seq(ResultBytes)  BY SeqMonotonic DEF ResultBytes
  <2>. QED  BY <2>1, <2>2
<1>6. result' \in Seq(ResultBytes)
      /\ Len(result') = Len(result) + (IF wbits % 8 > 0 THEN 1 ELSE 0) + 4
  <2>1. result \o (partial \o counter) \in Seq(ResultBytes)
        /\ Len(result \o (partial \o counter)) = Len(result) + Len(partial) + Len(counter)
    <3>1. result \in Seq(ResultBytes)  BY <1>2
    <3>2. partial \in Seq(ResultBytes)  BY <1>4
    <3>3. counter \in Seq(ResultBytes)  BY <1>5
    <3>. QED  BY <3>1, <3>2, <3>3, Concat3
  <2>. QED  BY <2>1, <1>3, <1>4, <1>5
<1>7. (wbits + 7) \div 8 = wbits \div 8 + (IF wbits % 8 > 0 THEN 1 ELSE 0)  BY <1>2
<1>8. ResultLayout'
  <2>1. UNCHANGED <<ealpha, wbits>>  BY DEF E!Flush
  <2>. QED  BY <1>1, <1>2, <1>6, <1>7, <2>1 DEF ResultLayout, HeaderLen, CounterBytes
<1>9. UNCHANGED <<input, vi, occ, occurrences, oi, ealpha, mdb, rbyte, rbits, wbits, dpc>>
      /\ epc' = "done"
  BY DEF E!Flush, decVars
<1>10. ResultBytes' = ResultBytes  BY <1>9 DEF ResultBytes
<1>11. dpc = "idle"  BY <1>1 DEF LInv, E!EncodeDone
<1>. QED
  BY <1>2, <1>6, <1>8, <1>9, <1>10, <1>11
  DEF LInv, EncodeTyped, EncodePhases, EmitLayout, E!EncodeDone

\* Every step of encode or decode keeps the layout invariant.
LEMMA NextLInv == LInv /\ [Next]_vars => LInv'
<1> SUFFICES ASSUME LInv, [Next]_vars PROVE LInv'  OBVIOUS
<1>1. CASE UNCHANGED vars
  <2>1. UNCHANGED <<encVars, dpc>>  BY <1>1 DEF vars, decVars
  <2>2. ResultBytes' = ResultBytes  BY <2>1 DEF encVars, ResultBytes
  <2>. QED
    BY <2>1, <2>2 DEF LInv, encVars, EncodeTyped, EncodePhases, EmitLayout,
                      ResultLayout, E!EncodeDone
<1>2. CASE /\ \/ E!RunStart \/ E!RunExtend \/ E!RunClose \/ E!RunsDone
              \/ E!AlphaStep \/ E!AlphaDone \/ E!Sort
              \/ E!TreeBuild \/ E!TreeInsert
           /\ UNCHANGED decVars
  BY <1>2, EarlyStepLInv
<1>3. CASE E!Header /\ UNCHANGED decVars  BY <1>3, HeaderLInv
<1>4. CASE /\ E!PathStart \/ E!CopyDone \/ E!OccurrenceDone \/ E!PathsDone
           /\ UNCHANGED decVars
  BY <1>4, PathStepLInv
<1>5. CASE E!EmitBit /\ UNCHANGED decVars  BY <1>5, EmitBitLInv
<1>6. CASE E!Flush /\ UNCHANGED decVars  BY <1>6, FlushLInv
<1>7. CASE \/ CallDecode \/ Finished
           \/ /\ \/ D!ReadHeader \/ D!ReadLetter \/ D!LettersRead
                 \/ D!DTreeBuild \/ D!DTreeInsert \/ D!DTreeBuilt
                 \/ D!LoopTest \/ D!ReadDepthBit \/ D!DepthRead
                 \/ D!ReadPathBit \/ D!PathRead \/ D!FindValue \/ D!WriteOutput
              /\ UNCHANGED encVars
  BY <1>7, DecodeStepLInv
<1>. QED  BY <1>1, <1>2, <1>3, <1>4, <1>5, <1>6, <1>7 DEF Next

-----------------------------------------------------------------------------

\* The buffer encode returns is the header, the bits it wrote rounded up to
\* whole bytes, and the four bytes of written_bits (lines 519-550, 553-567,
\* 682-691), for every input buffer and width: the first conjunct of
\* BitCountExact, which decode relies on to find the counter at the end.
THEOREM ResultLayoutHolds == Spec => [](E!EncodeDone => ResultLayout)
<1>1. LInv => (E!EncodeDone => ResultLayout)  BY DEF LInv
<1>. QED  BY InitLInv, NextLInv, <1>1, PTL DEF Spec

=============================================================================
