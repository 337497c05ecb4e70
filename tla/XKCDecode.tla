----------------------------- MODULE XKCDecode -----------------------------
(***************************************************************************)
(* XKC<alphabet_T>::decode(data_t data, size_t size), src/unnamed/part_002 *)
(* lines 727-828, one loop turn per action:                                *)
(*   "header"  max_depth_bits, alphabet size, trailing written_bits        *)
(*             (732-742)                                                   *)
(*   "alpha"   one letter byte per turn (744-750)                          *)
(*   "tree"    the tree rebuilt from the letters (752-758)                 *)
(*   "loop"    the test of while (bits_read < written_bits) (766)          *)
(*   "depth"   max_depth_bits bits, least significant first (792-800)      *)
(*   "path"    depth path bits (804-811)                                   *)
(*   "find"    find_value and the push of the letter (813-815)             *)
(*   "out"     one byte per decoded letter (822-825)                       *)
(* A read of data[i] with i >= size is undefined behaviour: the model     *)
(* stops in "oob".  find_value following a path off the tree dereferences *)
(* a null shared_node: the model stops in "null".                          *)
(***************************************************************************)
EXTENDS XKCFormat

CONSTANTS
    Buffers,   \* the byte buffers decode may be called with
    None       \* no recursive tree insertion in progress

\* Letters are read back one byte each (749), whatever sizeof(alphabet_T)
DSymbols == 0..255

VARIABLES
    buf,       \* data[0 .. size - 1]
    dpc,       \* which part of decode is running
    rd,        \* read_bytes
    dmdb,      \* max_depth_bits
    dsize,     \* alphabet_size
    dwritten,  \* written_bits read from the last four bytes
    dalpha,    \* the letter values read from the header
    dtree, dcur, dpending, dai,  \* binary_tree and its build loop
    rdbits,    \* read_bits_on_result_byte
    bread,     \* bits_read
    ddepth,    \* path_info.depth of the letter being read
    dbits,     \* path_info.bit_path[0 .. depth - 1]
    dk,        \* depth_bit / depth: the loop index of the field being read
    docc,      \* the letter values found, one per decoded occurrence
    output     \* bytes_t result

dTreeVars == <<dtree, dcur, dpending, dai>>
hdrVars == <<dmdb, dsize, dwritten, dalpha>>
bitVars == <<rdbits, bread, ddepth, dbits, dk>>
decVars == <<buf, dpc, rd, hdrVars, dTreeVars, bitVars, docc, output>>

DT == INSTANCE XKCTree
        WITH Symbols <- DSymbols, tree <- dtree, cur <- dcur,
             pending <- dpending, alphabet <- dalpha, ai <- dai,
             TreeAlphabet <- << >>

\* decode has not been called yet
DInit ==
    /\ buf = << >>
    /\ dpc = "idle"
    /\ rd = 0
    /\ dmdb = 0
    /\ dsize = 0
    /\ dwritten = 0
    /\ dalpha = << >>
    /\ dtree = DT!EmptyTree
    /\ dcur = None
    /\ dpending = INVALID
    /\ dai = 1
    /\ rdbits = 0
    /\ bread = 0
    /\ ddepth = 0
    /\ dbits = << >>
    /\ dk = 0
    /\ docc = << >>
    /\ output = << >>

\* decode(data, size) is called
Decode(data) ==
    /\ dpc = "idle"
    /\ buf' = data
    /\ dpc' = "header"
    /\ UNCHANGED <<rd, hdrVars, dTreeVars, bitVars, docc, output>>

\* Faulty variant of AlphabetSize, for the mutation runs: the + 1 forgotten.
AlphabetSizeNoIncrement(b) == b

\* alphabet_size from the second header byte (740)
AlphabetSize(b) == b + 1

\* The two header bytes and the trailing uint32_t (739-742)
ReadHeader ==
    /\ dpc = "header"
    /\ IF Len(buf) < 2 \/ Len(buf) < CounterBytes
          THEN /\ dpc' = "oob"
               /\ UNCHANGED <<rd, hdrVars>>
          ELSE /\ dmdb' = buf[1]
               /\ dsize' = AlphabetSize(buf[2])
               /\ dwritten' = FromLE(SubSeq(buf, Len(buf) - CounterBytes + 1, Len(buf)))
               /\ rd' = 2
               /\ dpc' = "alpha"
               /\ UNCHANGED dalpha
    /\ UNCHANGED <<buf, dTreeVars, bitVars, docc, output>>

\* One turn of the alphabet loop: alphabet.push_back({ read_byte() }) (746-750)
ReadLetter ==
    /\ dpc = "alpha"
    /\ Len(dalpha) < dsize
    /\ IF rd < Len(buf)
          THEN /\ dalpha' = Append(dalpha, buf[rd + 1])
               /\ rd' = rd + 1
               /\ UNCHANGED dpc
          ELSE /\ dpc' = "oob"
               /\ UNCHANGED <<rd, dalpha>>
    /\ UNCHANGED <<buf, dmdb, dsize, dwritten, dTreeVars, bitVars, docc, output>>

LettersRead ==
    /\ dpc = "alpha"
    /\ Len(dalpha) = dsize
    /\ dpc' = "tree"
    /\ UNCHANGED <<buf, rd, hdrVars, dTreeVars, bitVars, docc, output>>

\* One turn of the build loop (755-758)
DTreeBuild ==
    /\ dpc = "tree"
    /\ DT!BuildStep
    /\ UNCHANGED <<buf, dpc, rd, hdrVars, bitVars, docc, output>>

\* One call of the recursive insert
DTreeInsert ==
    /\ dpc = "tree"
    /\ DT!InsertStep
    /\ UNCHANGED <<buf, dpc, rd, hdrVars, bitVars, docc, output>>

DTreeBuilt ==
    /\ dpc = "tree"
    /\ DT!Built
    /\ dpc' = "loop"
    /\ UNCHANGED <<buf, rd, hdrVars, dTreeVars, bitVars, docc, output>>

\* while (bits_read < written_bits): a fresh PathInfoResult per turn (766-788)
LoopTest ==
    /\ dpc = "loop"
    /\ IF bread < dwritten
          THEN /\ dpc' = "depth"
               /\ ddepth' = 0
               /\ dbits' = << >>
               /\ dk' = 0
          ELSE /\ dpc' = "out"
               /\ UNCHANGED <<ddepth, dbits, dk>>
    /\ UNCHANGED <<buf, rd, hdrVars, dTreeVars, rdbits, bread, docc, output>>

\* Faulty variant of NextBit, for the mutation runs: bits taken from the
\* most significant end of the byte.
NextBitMsbFirst == BitOf(buf[rd + 1], 7 - rdbits)

\* The bit read_bit returns (771-774)
NextBit == BitOf(buf[rd + 1], rdbits)

\* read_bit's cursor update (776-783)
Advance ==
    /\ bread' = bread + 1
    /\ IF rdbits + 1 = 8
          THEN rd' = rd + 1 /\ rdbits' = 0
          ELSE rdbits' = rdbits + 1 /\ UNCHANGED rd

\* One depth bit: path_info.depth |= (bit << depth_bit) (792-800)
ReadDepthBit ==
    /\ dpc = "depth"
    /\ dk < dmdb
    /\ IF rd < Len(buf)
          THEN /\ ddepth' = ddepth + NextBit * 2^dk
               /\ Advance
               /\ dk' = dk + 1
               /\ UNCHANGED dpc
          ELSE /\ dpc' = "oob"
               /\ UNCHANGED <<rd, rdbits, bread, ddepth, dk>>
    /\ UNCHANGED <<buf, hdrVars, dTreeVars, dbits, docc, output>>

DepthRead ==
    /\ dpc = "depth"
    /\ dk = dmdb
    /\ dpc' = "path"
    /\ dk' = 0
    /\ UNCHANGED <<buf, rd, hdrVars, dTreeVars, rdbits, bread, ddepth, dbits,
                   docc, output>>

\* One path bit: path_info.bit_path[depth] = bit (804-811)
ReadPathBit ==
    /\ dpc = "path"
    /\ dk < ddepth
    /\ IF rd < Len(buf)
          THEN /\ dbits' = Append(dbits, NextBit)
               /\ Advance
               /\ dk' = dk + 1
               /\ UNCHANGED dpc
          ELSE /\ dpc' = "oob"
               /\ UNCHANGED <<rd, rdbits, bread, dbits, dk>>
    /\ UNCHANGED <<buf, hdrVars, dTreeVars, ddepth, docc, output>>

PathRead ==
    /\ dpc = "path"
    /\ dk = ddepth
    /\ dpc' = "find"
    /\ UNCHANGED <<buf, rd, hdrVars, dTreeVars, bitVars, docc, output>>

\* find_value walks the path from the root (283-301); the letter is pushed
\* as an occurrence of count 1 (813-815).
FindValue ==
    /\ dpc = "find"
    /\ IF dbits \in DOMAIN dtree
          THEN /\ docc' = Append(docc, dtree[dbits])
               /\ dpc' = "loop"
          ELSE /\ dpc' = "null"
               /\ UNCHANGED docc
    /\ UNCHANGED <<buf, rd, hdrVars, dTreeVars, bitVars, output>>

\* result.push_back(letter_value): one byte per occurrence (822-825)
WriteOutput ==
    /\ dpc = "out"
    /\ output' = [i \in 1..Len(docc) |-> ByteOf(docc[i])]
    /\ dpc' = "done"
    /\ UNCHANGED <<buf, rd, hdrVars, dTreeVars, bitVars, docc>>

\* decode has returned
DecodeDone == dpc = "done"

\* decode stopped on undefined behaviour
DecodeFailed == dpc \in {"oob", "null"}

DecodeNext ==
    \/ ReadHeader \/ ReadLetter \/ LettersRead
    \/ DTreeBuild \/ DTreeInsert \/ DTreeBuilt
    \/ LoopTest \/ ReadDepthBit \/ DepthRead \/ ReadPathBit \/ PathRead
    \/ FindValue \/ WriteOutput

-----------------------------------------------------------------------------
\* Type invariant of decode's locals
DecTypeOK ==
    /\ buf \in Seq(0..255)
    /\ dpc \in {"idle", "header", "alpha", "tree", "loop", "depth", "path",
                "find", "out", "done", "oob", "null"}
    /\ rd \in 0..Len(buf)
    /\ dmdb \in 0..255
    /\ dsize \in 0..256
    /\ dwritten \in Nat
    /\ dalpha \in Seq(DSymbols)
    /\ DT!TypeOK
    /\ rdbits \in 0..7
    /\ bread \in Nat
    /\ ddepth \in Nat
    /\ dbits \in Seq({0, 1})
    /\ dk \in Nat
    /\ docc \in Seq(DSymbols \cup {INVALID})
    /\ output \in Seq(0..255)

=============================================================================
