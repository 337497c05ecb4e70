----------------------------- MODULE XKCEncode -----------------------------
(***************************************************************************)
(* XKC<alphabet_T>::encode(data_t data, size_t size), src/unnamed/part_002 *)
(* lines 440-718, one loop turn per action:                                *)
(*   "runs"/"inner"  the run-length collapse into `occurrences` (455-480)  *)
(*   "alpha"         the frequency table `alphabet` (483-502)              *)
(*   "sort"          std::sort by descending frequency (505-510)           *)
(*   "tree"          the tree built from the sorted alphabet (512-517)     *)
(*   "header"        max_depth_bits, alphabet size and letters (519-550)   *)
(*   "paths"/"emit"  one path per occurrence, written `count` times, one   *)
(*                   bit per step through write_bit/check_bit (553-680)    *)
(*   "flush"         the partial last byte and written_bits (682-691)      *)
(* The buffer handed to encode is modelled by the sequence of alphabet_T   *)
(* values view_as<alphabet_T*>(data) reads from it.                        *)
(***************************************************************************)
EXTENDS XKCFormat, FiniteSets

CONSTANTS
    Width,     \* sizeof(alphabet_T)
    CountMax,  \* numeric_limits<byte_t>::max(), the cap of Occurrence::count
    Inputs,    \* the buffers encode may be called with
    None       \* no recursive tree insertion in progress

\* The values of alphabet_T
Symbols == 0..2^(8 * Width) - 1

VARIABLES
    input,        \* values[0 .. max_values - 1]
    epc,          \* which loop of encode is running
    vi,           \* value_index (1-based here)
    start,        \* start_occurrence_index (1-based)
    occ,          \* the Occurrence being collapsed
    occurrences,  \* occurrences_t
    oi,           \* index into occurrences of the running range-for
    ealpha,       \* alphabet_t: sequence of [value, freq]
    etree, ecur, epending, eai,  \* binary_tree and its build loop
    mdb,          \* max_depth_bits
    result,       \* bytes_t result
    rbyte,        \* result_byte
    rbits,        \* written_bits_on_result_byte
    wbits,        \* written_bits (uint32_t)
    epath,        \* bit path of the PathInfo of the current occurrence
    cnt,          \* `count` of the loop writing the path occurrence.count times
    k             \* bit of method1 being written: depth bits, then path bits

runVars == <<vi, start, occ, occurrences>>
treeVars == <<etree, ecur, epending, eai>>
outVars == <<mdb, result, rbyte, rbits, wbits, epath, cnt, k>>
encVars == <<input, epc, runVars, oi, ealpha, treeVars, outVars>>

\* The letter values of the alphabet, in its current order
EAlphaValues == [i \in 1..Len(ealpha) |-> ealpha[i].value]

ET == INSTANCE XKCTree
        WITH tree <- etree, cur <- ecur, pending <- epending,
             alphabet <- EAlphaValues, ai <- eai, TreeAlphabet <- << >>

Init ==
    /\ input \in Inputs
    /\ epc = "runs"
    /\ vi = 1
    /\ start = 1
    /\ occ = [letter |-> 0, count |-> 0]
    /\ occurrences = << >>
    /\ oi = 1
    /\ ealpha = << >>
    /\ etree = ET!EmptyTree
    /\ ecur = None
    /\ epending = INVALID
    /\ eai = 1
    /\ mdb = 0
    /\ result = << >>
    /\ rbyte = 0
    /\ rbits = 0
    /\ wbits = 0
    /\ epath = << >>
    /\ cnt = 0
    /\ k = 0

-----------------------------------------------------------------------------
(* Run-length collapse, lines 455-480 *)

\* Outer loop: a new occurrence starts at value_index (457-461).
RunStart ==
    /\ epc = "runs"
    /\ vi <= Len(input)
    /\ start' = vi
    /\ occ' = [letter |-> input[vi], count |-> 1]
    /\ vi' = vi + 1
    /\ epc' = "inner"
    /\ UNCHANGED <<input, occurrences, oi, ealpha, treeVars, outVars>>

\* The inner loop goes on: values remain, the count is below its cap and the
\* value at value_index is the occurrence's (463-474).
RunContinues ==
    /\ vi <= Len(input)
    /\ occ.count # CountMax
    /\ input[start] = input[vi]

\* Inner loop: the value at value_index extends the occurrence (476).
RunExtend ==
    /\ epc = "inner"
    /\ RunContinues
    /\ occ' = [occ EXCEPT !.count = @ + 1]
    /\ vi' = vi + 1
    /\ UNCHANGED <<input, epc, start, occurrences, oi, ealpha, treeVars, outVars>>

\* The inner loop ends (input exhausted, count at its cap, or a different
\* value) and the occurrence is pushed (479).
RunClose ==
    /\ epc = "inner"
    /\ ~RunContinues
    /\ occurrences' = Append(occurrences, occ)
    /\ epc' = "runs"
    /\ UNCHANGED <<input, vi, start, occ, oi, ealpha, treeVars, outVars>>

RunsDone ==
    /\ epc = "runs"
    /\ vi > Len(input)
    /\ epc' = "alpha"
    /\ oi' = 1
    /\ UNCHANGED <<input, runVars, ealpha, treeVars, outVars>>

-----------------------------------------------------------------------------
(* The alphabet, lines 483-510 *)

\* One occurrence folded into the alphabet: std::find_if finds the first
\* letter with its value, whose freq grows by count; otherwise a new letter
\* is pushed (483-502).
AlphaStep ==
    /\ epc = "alpha"
    /\ oi <= Len(occurrences)
    /\ LET o     == occurrences[oi]
           found == {i \in 1..Len(ealpha) : ealpha[i].value = o.letter}
       IN  ealpha' = IF found = {}
                        THEN Append(ealpha, [value |-> o.letter, freq |-> o.count])
                        ELSE LET i == CHOOSE i \in found : \A j \in found : i <= j
                             IN  [ealpha EXCEPT ![i].freq = @ + o.count]
    /\ oi' = oi + 1
    /\ UNCHANGED <<input, epc, runVars, treeVars, outVars>>

AlphaDone ==
    /\ epc = "alpha"
    /\ oi > Len(occurrences)
    /\ epc' = "sort"
    /\ UNCHANGED <<input, runVars, oi, ealpha, treeVars, outVars>>

\* The reorderings of s whose frequencies do not increase.  std::sort is not
\* stable: which order letters of equal frequency end in is not specified.
SortedByFreq(s) ==
    LET perms     == { g \in [1..Len(s) -> 1..Len(s)] :
                         \A i, j \in 1..Len(s) : i # j => g[i] # g[j] }
        reordered == { [i \in 1..Len(s) |-> s[g[i]]] : g \in perms }
    IN  { t \in reordered : \A i, j \in 1..Len(t) : i < j => t[i].freq >= t[j].freq }

\* std::sort(alphabet, a.freq > b.freq) (505-510)
Sort ==
    /\ epc = "sort"
    /\ ealpha' \in SortedByFreq(ealpha)
    /\ epc' = "tree"
    /\ UNCHANGED <<input, runVars, oi, treeVars, outVars>>

-----------------------------------------------------------------------------
(* The tree, lines 512-517 *)

\* One turn of the build loop
TreeBuild ==
    /\ epc = "tree"
    /\ ET!BuildStep
    /\ UNCHANGED <<input, epc, runVars, oi, ealpha, outVars>>

\* One call of the recursive insert
TreeInsert ==
    /\ epc = "tree"
    /\ ET!InsertStep
    /\ UNCHANGED <<input, epc, runVars, oi, ealpha, outVars>>

\* Header, lines 519-550: max_depth_bits from the root's height, the
\* alphabet size minus one and each letter value, every one of them cut to
\* a byte by push_back; then the bit writer's state starts from zero.
Header ==
    /\ epc = "tree"
    /\ ET!Built
    /\ LET bits == BitsNeeded(ET!Height(etree))
       IN  /\ mdb' = bits
           /\ result' = << ByteOf(bits), ByteOf(Len(ealpha) - 1) >>
                        \o [i \in 1..Len(ealpha) |-> ByteOf(ealpha[i].value)]
    /\ rbyte' = 0
    /\ rbits' = 0
    /\ wbits' = 0
    /\ oi' = 1
    /\ epc' = "paths"
    /\ UNCHANGED <<input, runVars, ealpha, treeVars, epath, cnt, k>>

-----------------------------------------------------------------------------
(* The bit stream, lines 553-691 *)

\* binary_tree.path_info for the next occurrence (671-674)
PathStart ==
    /\ epc = "paths"
    /\ oi <= Len(occurrences)
    /\ epath' = ET!PathInfo(etree, occurrences[oi].letter)
    /\ cnt' = 0
    /\ k' = 0
    /\ epc' = "emit"
    /\ UNCHANGED <<input, runVars, oi, ealpha, treeVars, mdb, result, rbyte,
                   rbits, wbits>>

\* Bit k of method1's output for a path: the depth, least significant bit
\* first, over max_depth_bits bits, then the path bits (580-615)
Method1Bit(path, j) ==
    IF j < mdb THEN BitOf(Len(path), j) ELSE path[j - mdb + 1]

\* Faulty variant of CheckBit, for the mutation runs: the byte is pushed one
\* bit late.
CheckBitLate(written) ==
    /\ IF rbits + 1 = 9
          THEN /\ result' = Append(result, written)
               /\ rbyte' = 0
               /\ rbits' = 0
          ELSE /\ rbyte' = written
               /\ rbits' = rbits + 1
               /\ UNCHANGED result
    /\ wbits' = wbits + 1

\* check_bit (553-567) after write_bit left `written` in result_byte: the bit
\* is counted, and result_byte is pushed once it holds 8 bits.
CheckBit(written) ==
    /\ IF rbits + 1 = 8
          THEN /\ result' = Append(result, written)
               /\ rbyte' = 0
               /\ rbits' = 0
          ELSE /\ rbyte' = written
               /\ rbits' = rbits + 1
               /\ UNCHANGED result
    /\ wbits' = wbits + 1   \* uint32_t: wraps only after 2^32 bits

\* One bit of method1: write_bit sets it in result_byte (569-572) when it
\* is 1, then check_bit.
EmitBit ==
    /\ epc = "emit"
    /\ cnt < occurrences[oi].count
    /\ k < mdb + Len(epath)
    /\ CheckBit(IF Method1Bit(epath, k) = 1 THEN SetBit(rbyte, rbits) ELSE rbyte)
    /\ k' = k + 1
    /\ UNCHANGED <<input, epc, runVars, oi, ealpha, treeVars, mdb, epath, cnt>>

\* method1 has written the whole path: the next copy of it (676-679)
CopyDone ==
    /\ epc = "emit"
    /\ cnt < occurrences[oi].count
    /\ k = mdb + Len(epath)
    /\ cnt' = cnt + 1
    /\ k' = 0
    /\ UNCHANGED <<input, epc, runVars, oi, ealpha, treeVars, mdb, result, rbyte,
                   rbits, wbits, epath>>

\* All count copies are written: the next occurrence (671)
OccurrenceDone ==
    /\ epc = "emit"
    /\ cnt = occurrences[oi].count
    /\ oi' = oi + 1
    /\ epc' = "paths"
    /\ UNCHANGED <<input, runVars, ealpha, treeVars, outVars>>

PathsDone ==
    /\ epc = "paths"
    /\ oi > Len(occurrences)
    /\ epc' = "flush"
    /\ UNCHANGED <<input, runVars, oi, ealpha, treeVars, outVars>>

\* Faulty variant of Trailer, for the mutation runs: the partial byte is lost.
TrailerNoPartial == LEBytes(wbits, CounterBytes)

\* What encode appends after the paths (682-691): a partly filled
\* result_byte, then written_bits byte by byte in memory order.
Trailer == (IF rbits > 0 THEN << rbyte >> ELSE << >>) \o LEBytes(wbits, CounterBytes)

Flush ==
    /\ epc = "flush"
    /\ result' = result \o Trailer
    /\ epc' = "done"
    /\ UNCHANGED <<input, runVars, oi, ealpha, treeVars, mdb, rbyte, rbits,
                   wbits, epath, cnt, k>>

\* encode has returned result
EncodeDone == epc = "done"

EncodeNext ==
    \/ RunStart \/ RunExtend \/ RunClose \/ RunsDone
    \/ AlphaStep \/ AlphaDone \/ Sort
    \/ TreeBuild \/ TreeInsert \/ Header
    \/ PathStart \/ EmitBit \/ CopyDone \/ OccurrenceDone \/ PathsDone
    \/ Flush

-----------------------------------------------------------------------------
\* Type invariant of encode's locals
EncTypeOK ==
    /\ input \in Seq(Symbols)
    /\ epc \in {"runs", "inner", "alpha", "sort", "tree", "paths", "emit",
                "flush", "done"}
    /\ vi \in 1..Len(input) + 1
    /\ start \in 1..Len(input) + 1
    /\ occ \in [letter : Symbols, count : 0..CountMax]
    /\ occurrences \in Seq([letter : Symbols, count : 1..CountMax])
    /\ oi \in 1..Len(occurrences) + 1
    /\ ealpha \in Seq([value : Symbols, freq : Nat])
    /\ ET!TypeOK
    /\ mdb \in Nat
    /\ result \in Seq(0..255)
    /\ rbyte \in 0..255
    /\ rbits \in 0..7
    /\ wbits \in Nat
    /\ epath \in Seq({0, 1})
    /\ cnt \in 0..CountMax
    /\ k \in Nat

=============================================================================
