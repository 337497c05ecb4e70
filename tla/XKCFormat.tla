----------------------------- MODULE XKCFormat -----------------------------
(***************************************************************************)
(* Byte- and bit-level conversions shared by XKC<alphabet_T>::encode and   *)
(* XKC<alphabet_T>::decode (src/unnamed/part_002).  A byte is an integer   *)
(* in 0..255; bit c of a byte is the one selected by the mask (1 << c), so *)
(* the first bit written into a byte is its least significant one.         *)
(***************************************************************************)
EXTENDS Integers, Sequences

\* Node::Value::INVALID (line 76), stored in the widened value_t
INVALID == -1

\* sizeof(uint32_t): the width of the trailing written_bits counter
CounterBytes == 4

\* The header before the bit stream: max_depth_bits, alphabet size - 1, and
\* one byte per letter (lines 539-546)
HeaderLen(nletters) == 2 + nletters

\* view_as<byte_t>(x) / push_back of a wider integer: its low byte
ByteOf(x) == x % 256

\* (b & (1 << c)) ? 1 : 0
BitOf(b, c) == (b \div 2^c) % 2

\* b |= (1 << c)
SetBit(b, c) == IF BitOf(b, c) = 1 THEN b ELSE b + 2^c

\* BitsNeeded(n) (bits.h, not under src/): the number of bits needed to
\* write n, i.e. the least b with n < 2^b; 0 for n = 0.
BitsNeeded(n) == CHOOSE b \in 0..n : n < 2^b /\ (b = 0 \/ 2^(b - 1) <= n)

\* The n bytes of x, least significant first (x86 memory order)
LEBytes(x, n) == [i \in 1..n |-> (x \div 2^(8 * (i - 1))) % 256]

\* The integer whose little-endian bytes are s
FromLE(s) ==
    LET acc[i \in 0..Len(s)] ==
            IF i = 0 THEN 0 ELSE acc[i - 1] + s[i] * 2^(8 * (i - 1))
    IN  acc[Len(s)]

\* The bytes of a buffer of alphabet_T values of w bytes each
SymbolBytes(syms, w) ==
    [j \in 1..Len(syms) * w |-> LEBytes(syms[(j - 1) \div w + 1], w)[((j - 1) % w) + 1]]

=============================================================================
