-------------------------------- MODULE Utf8 --------------------------------
(***************************************************************************)
(* validate_null_terminated_utf8() of string.c, and what UTF-8 is.         *)
(* Bytes are numbers; masks are written as ranges and remainders.          *)
(***************************************************************************)
EXTENDS Integers, Sequences, SequencesExt

\* A byte of a C string, behind the end of which there is a NUL.
CharAt(text, i) == IF i =< Len(text) THEN text[i] ELSE 0

IsContinuation(byte) == byte \in 128..191

\* How many continuation bytes a first byte announces, and the bits it has for
\* the code point.
FirstBytes == << 192..223, 224..239, 240..247 >>
IsFirst(byte) == \E n \in DOMAIN FirstBytes : byte \in FirstBytes[n]
Announced(byte) == CHOOSE n \in DOMAIN FirstBytes : byte \in FirstBytes[n]
FirstBits(byte) == byte % 2^(6 - Announced(byte))

\* (codepoint << 6) | (byte & 0xdf): the mask keeps bit 7 of the byte and drops
\* bit 5.
Accumulated(codepoint, byte) ==
    64 * codepoint + (byte % 32) + (IF (codepoint \div 2) % 2 = 0 THEN 128 ELSE 0)

Codepoint(text, i) ==
    LET n == Announced(text[i])
        bits[k \in 0..n] == IF k = 0 THEN FirstBits(text[i])
                            ELSE Accumulated(bits[k - 1], CharAt(text, i + k))
    IN bits[n]

Surrogates == 55296..57343

\* Mutant: one continuation byte fewer.
AllContinue_but_last(text, i, n) == \A k \in 1..(n - 1) : IsContinuation(CharAt(text, i + k))

AllContinue(text, i, n) == \A k \in 1..n : IsContinuation(CharAt(text, i + k))

\* The loop looks at the end of the text only before a first byte.
validate_null_terminated_utf8(text, length) ==
    LET valid[i \in 1..(length + 4)] ==
          \/ i > length
          \/ text[i] =< 127 /\ valid[i + 1]
          \/ /\ IsFirst(text[i])
             /\ AllContinue(text, i, Announced(text[i]))
             /\ Codepoint(text, i) \notin Surrogates
             /\ valid[i + 1 + Announced(text[i])]
    IN valid[1]

-----------------------------------------------------------------------------
(***************************************************************************)
(* UTF-8 as it is defined (RFC 3629), in two halves.                       *)
(***************************************************************************)
\* Every byte belongs to a character: ASCII, or a first byte with just as many
\* continuation bytes behind it as it announces.
WellFormed(text) ==
    LET run(i) == {j \in DOMAIN text : j > i /\ \A k \in (i + 1)..j : IsContinuation(text[k])}
    IN /\ text # <<>> => ~IsContinuation(text[1])
       /\ \A i \in DOMAIN text :
            \/ IsContinuation(text[i])
            \/ text[i] =< 127 /\ run(i) = {}
            \/ IsFirst(text[i]) /\ run(i) = (i + 1)..(i + Announced(text[i]))

\* Each character stands for a Unicode scalar value, in its shortest form.
Decoded(text, i) ==
    FoldLeft(LAMBDA bits, byte : 64 * bits + (byte % 64),
             FirstBits(text[i]), SubSeq(text, i + 1, i + Announced(text[i])))

Scalars(text) ==
    \A i \in DOMAIN text : IsFirst(text[i]) =>
        /\ Decoded(text, i) \notin Surrogates
        /\ Decoded(text, i) \in << 128..2047, 2048..65535, 65536..1114111 >>[Announced(text[i])]

=============================================================================
