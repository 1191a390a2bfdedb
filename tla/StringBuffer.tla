---------------------------- MODULE StringBuffer ----------------------------
(***************************************************************************)
(* struct String with the writer that appends to it, and struct Str        *)
(* (string.c).  The text a format and its arguments give is taken as       *)
(* given, and so is memory.  Sizes are numbers of SizeBits bits, and the   *)
(* writer casts the room it has to an int, of IntBits bits.                *)
(***************************************************************************)
EXTENDS Utf8

CONSTANTS
    SizeBits,   \* bits of a size_t, 64 in the code
    IntBits,    \* bits of an int, 32 in the code
    Unset,      \* bytes that memory may hold before it is written, all in the code
    Contents,   \* C strings a String or a Str is made of
    Writes,     \* texts written to a String
    MaxLength   \* bound on the length of a String before a write

\* No string takes half of the address space, where rounding up would overflow,
\* and the length of a text is an int, which vsnprintf() returns.
ASSUME StringAssumption ==
    /\ SizeBits \in 1..64 /\ IntBits \in 3..SizeBits /\ MaxLength \in Nat
    /\ Contents \cup Writes \subseteq Seq(1..255)
    /\ Unset \subseteq 0..255 /\ Unset # {}
    /\ \A text \in Writes : /\ MaxLength + Len(text) + 1 =< 2^(SizeBits - 1)
                            /\ Len(text) < 2^(IntBits - 1)
    /\ \A text \in Contents : Len(text) < 2^SizeBits

VARIABLES
    string,     \* struct String; data is what its buffer is known to hold
    call,       \* the last call: its name, the text and length it was given
    result      \* and what it returned, or "died"

svars == <<string, call, result>>

Call(name, text, length) == call' = [name |-> name, text |-> text, length |-> length]
Nothing == [data |-> <<>>, length |-> 0, capacity |-> 0]

StringInit ==
    /\ string = Nothing
    /\ call = [name |-> "none", text |-> <<>>, length |-> 0]
    /\ result = "true"

\* A string can be made once, and used while it exists.
string_init ==
    /\ call.name \in {"none", "string_fini"}
    /\ \E text \in Contents :
         LET valid == text = <<>> \/ validate_null_terminated_utf8(text, Len(text))
         IN /\ Call("string_init", text, Len(text))
            /\ string' = IF valid THEN [data |-> text, length |-> Len(text), capacity |-> Len(text)]
                         ELSE Nothing
            /\ result' = IF valid THEN "true" ELSE "false"

InUse == \/ call.name = "string_init" /\ result = "true"
         \/ call.name = "string_vwritef" /\ result # "died"

string_fini ==
    /\ InUse
    /\ Call("string_fini", <<>>, 0)
    /\ string' = Nothing
    /\ result' = "true"

\* The slice of a longer text; SIZE_MAX, for all of it, comes to the same as
\* its length.
str_init ==
    /\ call.name = "none"
    /\ \E text \in Contents : \E length \in 0..Len(text) :
         /\ Call("str_init", text, length)
         /\ result' = IF validate_null_terminated_utf8(text, length) THEN "true" ELSE "false"
    /\ UNCHANGED string

-----------------------------------------------------------------------------
\* A size as the set of its bits: what the lowest n of them are together, and
\* the bits a size has.
Low(word, n) ==
    LET sum[k \in 0..n] == IF k = 0 THEN 0
                           ELSE sum[k - 1] + IF k - 1 \in word THEN 2^(k - 1) ELSE 0
    IN sum[n]

Bits == 0..(SizeBits - 1)
Size(word) == Low(word, SizeBits)
Word(size) == CHOOSE word \in SUBSET Bits : Size(word) = size

\* size |= size >> n
OrShifted(word, n) == word \cup {b \in Bits : b + n \in word}

\* Mutant: one shift only.
Smeared_once(word) == OrShifted(word, 1)

\* All bits under the highest; a shift by more bits than a size has is left out
\* in the code, and changes nothing.
Smeared(word) == OrShifted(OrShifted(OrShifted(OrShifted(OrShifted(OrShifted(word,
                     1), 2), 4), 8), 16), 32)

RoundedUp(capacity) == (Size(Smeared(Word(capacity - 1))) + 1) % 2^SizeBits

\* A size as an int: its lowest bits, the last of which is the sign.
AsInt(size) ==
    LET low == size % 2^IntBits
    IN IF low < 2^(IntBits - 1) THEN low ELSE low - 2^IntBits

\* (int) (string->capacity - string->length)
Remaining(s) == AsInt(s.capacity - s.length)

\* What vsnprintf() is told of it, as a size: a negative one becomes huge.
Room(s) == IF Remaining(s) < 0 THEN Remaining(s) + 2^SizeBits ELSE Remaining(s)

\* What a buffer is known to hold after vsnprintf(), to the end of its text.
Printed(s, text) ==
    LET n == IF Len(text) < Room(s) THEN Len(text) ELSE Room(s) - 1
    IN IF Room(s) = 0 THEN s.data
       ELSE SubSeq(s.data, 1, s.length) \o SubSeq(text, 1, n) \o <<0>>

\* What the buffer may hold as far as the text is looked at: if it was cut, there
\* are bytes in it that nobody has written.
Seen(s, text) ==
    IF Len(text) < Room(s) THEN {s.data}
    ELSE {s.data \o rest : rest \in [1..(s.length + Len(text) + 3 - Len(s.data)) -> Unset]}

\* Mutant: no room for the terminating NUL.
Needed_without_nul(s, text) == s.length + Len(text)

Needed(s, text) == s.length + Len(text) + 1

\* Mutant: vsnprintf() is thought to need no room for the NUL.
Tight_without_nul(s, text) == Len(text) > Remaining(s)

\* Whether the text has to be printed again, into a larger buffer.
Tight(s, text) == Len(text) >= Remaining(s)

\* The rounding and the realloc().
string_resize_to_atleast(s, capacity) == [s EXCEPT !.capacity = RoundedUp(capacity)]

\* CHECK(capacity > string->capacity) of string_resize_to_atleast() fails.
Dies(s, text) == Tight(s, text) /\ Needed(s, text) =< s.capacity

\* The String when its text is looked at: it is printed, and if need be once more into
\* a larger buffer.  What is free there is cast to an int again, and not compared.
Filled(s, text) ==
    LET tried == [s EXCEPT !.data = Printed(s, text)]
        room  == string_resize_to_atleast(tried, Needed(s, text))
    IN IF Tight(s, text) THEN [room EXCEPT !.data = Printed(room, text)] ELSE tried

\* Whether the text just written is accepted, and the String after that.
Accepted(s, text, data) ==
    validate_null_terminated_utf8(SubSeq(data, s.length + 1, Len(data)), Len(text))

Written(s, text, data, ok) ==
    [Filled(s, text) EXCEPT !.data = data, !.length = IF ok THEN @ + Len(text) ELSE @]

string_vwritef ==
    /\ InUse
    /\ string.length =< MaxLength
    /\ \E text \in Writes :
         /\ Call("string_vwritef", text, Len(text))
         /\ \/ /\ Dies(string, text)
               /\ result' = "died"
               /\ UNCHANGED string
            \/ /\ ~Dies(string, text)
               /\ \E data \in Seen(Filled(string, text), text) :
                    LET ok == Accepted(string, text, data)
                    IN /\ result' = IF ok THEN "true" ELSE "false"
                       /\ string' = Written(string, text, data, ok)

StringNext == string_init \/ string_fini \/ str_init \/ string_vwritef
StringSpec == StringInit /\ [][StringNext]_svars

-----------------------------------------------------------------------------
(***************************************************************************)
(* Properties.                                                             *)
(***************************************************************************)
Content(s) == SubSeq(s.data, 1, s.length)

\* No buffer is overrun, and the assertion fails only where the free part of the
\* buffer is too large for an int, so that it is taken for too small.
StringTypeOK ==
    /\ string.length =< Len(string.data)
    /\ Len(string.data) =< string.capacity
    /\ string.capacity < 2^SizeBits
    /\ result \in {"true", "false", "died"}
    /\ result = "died" => string.capacity - string.length >= 2^(IntBits - 1)

\* Whether the last write had a buffer behind the end of the string that is small
\* enough for its text not to be cut.
Start == IF result = "true" THEN string.length - call.length ELSE string.length
NotCut == string.capacity - Start < 2^IntBits

\* Whether the last call has looked at the text it was given.
LookedAt == \/ call.name \in {"string_init", "str_init"}
            \/ call.name = "string_vwritef" /\ result # "died" /\ NotCut

\* A text is accepted exactly if it is well-formed; that it is made of scalar
\* values is not looked at, although the code has a test for surrogates.  A
\* slice may end in the middle of a character that goes on behind it.
AcceptsWellFormed ==
    LookedAt =>
        ((result = "true") <=>
           \E n \in call.length..Len(call.text) :
               /\ WellFormed(SubSeq(call.text, 1, n))
               /\ \A k \in (call.length + 1)..n : IsContinuation(call.text[k]))

\* What string.h says of the same: what is accepted is valid UTF-8.
AcceptsUtf8 ==
    call.name = "string_init" /\ result = "true" => WellFormed(call.text) /\ Scalars(call.text)

\* A write that fails leaves the string as it was, and one that succeeds appends
\* all of its text if it was not cut, however often the buffer grows and whatever an
\* earlier write left in it.
WritesAppend ==
    [][call'.name = "string_vwritef" =>
         /\ result' # "true" => Content(string') = Content(string)
         /\ result' = "true" /\ NotCut' => Content(string') = Content(string) \o call'.text]_svars

\* A buffer that grows gets the least power of two that holds the text with its
\* NUL: it grows a logarithmic number of times.
GrowsToPowersOfTwo ==
    [][call'.name = "string_vwritef" /\ string'.capacity # string.capacity =>
         LET fits == {k \in 0..(SizeBits - 1) : 2^k >= string.length + Len(call'.text) + 1}
         IN string'.capacity = 2^(CHOOSE k \in fits : \A j \in fits : k =< j)]_svars

=============================================================================
