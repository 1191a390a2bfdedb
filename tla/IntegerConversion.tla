-------------------------- MODULE IntegerConversion --------------------------
(***************************************************************************)
(* integer() of parser.c: the value of an integer literal, digit by digit, *)
(* in a signed word that wraps around when it overflows.                   *)
(***************************************************************************)
EXTENDS Integers, Sequences

CONSTANTS
    WordBits,  \* bits of an int64_t, 64 in the code
    Literals   \* sequences of digits

ASSUME WordAssumption == WordBits \in Nat \ {0}
ASSUME LiteralsAssumption == Literals \subseteq Seq(0..9)

VARIABLES
    digits,    \* the text of the token
    i,         \* the loop variable, from zero as in the code
    value,
    verdict    \* "running", "integer" for a node with the value, or "too large"

ivars == <<digits, i, value, verdict>>

\* A number as a signed word.
Wrapped(n) ==
    LET low == n % 2^WordBits
    IN IF low >= 2^(WordBits - 1) THEN low - 2^WordBits ELSE low

IntegerInit ==
    /\ digits \in Literals
    /\ i = 0 /\ value = 0 /\ verdict = "running"

\* Mutant: a value that stays the same counts as an overflow.
TooLarge_equal(new_value, old) == new_value =< old

TooLarge(new_value, old) == new_value < old

integer ==
    /\ verdict = "running"
    /\ \/ /\ i < Len(digits)
          /\ LET new_value == Wrapped(10 * value + digits[i + 1])
             IN IF TooLarge(new_value, value)
                THEN verdict' = "too large" /\ UNCHANGED <<i, value>>
                ELSE value' = new_value /\ i' = i + 1 /\ UNCHANGED verdict
       \/ /\ i = Len(digits)
          /\ verdict' = "integer"
          /\ UNCHANGED <<i, value>>
    /\ UNCHANGED digits

IntegerSpec == IntegerInit /\ [][integer]_ivars

\* The number that the first n digits stand for.
Prefix(n) ==
    LET number[k \in 0..n] == IF k = 0 THEN 0 ELSE 10 * number[k - 1] + digits[k]
    IN number[n]

\* The number the literal stands for.
Number == Prefix(Len(digits))

\* A number that fits into a word is converted to itself, and one that would fit
\* into an unsigned word is found to be too large.  (Of larger ones
\* some are not found, and wrap to another integer.)
IntegersAreRight ==
    /\ verdict = "integer" /\ Number < 2^WordBits => value = Number
    /\ verdict = "too large" => Number >= 2^(WordBits - 1)

=============================================================================
