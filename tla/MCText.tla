------------------------------- MODULE MCText -------------------------------
(***************************************************************************)
(* Small instances of what the interpreter makes of text: a behaviour is   *)
(* one of a string, of an integer literal or of an expression.             *)
(***************************************************************************)
EXTENDS StringBuffer, IntegerConversion, Expressions

\* Bytes from every row of the UTF-8 table: ASCII, continuation bytes on either
\* side of each limit, first bytes of every length, bytes that are neither.
Bytes == {65, 128, 159, 160, 191, 192, 194, 224, 237, 239, 240, 244, 247, 248, 255}

MCContents == UNION {[1..n -> Bytes] : n \in 0..3}
                \cup {<<b>> \o s : b \in {240, 244, 247}, s \in [1..3 -> {65, 128, 160, 191}]}

MCWrites == {<<>>, <<65>>, <<194, 160>>, <<226, 130, 172>>, <<194>>, <<65, 160>>,
             <<65, 66, 67, 68>>, <<65, 66, 67, 68, 69, 70, 71>>}

MCLiterals == UNION {[1..n -> 0..9] : n \in 1..4}

\* Expressions: short sequences of any tokens, and operands with every operator
\* between them, in front of them and in brackets around them.
Between == UNION {Levels[n] : n \in DOMAIN Levels}
OneOfEach == {"or", "and", "==", "|", "^", "&", "<<", "-", "*"}
InFront == {<<>>, <<"not">>, <<"-">>, <<"+">>, <<"!">>}

MCTokens ==
    UNION {[1..n -> {"a", "(", ")", "[", "]", ".", "not", "!", "+", "-", "*", "==", "or"}] : n \in 0..4}
    \cup {<<"a", p, "a", q, "a">> : p, q \in Between}
    \cup {<<"a", p, "a", q, "a", r, "a">> : p, q, r \in OneOfEach}
    \cup {u \o <<"a", p>> \o v \o <<"a", q>> \o w \o <<"a">> :
            u, v, w \in InFront, p, q \in {"and", "<", "+", "*"}}
    \cup {<<"(", "a", p, "a", ")", q, "a">> : p, q \in OneOfEach}
    \cup {<<"a", "[", "a", p, "a", "]", q, "a", ".", "a">> : p, q \in OneOfEach}

\* What the variables of the other two are.
NoString == string = Nothing /\ result = "true" /\ call = [name |-> "unused", text |-> <<>>, length |-> 0]
NoInteger == digits = <<>> /\ i = 0 /\ value = 0 /\ verdict = "integer"
NoExpression == source = <<>> /\ entry = "expression" /\ outcome = Read(Hole, 1)

Init == \/ StringInit /\ NoInteger /\ NoExpression
        \/ IntegerInit /\ NoString /\ NoExpression
        \/ ExpressionsInit /\ NoString /\ NoInteger

Next == \/ StringNext /\ UNCHANGED <<ivars, evars>>
        \/ integer /\ UNCHANGED <<svars, evars>>
        \/ read_expression /\ UNCHANGED <<svars, ivars>>

Spec == Init /\ [][Next]_<<svars, ivars, evars>>

=============================================================================
