------------------------------- MODULE MCRepl -------------------------------
(***************************************************************************)
(* Small instances of Repl: all short inputs of plain statements, and      *)
(* programs of every operator and of many constants.                       *)
(***************************************************************************)
EXTENDS Repl, TLC

Leaf(type, data) == Ast(type, data, <<>>)
One == Leaf("Integer", "1")
Binary(op, lhs, rhs) == Ast("Binary", op, <<lhs, rhs>>)
Unary(op, rhs) == Ast("Unary", op, <<rhs>>)

BinaryOps == (Operators \ UnaryOperators) \cup ShortCircuit
UnaryOps == UnaryOperators

\* A nested program character, and one character for each operator.
MCStatements ==
    [ch \in BinaryOps |-> Binary(ch, Leaf("Boolean", "true"), Leaf("Nil", ""))] @@
    [ch \in UnaryOps |-> Unary(ch, Leaf("Boolean", "false"))] @@
    [i |-> One,
     f |-> Leaf("Float", "2"),
     l |-> Binary("Subtract", Binary("Divide", One, Leaf("Float", "2")), Leaf("Integer", "3")),
     r |-> Binary("Subtract", Leaf("Integer", "4"), Binary("LessThan", One, Unary("Minus", Leaf("Float", "2")))),
     let |-> Leaf("Let", "")]

\* The statements, nested up to three deep, and their parts.
MCTrees ==
    LET Parts(trees) == UNION {{tree.parts[k] : k \in DOMAIN tree.parts} : tree \in trees}
        whole == {MCStatements[ch] : ch \in DOMAIN MCStatements}
    IN whole \cup Parts(whole) \cup Parts(Parts(whole)) \cup Parts(Parts(Parts(whole)))

Terminal(text) == [text |-> text, ends |-> FALSE]
File(text) == [text |-> text, ends |-> TRUE]
Lines(chars, lengths) == {Append(s, "\n") : s \in UNION {[1..n -> chars] : n \in lengths}}

MCInputs ==
    {Terminal(s) : s \in Lines({"i", "(", ")", "!", "\n"}, 0..4)}
    \cup {File(s) : s \in UNION {[1..n -> {"i", "(", ")", "\n"}] : n \in 1..4}}
    \cup {Terminal(s) : s \in Lines({"f", "l", "r", "let"}, 1..3)}
    \cup {Terminal(<<ch, ch, "i", "\n">>) : ch \in BinaryOps \cup UnaryOps}
    \cup {Terminal(s) : s \in Lines({"i"}, {9, 17})}

=============================================================================
