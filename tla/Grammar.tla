------------------------------- MODULE Grammar -------------------------------
(***************************************************************************)
(* The expressions of doc/bs.md, as derivations: which trees a sequence of *)
(* tokens has.  Tokens are spelled as in a program; "a" stands for any     *)
(* identifier.  Calls, collections and what contains blocks are left out.  *)
(* This is the reference that the parser's expressions are compared with.  *)
(***************************************************************************)
EXTENDS Integers, Sequences, SequencesExt

Identifier == "a"

\* A tree: its operator and its subtrees.
Tree(op, parts) == [op |-> op, parts |-> parts]

\* The nonterminals, each with those of its operators that stand between two
\* operands; what the first operand is, is the line, the second the next line.
Nonterminals ==
    << [name |-> "disjunction", between |-> {"or"}],
       [name |-> "conjunction", between |-> {"and"}],
       [name |-> "inversion",   between |-> {}],
       [name |-> "comparison",  between |-> {"==", "!=", "<=", "<", ">=", ">"}],
       [name |-> "bitwise_or",  between |-> {"|"}],
       [name |-> "bitwise_xor", between |-> {"^"}],
       [name |-> "bitwise_and", between |-> {"&"}],
       [name |-> "shift_expr",  between |-> {"<<", ">>"}],
       [name |-> "sum",         between |-> {"+", "-"}],
       [name |-> "term",        between |-> {"*", "/", "%"}],
       [name |-> "factor",      between |-> {}],
       [name |-> "primary",     between |-> {}] >>

Expression == 1
Factor == 11
Primary == 12

\* Operators in front of a factor; the first has no tree of its own.
Signs == {"+", "-", "!"}

RECURSIVE Derivations(_, _)

\* The trees of text as the n-th nonterminal.
Derivations(n, text) ==
    LET len == Len(text)
        name == Nonterminals[n].name
        infix ==
          UNION {{Tree(text[k], <<left, right>>) :
                    left  \in Derivations(n, SubSeq(text, 1, k - 1)),
                    right \in Derivations(n + 1, SubSeq(text, k + 1, len))} :
                 k \in {j \in 2..(len - 1) : text[j] \in Nonterminals[n].between}}
        prefix(ops) ==
          IF len < 2 \/ text[1] \notin ops THEN {}
          ELSE IF text[1] = "+" THEN Derivations(n, Tail(text))
          ELSE {Tree(text[1], <<part>>) : part \in Derivations(n, Tail(text))}
        member ==
          IF len < 3 \/ text[len] # Identifier \/ text[len - 1] # "." THEN {}
          ELSE {Tree(".", <<part>>) : part \in Derivations(n, SubSeq(text, 1, len - 2))}
        index ==
          IF len < 4 \/ text[len] # "]" THEN {}
          ELSE UNION {{Tree("[]", <<part, inner>>) :
                         part  \in Derivations(n, SubSeq(text, 1, k - 1)),
                         inner \in Derivations(Expression, SubSeq(text, k + 1, len - 1))} :
                      k \in {j \in 2..(len - 2) : text[j] = "["}}
        atom ==
          CASE text = <<Identifier>> -> {Tree(Identifier, <<>>)}
            [] len > 2 /\ text[1] = "(" /\ text[len] = ")" ->
                 Derivations(Expression, SubSeq(text, 2, len - 1))
            [] OTHER -> {}
    IN CASE name = "primary" -> member \cup index \cup atom
         [] name = "inversion" -> prefix({"not"}) \cup Derivations(n + 1, text)
         [] name = "factor" -> prefix(Signs) \cup Derivations(n + 1, text)
         [] OTHER -> infix \cup Derivations(n + 1, text)

=============================================================================
