---------------------------- MODULE Expressions ----------------------------
(***************************************************************************)
(* The functions of parser.c that read expressions, with the trees they    *)
(* make.  Module Parser has the same functions without trees, and with     *)
(* what happens behind an error; here a tree that was not read is Hole,    *)
(* and so is a tree with a hole in it.                                     *)
(*                                                                         *)
(* Each function is an operator from the tokens and the position of the    *)
(* current one to the tree it returns and the position behind.  The        *)
(* argument opt_primary is Hole for NULL.                                  *)
(***************************************************************************)
EXTENDS Grammar

CONSTANT Tokens  \* the sequences of tokens to be read

VARIABLES
    source,  \* the tokens
    entry,   \* "expression", or "statement" for one that begins a statement
    outcome  \* what was read, or Unread

evars == <<source, entry, outcome>>

Hole == [op |-> "NULL", parts |-> <<>>]
Read(tree, at) == [tree |-> tree, at |-> at]
Unread == Read(Hole, 0)

Current(text, at) == IF at =< Len(text) THEN text[at] ELSE "EOF"

\* ast_binary_create() and its like.
Create(op, parts) == IF Hole \in ToSet(parts) THEN Hole ELSE Tree(op, parts)

\* consume(); an error makes the whole source fail.
Consumed(text, read, token) ==
    IF Current(text, read.at) = token THEN Read(read.tree, read.at + 1) ELSE Read(Hole, read.at)

\* The functions from disjunction() down to term(), with the operators of each.
Levels == << {"or"},
             {"and"},
             {"==", "!=", "<=", "<", ">=", ">"},
             {"|"}, {"^"}, {"&"},
             {"<<", ">>"},
             {"+", "-"},
             {"*", "/", "%"} >>

RECURSIVE level(_, _, _, _), loop(_, _, _), inversion(_, _, _), unary(_, _, _), postfix(_, _)

atom(text, at) ==
    CASE Current(text, at) = Identifier -> Read(Tree(Identifier, <<>>), at + 1)
      [] Current(text, at) = "(" -> Consumed(text, level(1, text, at + 1, Hole), ")")
      [] OTHER -> Read(Hole, at + 1)

\* The loop of primary().
postfix(text, read) ==
    CASE Current(text, read.at) = "." ->
           LET name == Consumed(text, Read(Create(".", <<read.tree>>), read.at + 1), Identifier)
           IN postfix(text, name)
      [] Current(text, read.at) = "[" ->
           LET index == level(1, text, read.at + 1, Hole)
           IN postfix(text, Consumed(text, Read(Create("[]", <<read.tree, index.tree>>), index.at), "]"))
      [] OTHER -> read

primary(text, at) == postfix(text, atom(text, at))

unary(text, at, opt_primary) ==
    CASE opt_primary # Hole -> Read(opt_primary, at)
      [] opt_primary = Hole /\ Current(text, at) = "+" -> unary(text, at + 1, Hole)
      [] opt_primary = Hole /\ Current(text, at) \in {"-", "!"} ->
           LET operand == unary(text, at + 1, Hole)
           IN Read(Create(Current(text, at), <<operand.tree>>), operand.at)
      [] OTHER -> primary(text, at)

inversion(text, at, opt_primary) ==
    IF opt_primary = Hole /\ Current(text, at) = "not"
    THEN LET operand == inversion(text, at + 1, Hole)
         IN Read(Create("not", <<operand.tree>>), operand.at)
    ELSE level(3, text, at, opt_primary)

\* What the function of the n-th level calls for its operands.
Operand(n, text, at, opt_primary) ==
    CASE n = 2 -> inversion(text, at, opt_primary)
      [] n = Len(Levels) -> unary(text, at, opt_primary)
      [] OTHER -> level(n + 1, text, at, opt_primary)

level(n, text, at, opt_primary) == loop(n, text, Operand(n, text, at, opt_primary))

loop(n, text, left) ==
    IF Current(text, left.at) \notin Levels[n] THEN left
    ELSE LET right == Operand(n, text, left.at + 1, Hole)
         IN loop(n, text, Read(Create(Current(text, left.at), <<left.tree, right.tree>>), right.at))

expression(text, at) == level(1, text, at, Hole)

\* Mutant: the operators of not, and, or are forgotten behind an identifier.
expression_prime_comparison(text, read) == level(3, text, read.at, read.tree)

expression_prime(text, read) == level(1, text, read.at, read.tree)

\* Without an assignment operator behind what primary() reads.
assignment_or_expression(text, at) ==
    IF Current(text, at) = Identifier
    THEN LET lhs == primary(text, at)
         IN IF lhs.tree = Hole THEN lhs ELSE expression_prime(text, lhs)
    ELSE expression(text, at)

ExpressionsInit ==
    /\ source \in Tokens
    /\ entry \in {"expression", "statement"}
    /\ outcome = Unread

read_expression ==
    /\ outcome = Unread
    /\ outcome' = IF entry = "expression" THEN expression(source, 1)
                  ELSE assignment_or_expression(source, 1)
    /\ UNCHANGED <<source, entry>>

-----------------------------------------------------------------------------
\* An expression is read without error and to its end exactly if the grammar of
\* doc/bs.md derives it; it then has one derivation, and that is the tree, also
\* where a statement begins with an identifier and the first operand is read
\* before it is known that this is no assignment.
TreesFollowTheGrammar ==
    outcome # Unread =>
        Derivations(Expression, source) =
            IF outcome.tree # Hole /\ outcome.at = Len(source) + 1 THEN {outcome.tree} ELSE {}

=============================================================================
