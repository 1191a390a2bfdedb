--------------------------- MODULE MCTreeBuilder ---------------------------
(***************************************************************************)
(* Small instances of TreeBuilder: actions that occur together.            *)
(***************************************************************************)
EXTENDS TreeBuilder

Menu(actions, blocks, depth) == [actions |-> actions, blocks |-> blocks, depth |-> depth]

Chains == Menu({"Identifier", "primary", "call", "append", "member", "index", "compound", "assign"}, 6, 4)
Collected == Menu({"Identifier", "primary", "index", "compound", "pairs", "append"}, 5, 4)
Sets == Menu({"Integer", "Self", "expressions", "Array", "Set", "append"}, 5, 3)
Literals == Menu({"Float", "String", "Boolean", "Nil", "Identifier", "odd names", "Varargs", "Require", "append"}, 4, 2)
Operators == Menu({"Identifier", "unary", "binary", "yield", "append"}, 4, 3)
Holes == Menu({"Integer", "no_tree", "binary", "expressions", "Array", "append"}, 4, 3)
BrokenChains == Menu({"no_tree", "Self", "primary", "member", "call", "append"}, 3, 3)
Branches == Menu({"Integer", "statements", "append", "block", "if"}, 5, 4)
Loops == Menu({"Boolean", "statements", "append", "block", "while", "Break", "Continue", "Return"}, 4, 3)
ForLoops == Menu({"Identifier", "statements", "append", "block", "for"}, 5, 4)
Functions == Menu({"parameters", "parameter", "statements", "block", "function", "let", "append"}, 5, 3)
Structs == Menu({"parameters", "statements", "block", "function", "let", "members", "append"}, 7, 3)

SafeMenus == {Chains, BrokenChains, Collected, Sets, Literals, Operators, Holes, Branches, Loops, ForLoops,
              Functions, Structs}

\* primary() with one call behind another.
ChainMenus == {Menu({"Identifier", "primary", "call", "another call", "append"}, 6, 4)}

=============================================================================
