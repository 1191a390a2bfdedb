------------------------------ MODULE MCParser ------------------------------
(***************************************************************************)
(* Token alphabets for model checking Parser.tla.  One token stands for    *)
(* those the parser treats alike in the constructs at hand.                *)
(***************************************************************************)
EXTENDS Parser

\* Blocks in blocks, and statements with and without a semicolon.
BlockTokens == {"Identifier", "SemiColon", "LeftCurBr", "RightCurBr", "If"}

\* The statements that open, leave or end in a block.
StatementTokens ==
  {"Identifier", "SemiColon", "LeftCurBr", "RightCurBr", "If", "Else", "While",
   "Break", "Return"}

\* Every binary level, the prefix operators, atoms with brackets, suffixes.
ExpressionTokens ==
  {"Identifier", "LeftParen", "RightParen", "LeftSqBr", "RightSqBr", "Comma",
   "Dot", "Minus", "Or", "Equal", "Not"}

\* Dictionaries and sets, assignments, numbers, require and yield.
LiteralTokens ==
  {"Identifier", "Integer", "String", "LeftCurBr", "RightCurBr", "Colon",
   "Comma", "Assign", "Yield", "LeftParen", "RightParen", "SemiColon"}

\* Functions, structs and lets, public or not, in and out of blocks; with no
\* variadic parameter.
DeclarationTokens ==
  {"Identifier", "Fn", "Struct", "Let", "Pub", "Self", "LeftParen",
   "RightParen", "LeftCurBr", "RightCurBr", "Comma", "Colon"}

\* Lexer errors among loops, jumps and declarations.
RecoveryTokens ==
  {"Error", "Identifier", "SemiColon", "LeftCurBr", "RightCurBr", "For", "In",
   "Continue", "Let", "Pub"}

\* Parameter lists of functions and methods, variadic ones included.
ParameterTokens ==
  {"Identifier", "Fn", "Struct", "Self", "LeftParen", "RightParen", "Comma",
   "Ellipsis", "LeftCurBr", "RightCurBr"}

\* What a source may start with: nothing, the head of a method, a block within a
\* block, a function within a function.
Method == <<"Struct", "Identifier", "LeftCurBr", "Fn", "Identifier", "LeftParen">>
Inner  == <<"If", "Identifier", "LeftCurBr", "If", "Identifier", "LeftCurBr">>
Nested == <<"Fn", "Identifier", "LeftParen", "RightParen", "LeftCurBr",
            "Fn", "Identifier", "LeftParen", "RightParen", "LeftCurBr">>

\* The sources over an alphabet that start so and have at most n tokens more.
After(opening, n, alphabet) ==
  [opening |-> opening, tokens |-> alphabet, length |-> Len(opening) + n]

\* Sources without a variadic parameter list, each construct up to a length at
\* which it can be completed, cut off anywhere, or go wrong and be recovered from.
PlainSources ==
  {After(<< >>,  9, BlockTokens),
   After(<< >>,  7, StatementTokens),   After(Inner,  5, StatementTokens),
   After(<< >>,  6, ExpressionTokens),
   After(<< >>,  6, LiteralTokens),
   After(<< >>,  6, DeclarationTokens), After(Method, 5, DeclarationTokens)}

RecoverySources ==
  {After(<< >>,  7, RecoveryTokens),  After(Nested, 5, RecoveryTokens),
   After(<< >>,  7, ParameterTokens), After(Method, 5, ParameterTokens)}

VariadicSources == {After(<< >>, 6, ParameterTokens)}
=============================================================================
