------------------------------- MODULE Parser -------------------------------
(***************************************************************************)
(* The recursive-descent parser of parser.c as a pushdown machine.         *)
(*                                                                         *)
(* `parser' is struct Parser.  `stack' is the C call stack: what remains   *)
(* to be done, innermost call first.  An entry <<"f", args>> is a call of  *)
(* f that is about to start, or the rest of f from a loop head or from a   *)
(* decision on the current token.  Every action takes the entry on top and *)
(* runs its function up to the next such point, replacing the entry by the *)
(* calls that function goes on to make.                                    *)
(*                                                                         *)
(* Token texts, line numbers and the shape of the AST are left out: tokens *)
(* are their types, and of the trees only whether a function returned NULL *)
(* for one is kept (null_ast).  The source text is whatever the lexer      *)
(* delivers: the tokens of an opening, then any types of an alphabet, and  *)
(* the end anywhere, at a given length at the latest.                      *)
(***************************************************************************)
EXTENDS Naturals, Sequences

CONSTANT
  Sources   \* the openings, alphabets ("Error" stands for the lexer's errors)
            \* and bounds on the length of the sources to consider

AssignOps == {"Assign", "AddAssign", "SubAssign", "MulAssign", "DivAssign",
              "ModAssign", "ShiftLeftAssign", "ShiftRightAssign",
              "BitOrAssign", "BitXorAssign", "BitAndAssign"}

\* Atoms that are a single token and always yield a node.
Literals == {"Nil", "True", "False", "Identifier", "String", "Self", "Varargs"}

\* Atoms whose conversion may fail: integer() and float_node().
Numbers == {"Integer", "Float"}

\* Binary operators by level, loosest first: disjunction, conjunction,
\* comparison, bitwise_or, bitwise_xor, bitwise_and, shift, sum, term.
BinaryOps ==
  << {"Or"}, {"And"},
     {"Equal", "NotEqual", "LessEqual", "LessThan", "GreaterEqual", "GreaterThan"},
     {"BitOr"}, {"BitXor"}, {"BitAnd"}, {"ShiftLeft", "ShiftRight"},
     {"Plus", "Minus"}, {"Star", "Slash", "Percent"} >>

PrefixOps == {"Plus", "Minus", "BitNot"}

\* The tokens synchronize() stops in front of, and those it stops behind.
SyncBefore == {"Fn", "Pub", "Let", "For", "If", "While", "Struct", "Break",
               "Continue", "Return"}
SyncAfter  == {"SemiColon", "RightCurBr"}

TokenType ==
  Literals \cup Numbers \cup AssignOps \cup PrefixOps \cup SyncBefore
    \cup SyncAfter \cup (UNION {BinaryOps[k] : k \in 1 .. 9})
    \cup {"Not", "In", "Else", "Require", "Yield", "LeftCurBr", "LeftSqBr",
          "RightSqBr", "LeftParen", "RightParen", "Colon", "Dot", "Ellipsis",
          "Comma"}

ASSUME SourcesAssumption ==
  \A s \in Sources :
    /\ s.opening \in Seq(TokenType)
    /\ s.tokens \subseteq TokenType \cup {"Error"}
    /\ s.length \in Nat

VARIABLES
  parser,     \* struct Parser
  stack,      \* pending calls, innermost first
  null_ast,   \* some function returned NULL where a tree was expected
  result      \* what parse() returned

vars == <<parser, stack, null_ast, result>>

\* lexer counts the tokens still unread: those of opening, then any in source.
\* nesting is an auxiliary field, the closing brackets owed by the tokens passed
\* so far while there is no error.
ParserState ==
  [source : SUBSET (TokenType \cup {"Error"}), lexer : Nat,
   opening : Seq(TokenType),
   previous : TokenType \cup {"EOF", "Undefined"},
   current : TokenType \cup {"EOF"},
   had_error : BOOLEAN, panic_mode : BOOLEAN,
   incomplete_input : BOOLEAN, inside_block : BOOLEAN,
   nesting : Seq(TokenType \cup {"unmatched"})]

Pending == [ast |-> "none", incomplete |-> FALSE]
Verdict == [ast : {"tree", "NULL"}, incomplete : BOOLEAN]

(***************************************************************************)
(* Stack entries: a call, or the rest of one, with its arguments.          *)
(***************************************************************************)
Call(f)                == <<f>>
Consume(t)             == <<"consume", t>>
Expressions(t)         == <<"expressions", t>>
ExpressionsLoop(t)     == <<"expressions_loop", t>>
ExpressionsMore(t)     == <<"expressions_more", t>>
Binary(level)          == <<"binary", level>>
Parameters(self)       == <<"parameters", self>>
LetDeclaration(public) == <<"let_declaration", public>>
Declaration(public)    == <<"declaration", public>>
FunctionDeclaration(public, self) == <<"function_declaration", public, self>>
Statements(semicolon)   == <<"statements", semicolon>>
StatementEnd(semicolon) == <<"statement_end", semicolon>>
ListEnd(semicolon)      == <<"list_end", semicolon>>
LeaveBlock(was_inside)  == <<"leave_block", was_inside>>

\* Entries without an argument.
Plain ==
  {"expression", "inversion", "unary", "primary", "atom", "postfix",
   "dictionary_or_set", "dictionary_first", "dictionary_loop", "set_loop",
   "if_suffix", "else_part", "parameters_self", "parameters_loop",
   "parameters_more", "parameters_end", "assignment_or_expression",
   "assignment", "let_init", "struct_declaration", "struct_parent",
   "struct_body", "return_value", "block_statement", "statement_list",
   "synchronize"}

Entry ==
  {Call(f) : f \in Plain}
    \cup {Consume(t) : t \in TokenType}
    \cup {Expressions(t) : t \in {"RightParen", "RightSqBr"}}
    \cup {ExpressionsLoop(t) : t \in {"RightParen", "RightSqBr"}}
    \cup {ExpressionsMore(t) : t \in {"RightParen", "RightSqBr"}}
    \cup {Binary(k) : k \in 1 .. 10}
    \cup {<<f, b>> : f \in {"parameters", "let_declaration", "declaration",
                            "statements", "statement_end", "list_end",
                            "leave_block"},
                     b \in BOOLEAN}
    \cup {FunctionDeclaration(b, c) : b \in BOOLEAN, c \in BOOLEAN}

(***************************************************************************)
(* Errors and the token stream.                                            *)
(***************************************************************************)

\* Mutant: the error silences the next ones but is not recorded.
ErrorAt_unrecorded(p) ==
  IF p.panic_mode THEN p ELSE [p EXCEPT !.panic_mode = TRUE]

\* error_at(): silent in panic mode.
ErrorAt(p) ==
  IF p.panic_mode THEN p
                  ELSE [p EXCEPT !.had_error = TRUE, !.panic_mode = TRUE]

\* Mutant: running out of input is forgotten.
Incomplete_forgotten(p) == p

Incomplete(p) == [p EXCEPT !.incomplete_input = TRUE]

Closer == [LeftParen |-> "RightParen", LeftSqBr |-> "RightSqBr",
           LeftCurBr |-> "RightCurBr"]

Nesting(p) ==
  IF p.had_error THEN << >>
  ELSE IF p.current \in DOMAIN Closer THEN <<Closer[p.current]>> \o p.nesting
  ELSE IF p.current \notin {"RightParen", "RightSqBr", "RightCurBr"}
       THEN p.nesting
  ELSE IF p.nesting # << >> /\ Head(p.nesting) = p.current THEN Tail(p.nesting)
  ELSE <<"unmatched">> \o p.nesting

\* The types the next token may have, and what is left of the opening then.
NextTypes(p) ==
  (IF p.opening = << >> THEN p.source ELSE {Head(p.opening)}) \ {"Error"}
Opened(p) == IF p.opening = << >> THEN << >> ELSE Tail(p.opening)

\* Mutant: the lexer reads past the end of the source.
NextToken_past_the_end(p) ==
  {[p EXCEPT !.current = t, !.lexer = p.lexer - 1, !.opening = Opened(p)] :
     t \in NextTypes(p)}

\* One good token, or the end of the source, after which there is only EOF.
NextToken(p) ==
  {[p EXCEPT !.current = "EOF", !.lexer = 0, !.opening = << >>]}
    \cup {[p EXCEPT !.current = t, !.lexer = p.lexer - 1, !.opening = Opened(p)] :
            t \in IF p.lexer = 0 THEN {} ELSE NextTypes(p)}

\* The parsers advance(p) may leave: it reports the error tokens it skips.
Advances(p) ==
  LET moved == [p EXCEPT !.previous = p.current, !.nesting = Nesting(p)]
  IN  NextToken(moved)
        \cup IF "Error" \in p.source /\ p.lexer > 0
             THEN NextToken(ErrorAt(moved))
             ELSE {}

(***************************************************************************)
(* How an action ends: Goto(callees) replaces the running entry.           *)
(***************************************************************************)
On(f) == stack # << >> /\ Head(stack)[1] = f
Arg   == Head(stack)[2]

Goto(callees) == stack' = callees \o Tail(stack)
Tree          == UNCHANGED <<null_ast, result>>
NoTree        == null_ast' = TRUE /\ UNCHANGED result

\* "if (match(parser, t)) found else missing"
Match(t, found, missing) ==
  \/ /\ parser.current = t
     /\ parser' \in Advances(parser)
     /\ Goto(found)
  \/ /\ parser.current # t
     /\ UNCHANGED parser
     /\ Goto(missing)

\* "while (!match(parser, closing)) { if (EOF) { incomplete; break; } body }"
Until(closing, body) ==
  \/ /\ parser.current = closing
     /\ parser' \in Advances(parser)
     /\ Goto(<< >>)
  \/ /\ parser.current = "EOF"
     /\ parser' = Incomplete(parser)
     /\ Goto(<< >>)
  \/ /\ parser.current \notin {closing, "EOF"}
     /\ UNCHANGED parser
     /\ Goto(body)

\* Mutant: consume() does not look for the end of the source first.
consume_eof_is_error ==
  /\ On("consume")
  /\ \/ /\ parser.current = Arg
        /\ parser' \in Advances(parser)
     \/ /\ parser.current # Arg
        /\ parser' = ErrorAt(parser)
  /\ Goto(<< >>)
  /\ Tree

\* Mutant: any missing token counts as input still to come.
consume_waits_for_more ==
  /\ On("consume")
  /\ \/ /\ parser.current = Arg
        /\ parser' \in Advances(parser)
     \/ /\ parser.current # Arg
        /\ parser' = Incomplete(parser)
  /\ Goto(<< >>)
  /\ Tree

consume ==
  /\ On("consume")
  /\ \/ /\ parser.current = "EOF"
        /\ parser' = Incomplete(parser)
     \/ /\ parser.current = Arg
        /\ parser' \in Advances(parser)
     \/ /\ parser.current \notin {"EOF", Arg}
        /\ parser' = ErrorAt(parser)
  /\ Goto(<< >>)
  /\ Tree

(***************************************************************************)
(* Expressions.                                                            *)
(***************************************************************************)
expressions ==
  /\ On("expressions")
  /\ Match(Arg, << >>, <<ExpressionsLoop(Arg)>>)
  /\ Tree

expressions_loop ==
  /\ \/ /\ On("expressions_loop")
        /\ \/ /\ parser.current = "EOF"
              /\ parser' = Incomplete(parser)
              /\ Goto(<< >>)
           \/ /\ parser.current # "EOF"
              /\ UNCHANGED parser
              /\ Goto(<<Call("expression"), ExpressionsMore(Arg)>>)
     \/ /\ On("expressions_more")
        /\ Match(Arg, << >>, <<Consume("Comma"), ExpressionsLoop(Arg)>>)
  /\ Tree

\* The bodies of the dictionary and set loops.
NextPair    == <<Consume("Comma"), Call("expression"), Consume("Colon"),
                 Call("expression"), Call("dictionary_loop")>>
NextElement == <<Consume("Comma"), Call("expression"), Call("set_loop")>>

dictionary_or_set ==
  /\ \/ /\ On("dictionary_or_set")
        /\ Match("RightCurBr", << >>,
                 <<Call("expression"), Call("dictionary_first")>>)
     \/ /\ On("dictionary_first")
        /\ Match("Colon", <<Call("expression"), Call("dictionary_loop")>>,
                 <<Call("set_loop")>>)
     \/ On("dictionary_loop") /\ Until("RightCurBr", NextPair)
     \/ On("set_loop") /\ Until("RightCurBr", NextElement)
  /\ Tree

if_statement_suffix ==
  /\ \/ /\ On("if_suffix")
        /\ UNCHANGED parser
        /\ Goto(<<Call("expression"), Call("block_statement"), Call("else_part")>>)
     \/ /\ On("else_part")
        /\ Match("Else", <<Call("block_statement")>>, << >>)
  /\ Tree

\* What atom() goes on to call, by the token it has passed: if_statement_suffix,
\* require, yield, a parenthesised expression, lambda, array, dictionary_or_set.
AtomCalls ==
  [If        |-> <<Call("if_suffix")>>,
   Require   |-> <<Consume("LeftParen"), Consume("String"), Consume("RightParen")>>,
   Yield     |-> <<Consume("LeftParen"), Call("expression"), Consume("RightParen")>>,
   LeftParen |-> <<Call("expression"), Consume("RightParen")>>,
   Fn        |-> <<Consume("LeftParen"), Parameters(FALSE), Call("block_statement")>>,
   LeftSqBr  |-> <<Expressions("RightSqBr")>>,
   LeftCurBr |-> <<Call("dictionary_or_set")>>]

atom ==
  /\ On("atom")
  /\ \E p \in Advances(parser) :
       \/ /\ parser.current \in Literals \cup Numbers
          /\ parser' = p /\ Goto(<< >>) /\ Tree
       \/ /\ parser.current \in DOMAIN AtomCalls
          /\ parser' = p /\ Goto(AtomCalls[parser.current]) /\ Tree
       \* No atom, or a number that integer() or float_node() cannot convert.
       \/ /\ parser.current \notin Literals \cup DOMAIN AtomCalls
          /\ parser' = IF parser.current = "EOF" THEN Incomplete(p) ELSE ErrorAt(p)
          /\ Goto(<< >>) /\ NoTree

\* Mutant: an index expression does not ask for its closing bracket.
PostfixCalls_open_index ==
  [Dot       |-> <<Consume("Identifier"), Call("postfix")>>,
   LeftParen |-> <<Expressions("RightParen"), Call("postfix")>>,
   LeftSqBr  |-> <<Call("expression"), Call("postfix")>>]

\* The suffixes primary() loops over.
PostfixCalls ==
  [Dot       |-> <<Consume("Identifier"), Call("postfix")>>,
   LeftParen |-> <<Expressions("RightParen"), Call("postfix")>>,
   LeftSqBr  |-> <<Call("expression"), Consume("RightSqBr"), Call("postfix")>>]

primary ==
  /\ \/ /\ On("primary")
        /\ UNCHANGED parser
        /\ Goto(<<Call("atom"), Call("postfix")>>)
     \/ /\ On("postfix")
        /\ parser.current \in DOMAIN PostfixCalls
        /\ parser' \in Advances(parser)
        /\ Goto(PostfixCalls[parser.current])
     \/ /\ On("postfix")
        /\ parser.current \notin DOMAIN PostfixCalls
        /\ UNCHANGED parser
        /\ Goto(<< >>)
  /\ Tree

\* unary() and inversion(): operators they recurse on, the end of the source
\* (a NULL tree), and what they call otherwise.
Prefixed(f, operators, callees) ==
  /\ On(f)
  /\ \/ /\ parser.current \in operators
        /\ parser' \in Advances(parser)
        /\ Goto(<<Call(f)>>)
        /\ Tree
     \/ /\ parser.current = "EOF"
        /\ parser' = Incomplete(parser)
        /\ Goto(<< >>)
        /\ NoTree
     \/ /\ parser.current \notin operators \cup {"EOF"}
        /\ UNCHANGED parser
        /\ Goto(callees)
        /\ Tree

unary     == Prefixed("unary", PrefixOps, <<Call("primary")>>)
inversion == Prefixed("inversion", {"Not"}, <<Call("unary"), Binary(3)>>)

\* Binary(lo) stands for the loops of levels 9 down to lo, run in that order
\* after the first operand.  A loop of level k leaves only when the current
\* token is none of its operators, and the operand it reads leaves only after
\* the loops above k, so at most one of the pending loops can go on: the one
\* of the current token.
Operand(k) == <<Call(IF k <= 2 THEN "inversion" ELSE "unary"), Binary(k + 1)>>

binary ==
  /\ On("binary")
  /\ \/ \E k \in Arg .. 9 :
          /\ parser.current \in BinaryOps[k]
          /\ parser' \in Advances(parser)
          /\ Goto(Operand(k) \o <<Binary(Arg)>>)
     \/ /\ \A k \in Arg .. 9 : parser.current \notin BinaryOps[k]
        /\ UNCHANGED parser
        /\ Goto(<< >>)
  /\ Tree

expression ==
  /\ On("expression")
  /\ UNCHANGED parser
  /\ Goto(<<Call("inversion"), Binary(1)>>)
  /\ Tree

\* After primary(), expression_prime() runs the loops of every level.
assignment_or_expression ==
  /\ \/ /\ On("assignment_or_expression")
        /\ UNCHANGED parser
        /\ Goto(IF parser.current \in {"Identifier", "Self"}
                THEN <<Call("primary"), Call("assignment")>>
                ELSE <<Call("expression")>>)
     \/ /\ On("assignment")
        /\ parser.current \in AssignOps
        /\ parser' \in Advances(parser)
        /\ Goto(<<Call("expression")>>)
     \/ /\ On("assignment")
        /\ parser.current \notin AssignOps
        /\ UNCHANGED parser
        /\ Goto(<<Binary(1)>>)
  /\ Tree

(***************************************************************************)
(* Declarations.                                                           *)
(***************************************************************************)
parameters ==
  /\ \/ /\ On("parameters")
        /\ Match("RightParen", << >>,
                 <<Call(IF Arg THEN "parameters_self" ELSE "parameters_loop")>>)
     \/ /\ On("parameters_self")
        /\ Match("Self", <<Call("parameters_more")>>, <<Call("parameters_loop")>>)
     \/ /\ On("parameters_more")
        /\ Match("RightParen", << >>,
                 <<Consume("Comma"), Call("parameters_loop")>>)
  /\ Tree

parameters_loop ==
  /\ On("parameters_loop")
  /\ \/ /\ parser.current = "EOF"
        /\ parser' = Incomplete(parser)
        /\ Goto(<< >>)
     \/ /\ parser.current = "Identifier"
        /\ parser' \in Advances(parser)
        /\ Goto(<<Call("parameters_more")>>)
     \/ /\ parser.current = "Ellipsis"
        /\ parser' \in Advances(parser)
        /\ Goto(<<Call("parameters_end")>>)
     \/ /\ parser.current \notin {"EOF", "Identifier", "Ellipsis"}
        /\ parser' = ErrorAt(parser)
        /\ Goto(<< >>)
  /\ Tree

\* Mutant: whatever follows "..." is taken for unfinished input.
parameters_end_waits ==
  /\ On("parameters_end")
  /\ \/ /\ parser.current = "RightParen"
        /\ parser' \in Advances(parser)
     \/ /\ parser.current # "RightParen"
        /\ parser' = Incomplete(parser)
  /\ Goto(<< >>)
  /\ Tree

\* After "...": anything but the terminator, the end of the source included,
\* is an error (and the case falls through to the next one, muted by it).
parameters_end ==
  /\ On("parameters_end")
  /\ \/ /\ parser.current = "RightParen"
        /\ parser' \in Advances(parser)
     \/ /\ parser.current # "RightParen"
        /\ parser' = ErrorAt(parser)
  /\ Goto(<< >>)
  /\ Tree

let_declaration ==
  /\ \/ /\ On("let_declaration")
        /\ parser' = IF Arg /\ parser.inside_block THEN ErrorAt(parser) ELSE parser
        /\ Goto(<<Consume("Let"), Consume("Identifier"), Call("let_init")>>)
     \/ /\ On("let_init")
        /\ Match("Assign", <<Call("expression")>>, << >>)
  /\ Tree

function_declaration ==
  /\ On("function_declaration")
  /\ parser' = IF Arg /\ parser.inside_block THEN ErrorAt(parser) ELSE parser
  /\ Goto(<<Consume("Fn"), Consume("Identifier"), Consume("LeftParen"),
            Parameters(Head(stack)[3]), Call("block_statement")>>)
  /\ Tree

struct_declaration ==
  /\ \/ /\ On("struct_declaration")
        /\ parser' = IF parser.inside_block THEN ErrorAt(parser) ELSE parser
        /\ Goto(<<Consume("Struct"), Consume("Identifier"), Call("struct_parent")>>)
     \/ /\ On("struct_parent")
        /\ Match("Colon",
                 <<Consume("Identifier"), Consume("LeftCurBr"), Call("struct_body")>>,
                 <<Consume("LeftCurBr"), Call("struct_body")>>)
  /\ Tree

\* The loop over the members: "pub" is optional in front of each.
struct_body ==
  /\ On("struct_body")
  /\ \/ /\ parser.current = "Pub"
        /\ parser' \in Advances(parser)
        /\ Goto(<<FunctionDeclaration(TRUE, TRUE), Call("struct_body")>>)
     \/ /\ parser.current # "Pub"
        /\ Until("RightCurBr", <<FunctionDeclaration(FALSE, TRUE), Call("struct_body")>>)
  /\ Tree

DeclarationCalls(public) ==
  [Fn     |-> <<FunctionDeclaration(public, FALSE)>>,
   Struct |-> <<Call("struct_declaration")>>,
   Let    |-> <<LetDeclaration(public)>>]

declaration ==
  /\ On("declaration")
  /\ \/ /\ parser.current \in DOMAIN DeclarationCalls(Arg)
        /\ UNCHANGED parser
        /\ Goto(DeclarationCalls(Arg)[parser.current])
        /\ Tree
     \/ /\ parser.current \notin DOMAIN DeclarationCalls(Arg)
        /\ parser' = IF parser.current = "EOF" THEN Incomplete(parser)
                                               ELSE ErrorAt(parser)
        /\ Goto(<< >>)
        /\ NoTree

(***************************************************************************)
(* Statements.                                                             *)
(***************************************************************************)
block_statement ==
  /\ On("block_statement")
  /\ parser' = [parser EXCEPT !.inside_block = TRUE]
  /\ Goto(<<Call("statement_list"), LeaveBlock(parser.inside_block)>>)
  /\ Tree

\* Mutant: leaving any block leaves them all.
leave_block_outermost ==
  /\ On("leave_block")
  /\ parser' = [parser EXCEPT !.inside_block = FALSE]
  /\ Goto(<< >>)
  /\ Tree

leave_block ==
  /\ On("leave_block")
  /\ parser' = [parser EXCEPT !.inside_block = Arg]
  /\ Goto(<< >>)
  /\ Tree

statement_list ==
  /\ On("statement_list")
  /\ UNCHANGED parser
  /\ Goto(IF parser.inside_block THEN <<Consume("LeftCurBr"), Statements(FALSE)>>
                                 ELSE <<Statements(FALSE)>>)
  /\ Tree

\* Statements known by their first token that no token is consumed for here.
StatementCalls ==
  [Fn     |-> <<Declaration(FALSE), StatementEnd(FALSE)>>,
   Struct |-> <<Declaration(FALSE), StatementEnd(FALSE)>>,
   If     |-> <<Consume("If"), Call("if_suffix"), StatementEnd(FALSE)>>,
   While  |-> <<Consume("While"), Call("expression"), Call("block_statement"),
                StatementEnd(FALSE)>>,
   For    |-> <<Consume("For"), Consume("Identifier"), Consume("In"),
                Call("expression"), Call("block_statement"), StatementEnd(FALSE)>>,
   Let    |-> <<LetDeclaration(FALSE), StatementEnd(TRUE)>>]

JumpCalls ==
  [Break    |-> <<StatementEnd(TRUE)>>,
   Continue |-> <<StatementEnd(TRUE)>>,
   Return   |-> <<Call("return_value"), StatementEnd(TRUE)>>]

ListIsOver ==
  \/ parser.current = "EOF"
  \/ parser.inside_block /\ parser.current = "RightCurBr"

\* The head of the statement loop and the switch on the first token.
statements ==
  /\ On("statements")
  /\ \/ /\ ListIsOver
        /\ UNCHANGED parser
        /\ Goto(<<ListEnd(Arg)>>)
     \/ /\ ~ListIsOver
        /\ parser.current = "Pub"
        /\ \E p \in Advances(parser) :
             /\ parser' = p
             /\ Goto(<<Declaration(TRUE), StatementEnd(p.current = "Let")>>)
     \/ /\ ~ListIsOver
        /\ parser.current \in DOMAIN StatementCalls
        /\ UNCHANGED parser
        /\ Goto(StatementCalls[parser.current])
     \/ /\ ~ListIsOver
        /\ parser.current \in DOMAIN JumpCalls
        /\ parser' \in Advances(IF parser.inside_block THEN parser
                                                       ELSE ErrorAt(parser))
        /\ Goto(JumpCalls[parser.current])
     \/ /\ ~ListIsOver
        /\ parser.current \notin {"Pub"} \cup DOMAIN StatementCalls
                                         \cup DOMAIN JumpCalls
        /\ UNCHANGED parser
        /\ Goto(<<Call("assignment_or_expression"), StatementEnd(TRUE)>>)
  /\ Tree

return_value ==
  /\ On("return_value")
  /\ UNCHANGED parser
  /\ Goto(IF parser.current \in {"SemiColon", "RightCurBr"}
          THEN << >> ELSE <<Call("expression")>>)
  /\ Tree

\* Mutant: is_semicolon_statement is not reset when the semicolon is missing.
WithoutSemicolon_not_reset == TRUE

\* is_semicolon_statement behind a statement that lacks its semicolon.
WithoutSemicolon == FALSE

\* After a statement: recover from a panic, or ask for the semicolon; without
\* one the list ends here.
statement_end ==
  /\ On("statement_end")
  /\ \/ /\ parser.panic_mode
        /\ parser' = [parser EXCEPT !.panic_mode = FALSE]
        /\ Goto(<<Call("synchronize"), Statements(Arg)>>)
     \/ /\ ~parser.panic_mode /\ Arg
        /\ Match("SemiColon", <<Statements(TRUE)>>, <<ListEnd(WithoutSemicolon)>>)
     \/ /\ ~parser.panic_mode /\ ~Arg
        /\ UNCHANGED parser
        /\ Goto(<<Statements(FALSE)>>)
  /\ Tree

\* Mutant: the end of the source is no place to stop at.
AtSyncPoint_not_the_end ==
  \/ parser.previous \in SyncAfter
  \/ parser.current \in SyncBefore

AtSyncPoint ==
  \/ parser.current = "EOF"
  \/ parser.previous \in SyncAfter
  \/ parser.current \in SyncBefore

\* The loop of synchronize(); an error token it skips starts a new panic.
synchronize ==
  /\ On("synchronize")
  /\ \/ /\ AtSyncPoint
        /\ UNCHANGED parser
        /\ Goto(<< >>)
     \/ /\ ~AtSyncPoint
        /\ parser' \in Advances(parser)
        /\ UNCHANGED stack
  /\ Tree

list_end ==
  /\ On("list_end")
  /\ UNCHANGED parser
  /\ Goto(IF parser.inside_block THEN <<Consume("RightCurBr")>> ELSE << >>)
  /\ Tree

(***************************************************************************)
(* parse().                                                                *)
(***************************************************************************)
\* The parser before its first advance().
Start(s) ==
  [source |-> s.tokens, lexer |-> s.length, opening |-> s.opening,
   previous |-> "Undefined", current |-> "Undefined",
   had_error |-> FALSE, panic_mode |-> FALSE, incomplete_input |-> FALSE,
   inside_block |-> FALSE, nesting |-> << >>]

Init ==
  /\ \E s \in Sources : parser \in Advances(Start(s))
  /\ stack = <<Call("statement_list")>>
  /\ null_ast = FALSE
  /\ result = Pending

\* The tree survives if there was no error, the input was complete and no token
\* is left; a token that is left is an error of its own.
parse ==
  /\ stack = << >> /\ result = Pending
  /\ LET rejected == parser.had_error \/ parser.incomplete_input
         left     == ~rejected /\ parser.current # "EOF"
     IN  /\ result' = [ast |-> IF rejected \/ left THEN "NULL" ELSE "tree",
                       incomplete |-> ~parser.had_error /\ parser.incomplete_input]
         /\ parser' = IF left THEN ErrorAt(parser) ELSE parser
  /\ UNCHANGED <<stack, null_ast>>

Returned == result # Pending /\ UNCHANGED vars

Next ==
  \/ consume \/ expressions \/ expressions_loop \/ dictionary_or_set
  \/ if_statement_suffix \/ atom \/ primary \/ unary \/ inversion \/ binary
  \/ expression \/ assignment_or_expression
  \/ parameters \/ parameters_loop \/ parameters_end
  \/ let_declaration \/ function_declaration \/ struct_declaration
  \/ struct_body \/ declaration
  \/ block_statement \/ leave_block \/ statement_list \/ statements
  \/ return_value \/ statement_end \/ synchronize \/ list_end
  \/ parse \/ Returned

Spec     == Init /\ [][Next]_vars
FairSpec == Spec /\ WF_vars(Next)

(***************************************************************************)
(* Properties.                                                             *)
(***************************************************************************)

\* The parser's registers, its pending calls and its verdict have their types:
\* no call is made with an argument its function does not take.
TypeOK ==
  /\ parser \in ParserState
  /\ stack \in Seq(Entry)
  /\ null_ast \in BOOLEAN
  /\ result \in Verdict \cup {Pending}

\* inside_block says whether some block is open, through every error, recovery
\* and early return: it is set iff a block_statement() is still to return, and
\* each of those will restore what held outside it (parser.c:662-668).  A block
\* parsed with the flag off would yield an AST_Program and trip the CHECK of
\* for_statement() (parser.c:695); a stale flag would accept a stray "break".
BlockDiscipline ==
  LET Open(from) == \E i \in from .. Len(stack) : stack[i][1] = "leave_block"
  IN  /\ parser.inside_block <=> Open(1)
      /\ \A i \in 1 .. Len(stack) :
           stack[i][1] = "leave_block" => (stack[i][2] <=> Open(i + 1))

\* A tree with a hole is never handed out: whenever a function returned NULL
\* for a tree, parse() will return NULL too.  It rests on three facts: NULL is
\* returned only behind an error or at the end of the source, panic mode never
\* hides the first error (parser.c:26-36), recovery clears only panic_mode.
NullNeverAccepted ==
  /\ parser.panic_mode => parser.had_error
  /\ null_ast => parser.had_error \/ parser.incomplete_input
  /\ (null_ast /\ result # Pending) => result.ast = "NULL"

\* "Incomplete" is said only with the whole source read: from the first time a
\* function runs out of input to the verdict, the current token is EOF.
IncompleteOnlyAtEOF == parser.incomplete_input => parser.current = "EOF"

\* An accepted source was read to its end and every bracket in it was closed by
\* its partner, whatever functions the brackets went through.
AcceptedIsBalanced ==
  result # Pending /\ result.ast = "tree" =>
    parser.current = "EOF" /\ parser.nesting = << >>

\* AstBlock.last_had_semicolon (ast.h:109) tells whether the last statement of
\* the block ended in a semicolon: at the end of a block closed without errors
\* the flag agrees with the token in front of the closing brace.
BlockReturnFlag ==
  On("list_end") /\ parser.inside_block /\ ~parser.had_error
    /\ parser.current = "RightCurBr"
  => (Arg <=> parser.previous = "SemiColon")

\* Running out of input is never an error, so that a REPL can ask for another
\* line (parser.h:10-13): no step taken at EOF turns a clean parse into a
\* failed one.
EofIsNotAnError ==
  [][parser.current = "EOF" /\ ~parser.had_error => ~parser'.had_error]_vars

\* parse() returns on every source: every loop of the parser, panic recovery
\* included, gets through the tokens.
ParseTerminates == <>(result # Pending)
=============================================================================
