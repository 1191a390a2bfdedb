---------------------------- MODULE ParserProofs ----------------------------
(***************************************************************************)
(* Proofs about the parser of Parser.tla, for every token alphabet and     *)
(* every bound on the length of the source.                                *)
(***************************************************************************)
EXTENDS Parser, TLAPS

(***************************************************************************)
(* What the helpers return.                                                *)
(***************************************************************************)

\* The names of the tokens that the parser mentions are token types.
LEMMA TokenNames ==
  /\ {"Identifier", "String", "Self", "If", "Fn", "Pub", "Let", "For",
      "While", "Struct", "SemiColon", "RightCurBr", "In", "Else",
      "LeftCurBr", "LeftSqBr", "RightSqBr", "LeftParen", "RightParen",
      "Colon", "Comma"} \subseteq TokenType
  /\ "Error" \notin TokenType
  /\ "EOF" \notin TokenType
BY DEF TokenType, Literals, SyncBefore, SyncAfter, Numbers, AssignOps,
       PrefixOps, BinaryOps

\* Every call the parser makes is a stack entry.
LEMMA Entries ==
  /\ \A f \in Plain : Call(f) \in Entry
  /\ \A t \in TokenType : Consume(t) \in Entry
  /\ \A t \in {"RightParen", "RightSqBr"} :
       /\ Expressions(t) \in Entry
       /\ ExpressionsLoop(t) \in Entry
       /\ ExpressionsMore(t) \in Entry
  /\ \A k \in 1 .. 10 : Binary(k) \in Entry
  /\ \A b \in BOOLEAN :
       /\ Parameters(b) \in Entry
       /\ LetDeclaration(b) \in Entry
       /\ Declaration(b) \in Entry
       /\ Statements(b) \in Entry
       /\ StatementEnd(b) \in Entry
       /\ ListEnd(b) \in Entry
       /\ LeaveBlock(b) \in Entry
  /\ \A b, c \in BOOLEAN : FunctionDeclaration(b, c) \in Entry
<1>1. \A f \in Plain : Call(f) \in Entry
  BY DEF Entry
<1>2. \A t \in TokenType : Consume(t) \in Entry
  BY DEF Entry
<1>3. \A t \in {"RightParen", "RightSqBr"} :
        Expressions(t) \in Entry /\ ExpressionsLoop(t) \in Entry
          /\ ExpressionsMore(t) \in Entry
  BY DEF Entry
<1>4. \A k \in 1 .. 10 : Binary(k) \in Entry
  BY DEF Entry
<1>5. \A f \in {"parameters", "let_declaration", "declaration", "statements",
                 "statement_end", "list_end", "leave_block"}, b \in BOOLEAN :
        <<f, b>> \in Entry
  BY DEF Entry
<1>6. \A b, c \in BOOLEAN : FunctionDeclaration(b, c) \in Entry
  BY DEF Entry
<1> QED
  BY <1>1, <1>2, <1>3, <1>4, <1>5, <1>6
     DEF Parameters, LetDeclaration, Declaration, Statements, StatementEnd,
         ListEnd, LeaveBlock

\* Entries listed make a stack.
LEMMA EntryLists ==
  /\ \A a \in Entry : <<a>> \in Seq(Entry)
  /\ \A a, b \in Entry : <<a, b>> \in Seq(Entry)
  /\ \A a, b, c \in Entry : <<a, b, c>> \in Seq(Entry)
  /\ \A a, b, c, d \in Entry : <<a, b, c, d>> \in Seq(Entry)
  /\ \A a, b, c, d, e, f \in Entry : <<a, b, c, d, e, f>> \in Seq(Entry)
OBVIOUS

\* The argument of a stack entry is one its function takes.
LEMMA Arguments ==
  ASSUME NEW e \in Entry
  PROVE  /\ e[1] = "consume" => e[2] \in TokenType
         /\ e[1] \in {"expressions", "expressions_loop", "expressions_more"}
              => e[2] \in {"RightParen", "RightSqBr"}
         /\ e[1] = "binary" => e[2] \in 1 .. 10
         /\ e[1] \in {"parameters", "let_declaration", "declaration",
                      "statements", "statement_end", "list_end",
                      "leave_block"} => e[2] \in BOOLEAN
         /\ e[1] = "function_declaration"
              => e[2] \in BOOLEAN /\ e[3] \in BOOLEAN
BY DEF Entry, Plain, Call, Consume, Expressions, ExpressionsLoop,
       ExpressionsMore, Binary, FunctionDeclaration

\* Reporting an error leaves a parser.
LEMMA ErrorAtType ==
  ASSUME NEW p \in ParserState
  PROVE  ErrorAt(p) \in ParserState
BY DEF ErrorAt, ParserState

\* So does finding that there is input missing.
LEMMA IncompleteType ==
  ASSUME NEW p \in ParserState
  PROVE  Incomplete(p) \in ParserState
BY DEF Incomplete, ParserState

\* The closing brackets owed stay a sequence of token types.
LEMMA NestingType ==
  ASSUME NEW p, p.nesting \in Seq(TokenType \cup {"unmatched"})
  PROVE  Nesting(p) \in Seq(TokenType \cup {"unmatched"})
<1>1. \A t \in DOMAIN Closer : Closer[t] \in TokenType
  BY TokenNames DEF Closer
<1>2. ASSUME NEW t \in TokenType \cup {"unmatched"}
      PROVE  <<t>> \o p.nesting \in Seq(TokenType \cup {"unmatched"})
  OBVIOUS
<1>3. CASE p.had_error
  BY <1>3 DEF Nesting
<1>4. CASE ~p.had_error /\ p.current \in DOMAIN Closer
  BY <1>1, <1>2, <1>4 DEF Nesting
<1>5. CASE ~p.had_error /\ p.current \notin DOMAIN Closer
  <2>1. <<"unmatched">> \o p.nesting \in Seq(TokenType \cup {"unmatched"})
    BY <1>2
  <2>2. CASE p.nesting # << >>
    <3>1. Tail(p.nesting) \in Seq(TokenType \cup {"unmatched"})
      BY <2>2
    <3>2. Nesting(p) = p.nesting \/ Nesting(p) = Tail(p.nesting)
            \/ Nesting(p) = <<"unmatched">> \o p.nesting
      BY <1>5 DEF Nesting
    <3> QED
      BY <2>1, <3>1, <3>2
  <2>3. CASE p.nesting = << >>
    <3>1. Nesting(p) = p.nesting \/ Nesting(p) = <<"unmatched">> \o p.nesting
      BY <1>5, <2>3 DEF Nesting
    <3> QED
      BY <2>1, <3>1
  <2> QED
    BY <2>2, <2>3
<1> QED
  BY <1>3, <1>4, <1>5

\* The parser with no token read yet, or as advance() finds it.
Unread ==
  [source : SUBSET (TokenType \cup {"Error"}), lexer : Nat,
   opening : Seq(TokenType),
   previous : TokenType \cup {"EOF", "Undefined"},
   current : TokenType \cup {"EOF", "Undefined"},
   had_error : BOOLEAN, panic_mode : BOOLEAN,
   incomplete_input : BOOLEAN, inside_block : BOOLEAN,
   nesting : Seq(TokenType \cup {"unmatched"})]

\* The next token, if there is one, is a token, and what follows it are tokens.
LEMMA OpeningType ==
  ASSUME NEW p \in Unread
  PROVE  NextTypes(p) \subseteq TokenType /\ Opened(p) \in Seq(TokenType)
<1>1. p.opening \in Seq(TokenType) /\ p.source \in SUBSET (TokenType \cup {"Error"})
  BY DEF Unread
<1>2. CASE p.opening = << >>
  BY <1>1, <1>2 DEF NextTypes, Opened
<1>3. CASE p.opening # << >>
  <2>1. Head(p.opening) \in TokenType /\ Tail(p.opening) \in Seq(TokenType)
    BY <1>1, <1>3
  <2> QED
    BY <1>3, <2>1 DEF NextTypes, Opened
<1> QED
  BY <1>2, <1>3

\* The next token leaves a parser.
LEMMA NextTokenType ==
  ASSUME NEW p \in Unread, NEW q \in NextToken(p)
  PROVE  q \in ParserState
<1>1. NextTypes(p) \subseteq TokenType /\ Opened(p) \in Seq(TokenType)
  BY OpeningType
<1>2. [p EXCEPT !.current = "EOF", !.lexer = 0, !.opening = << >>] \in ParserState
  <2>1. << >> \in Seq(TokenType)
    OBVIOUS
  <2> QED
    BY <2>1 DEF ParserState, Unread
<1>3. ASSUME NEW t \in TokenType, p.lexer # 0
      PROVE  [p EXCEPT !.current = t, !.lexer = p.lexer - 1, !.opening = Opened(p)]
               \in ParserState
  <2>1. p.lexer - 1 \in Nat
    BY <1>3 DEF Unread
  <2> QED
    BY <1>1, <2>1 DEF ParserState, Unread
<1> QED
  BY <1>1, <1>2, <1>3 DEF NextToken

\* advance() leaves a parser that has a current token.
LEMMA AdvancesType ==
  ASSUME NEW p \in Unread, NEW q \in Advances(p)
  PROVE  q \in ParserState
<1> DEFINE moved == [p EXCEPT !.previous = p.current, !.nesting = Nesting(p)]
<1>1. Nesting(p) \in Seq(TokenType \cup {"unmatched"})
  BY NestingType DEF Unread
<1>2. moved \in Unread
  BY <1>1 DEF Unread
<1>3. ErrorAt(moved) \in Unread
  BY <1>2 DEF ErrorAt, Unread
<1>4. q \in NextToken(moved) \/ q \in NextToken(ErrorAt(moved))
  BY DEF Advances
<1> QED
  BY <1>2, <1>3, <1>4, NextTokenType

\* parser_init() leaves a parser that has not read a token.
LEMMA StartType ==
  ASSUME NEW s \in Sources
  PROVE  Start(s) \in Unread
<1>1. /\ s.opening \in Seq(TokenType)
      /\ s.tokens \in SUBSET (TokenType \cup {"Error"}) /\ s.length \in Nat
  BY SourcesAssumption
<1>2. << >> \in Seq(TokenType \cup {"unmatched"})
  OBVIOUS
<1> QED
  BY <1>1, <1>2 DEF Start, Unread

\* A parser with a token is one that may be without.
LEMMA ParserStateUnread == ParserState \subseteq Unread
BY DEF ParserState, Unread

\* Replacing the running entry by calls leaves a stack.
LEMMA GotoType ==
  ASSUME stack \in Seq(Entry), stack # << >>,
         NEW callees \in Seq(Entry), Goto(callees)
  PROVE  stack' \in Seq(Entry)
BY DEF Goto

\* A step of one of the three shared forms keeps the types of the parser and
\* of the stack, if the calls it may make are typed.
LEMMA MatchType ==
  ASSUME parser \in ParserState, stack \in Seq(Entry), stack # << >>,
         NEW t, NEW found \in Seq(Entry), NEW missing \in Seq(Entry),
         Match(t, found, missing)
  PROVE  parser' \in ParserState /\ stack' \in Seq(Entry)
BY AdvancesType, ParserStateUnread, GotoType DEF Match

\* A list that ends with a token leaves a parser and a stack.
LEMMA UntilType ==
  ASSUME parser \in ParserState, stack \in Seq(Entry), stack # << >>,
         NEW t, NEW body \in Seq(Entry), Until(t, body)
  PROVE  parser' \in ParserState /\ stack' \in Seq(Entry)
<1>1. << >> \in Seq(Entry)
  OBVIOUS
<1> QED
  BY <1>1, AdvancesType, ParserStateUnread, IncompleteType, GotoType DEF Until

\* An operator with the call for its operand leaves a parser and a stack.
LEMMA PrefixedType ==
  ASSUME TypeOK, NEW f \in Plain, NEW operators,
         NEW callees \in Seq(Entry), Prefixed(f, operators, callees)
  PROVE  TypeOK'
<1>1. stack # << >> /\ <<Call(f)>> \in Seq(Entry) /\ << >> \in Seq(Entry)
  BY Entries DEF Prefixed, On
<1>2. parser' \in ParserState /\ stack' \in Seq(Entry)
  BY <1>1, AdvancesType, ParserStateUnread, IncompleteType,
     GotoType DEF Prefixed, TypeOK
<1>3. null_ast' \in BOOLEAN /\ result' \in Verdict \cup {Pending}
  BY DEF Prefixed, TypeOK, Tree, NoTree
<1> QED
  BY <1>2, <1>3 DEF TypeOK

(***************************************************************************)
(* Type correctness.                                                       *)
(***************************************************************************)
LEMMA InitType == Init => TypeOK
<1> SUFFICES ASSUME Init PROVE TypeOK
  OBVIOUS
<1>1. ASSUME NEW s \in Sources PROVE Start(s) \in Unread
  BY StartType
<1>2. parser \in ParserState
  BY <1>1, AdvancesType DEF Init
<1>3. stack \in Seq(Entry)
  BY Entries DEF Init, Plain
<1> QED
  BY <1>2, <1>3 DEF Init, TypeOK, Pending, Verdict
\* One step, action by action: the tokens and flags come from the helpers, the
\* calls are stack entries because their arguments are constants or the typed
\* argument of the entry they replace.
LEMMA StepType == TypeOK /\ Next => TypeOK'
<1> SUFFICES ASSUME TypeOK, Next PROVE TypeOK'
  OBVIOUS
<1>a. parser \in ParserState /\ stack \in Seq(Entry) /\ << >> \in Seq(Entry)
  BY DEF TypeOK
<1>b. Tree \/ NoTree =>
        null_ast' \in BOOLEAN /\ result' \in Verdict \cup {Pending}
  BY DEF TypeOK, Tree, NoTree
<1>c. stack # << >> => Head(stack) \in Entry
  BY <1>a
<1> DEFINE Typed == parser' \in ParserState /\ stack' \in Seq(Entry)
<1>d. (Tree \/ NoTree) /\ Typed => TypeOK'
  BY <1>b DEF TypeOK
<1> HIDE DEF Typed
<1>1. CASE consume
  <2>1. stack # << >>
    BY <1>1 DEF consume, On
  <2>2. Typed
    BY <1>1, <1>a, <2>1, GotoType, AdvancesType, ParserStateUnread,
       ErrorAtType, IncompleteType
       DEF Typed, consume
  <2> QED
    BY <1>1, <1>d, <2>2 DEF consume
<1>2. CASE expressions
  <2>1. stack # << >>
    BY <1>2 DEF expressions, On
  <2>2. ExpressionsLoop(Arg) \in Entry
    BY <1>2, <1>c, <2>1, Arguments, Entries DEF expressions, On, Arg
  <2>3. /\ <<ExpressionsLoop(Arg)>> \in Seq(Entry)
    BY <2>2
  <2>4. Typed
    BY <1>2, <1>a, <2>1, <2>3, GotoType, MatchType
       DEF Typed, expressions
  <2> QED
    BY <1>2, <1>d, <2>4 DEF expressions
<1>3. CASE expressions_loop
  <2>1. stack # << >>
    BY <1>3 DEF expressions_loop, On
  <2>2. /\ Call("expression") \in Entry
        /\ Consume("Comma") \in Entry
    BY Entries, TokenNames DEF Plain
  <2>3. ExpressionsMore(Arg) \in Entry /\ ExpressionsLoop(Arg) \in Entry
    BY <1>3, <1>c, <2>1, Arguments, Entries DEF expressions_loop, On, Arg
  <2>4. /\ <<Call("expression"), ExpressionsMore(Arg)>> \in Seq(Entry)
        /\ <<Consume("Comma"), ExpressionsLoop(Arg)>> \in Seq(Entry)
    BY <2>2, <2>3
  <2>5. Typed
    BY <1>3, <1>a, <2>1, <2>4, GotoType, MatchType, IncompleteType
       DEF Typed, expressions_loop
  <2> QED
    BY <1>3, <1>d, <2>5 DEF expressions_loop
<1>4. CASE dictionary_or_set
  <2>1. stack # << >>
    BY <1>4 DEF dictionary_or_set, On
  <2>2. /\ Call("expression") \in Entry
        /\ Call("dictionary_first") \in Entry
        /\ Call("dictionary_loop") \in Entry
        /\ Call("set_loop") \in Entry
        /\ Consume("Comma") \in Entry
        /\ Consume("Colon") \in Entry
    BY Entries, TokenNames DEF Plain
  <2>3. /\ <<Call("expression"), Call("dictionary_first")>> \in Seq(Entry)
        /\ <<Call("expression"), Call("dictionary_loop")>> \in Seq(Entry)
        /\ <<Call("set_loop")>> \in Seq(Entry)
        /\ <<Consume("Comma"), Call("expression"), Consume("Colon"),
             Call("expression"), Call("dictionary_loop")>> \in Seq(Entry)
        /\ <<Consume("Comma"), Call("expression"),
             Call("set_loop")>> \in Seq(Entry)
    BY <2>2
  <2>4. Typed
    BY <1>4, <1>a, <2>1, <2>3, GotoType, MatchType, UntilType
       DEF Typed, dictionary_or_set, NextPair, NextElement
  <2> QED
    BY <1>4, <1>d, <2>4 DEF dictionary_or_set
<1>5. CASE if_statement_suffix
  <2>1. stack # << >>
    BY <1>5 DEF if_statement_suffix, On
  <2>2. /\ Call("expression") \in Entry
        /\ Call("block_statement") \in Entry
        /\ Call("else_part") \in Entry
    BY Entries, TokenNames DEF Plain
  <2>3. /\ <<Call("expression"), Call("block_statement"),
             Call("else_part")>> \in Seq(Entry)
        /\ <<Call("block_statement")>> \in Seq(Entry)
    BY <2>2
  <2>4. Typed
    BY <1>5, <1>a, <2>1, <2>3, GotoType, MatchType
       DEF Typed, if_statement_suffix
  <2> QED
    BY <1>5, <1>d, <2>4 DEF if_statement_suffix
<1>6. CASE primary
  <2>1. stack # << >>
    BY <1>6 DEF primary, On
  <2>2. /\ Call("atom") \in Entry
        /\ Call("postfix") \in Entry
        /\ Consume("Identifier") \in Entry
        /\ Expressions("RightParen") \in Entry
        /\ Call("expression") \in Entry
        /\ Consume("RightSqBr") \in Entry
    BY Entries, TokenNames DEF Plain
  <2>3. /\ <<Call("atom"), Call("postfix")>> \in Seq(Entry)
        /\ <<Consume("Identifier"), Call("postfix")>> \in Seq(Entry)
        /\ <<Expressions("RightParen"), Call("postfix")>> \in Seq(Entry)
        /\ <<Call("expression"), Consume("RightSqBr"),
             Call("postfix")>> \in Seq(Entry)
    BY <2>2
  <2>4. \A t \in DOMAIN PostfixCalls : PostfixCalls[t] \in Seq(Entry)
    <3>1. DOMAIN PostfixCalls =
            {"Dot", "LeftParen", "LeftSqBr"}
      BY DEF PostfixCalls
    <3>2. /\ PostfixCalls["Dot"] \in Seq(Entry)
          /\ PostfixCalls["LeftParen"] \in Seq(Entry)
          /\ PostfixCalls["LeftSqBr"] \in Seq(Entry)
      BY <2>3 DEF PostfixCalls
    <3> QED
      BY <3>1, <3>2
  <2>5. Typed
    BY <1>6, <1>a, <2>1, <2>3, <2>4, GotoType, AdvancesType, ParserStateUnread
       DEF Typed, primary
  <2> QED
    BY <1>6, <1>d, <2>5 DEF primary
<1>7. CASE expression
  <2>1. stack # << >>
    BY <1>7 DEF expression, On
  <2>2. /\ Call("inversion") \in Entry
        /\ Binary(1) \in Entry
    BY Entries, TokenNames DEF Plain
  <2>3. /\ <<Call("inversion"), Binary(1)>> \in Seq(Entry)
    BY <2>2
  <2>4. Typed
    BY <1>7, <1>a, <2>1, <2>3, GotoType
       DEF Typed, expression
  <2> QED
    BY <1>7, <1>d, <2>4 DEF expression
<1>8. CASE assignment_or_expression
  <2>1. stack # << >>
    BY <1>8 DEF assignment_or_expression, On
  <2>2. /\ Call("primary") \in Entry
        /\ Call("assignment") \in Entry
        /\ Call("expression") \in Entry
        /\ Binary(1) \in Entry
    BY Entries, TokenNames DEF Plain
  <2>3. /\ <<Call("primary"), Call("assignment")>> \in Seq(Entry)
        /\ <<Call("expression")>> \in Seq(Entry)
        /\ <<Binary(1)>> \in Seq(Entry)
    BY <2>2
  <2>4. Typed
    BY <1>8, <1>a, <2>1, <2>3, GotoType, AdvancesType, ParserStateUnread
       DEF Typed, assignment_or_expression
  <2> QED
    BY <1>8, <1>d, <2>4 DEF assignment_or_expression
<1>9. CASE parameters
  <2>1. stack # << >>
    BY <1>9 DEF parameters, On
  <2>2. /\ Call("parameters_more") \in Entry
        /\ Call("parameters_loop") \in Entry
        /\ Consume("Comma") \in Entry
    BY Entries, TokenNames DEF Plain
  <2>3. Call(IF Arg THEN "parameters_self" ELSE "parameters_loop") \in Entry
    BY <1>9, <1>c, <2>1, Arguments, Entries DEF parameters, On, Arg, Plain
  <2>4. /\ <<
             Call(IF Arg THEN "parameters_self" ELSE "parameters_loop")>> \in Seq(Entry)
        /\ <<Call("parameters_more")>> \in Seq(Entry)
        /\ <<Call("parameters_loop")>> \in Seq(Entry)
        /\ <<Consume("Comma"), Call("parameters_loop")>> \in Seq(Entry)
    BY <2>2, <2>3
  <2>5. Typed
    BY <1>9, <1>a, <2>1, <2>4, GotoType, MatchType
       DEF Typed, parameters
  <2> QED
    BY <1>9, <1>d, <2>5 DEF parameters
<1>10. CASE parameters_loop
  <2>1. stack # << >>
    BY <1>10 DEF parameters_loop, On
  <2>2. /\ Call("parameters_more") \in Entry
        /\ Call("parameters_end") \in Entry
    BY Entries, TokenNames DEF Plain
  <2>3. /\ <<Call("parameters_more")>> \in Seq(Entry)
        /\ <<Call("parameters_end")>> \in Seq(Entry)
    BY <2>2
  <2>4. Typed
    BY <1>10, <1>a, <2>1, <2>3, GotoType, AdvancesType, ParserStateUnread,
       ErrorAtType, IncompleteType
       DEF Typed, parameters_loop
  <2> QED
    BY <1>10, <1>d, <2>4 DEF parameters_loop
<1>11. CASE parameters_end
  <2>1. stack # << >>
    BY <1>11 DEF parameters_end, On
  <2>2. Typed
    BY <1>11, <1>a, <2>1, GotoType, AdvancesType, ParserStateUnread,
       ErrorAtType
       DEF Typed, parameters_end
  <2> QED
    BY <1>11, <1>d, <2>2 DEF parameters_end
<1>12. CASE let_declaration
  <2>1. stack # << >>
    BY <1>12 DEF let_declaration, On
  <2>2. /\ Consume("Let") \in Entry
        /\ Consume("Identifier") \in Entry
        /\ Call("let_init") \in Entry
        /\ Call("expression") \in Entry
    BY Entries, TokenNames DEF Plain
  <2>3. /\ <<Consume("Let"), Consume("Identifier"),
             Call("let_init")>> \in Seq(Entry)
        /\ <<Call("expression")>> \in Seq(Entry)
    BY <2>2
  <2>4. Typed
    BY <1>12, <1>a, <2>1, <2>3, GotoType, MatchType, ErrorAtType
       DEF Typed, let_declaration
  <2> QED
    BY <1>12, <1>d, <2>4 DEF let_declaration
<1>13. CASE function_declaration
  <2>1. stack # << >>
    BY <1>13 DEF function_declaration, On
  <2>2. /\ Consume("Fn") \in Entry
        /\ Consume("Identifier") \in Entry
        /\ Consume("LeftParen") \in Entry
        /\ Call("block_statement") \in Entry
    BY Entries, TokenNames DEF Plain
  <2>3. Parameters(Head(stack)[3]) \in Entry
    BY <1>13, <1>c, <2>1, Arguments, Entries DEF function_declaration, On, Arg
  <2>4. /\ <<Consume("Fn"), Consume("Identifier"), Consume("LeftParen"),
             Parameters(Head(stack)[3]),
             Call("block_statement")>> \in Seq(Entry)
    BY <2>2, <2>3
  <2>5. Typed
    BY <1>13, <1>a, <2>1, <2>4, GotoType, ErrorAtType
       DEF Typed, function_declaration
  <2> QED
    BY <1>13, <1>d, <2>5 DEF function_declaration
<1>14. CASE struct_declaration
  <2>1. stack # << >>
    BY <1>14 DEF struct_declaration, On
  <2>2. /\ Consume("Struct") \in Entry
        /\ Consume("Identifier") \in Entry
        /\ Call("struct_parent") \in Entry
        /\ Consume("LeftCurBr") \in Entry
        /\ Call("struct_body") \in Entry
    BY Entries, TokenNames DEF Plain
  <2>3. /\ <<Consume("Struct"), Consume("Identifier"),
             Call("struct_parent")>> \in Seq(Entry)
        /\ <<Consume("Identifier"), Consume("LeftCurBr"),
             Call("struct_body")>> \in Seq(Entry)
        /\ <<Consume("LeftCurBr"), Call("struct_body")>> \in Seq(Entry)
    BY <2>2
  <2>4. Typed
    BY <1>14, <1>a, <2>1, <2>3, GotoType, MatchType, ErrorAtType
       DEF Typed, struct_declaration
  <2> QED
    BY <1>14, <1>d, <2>4 DEF struct_declaration
<1>15. CASE struct_body
  <2>1. stack # << >>
    BY <1>15 DEF struct_body, On
  <2>2. /\ FunctionDeclaration(TRUE, TRUE) \in Entry
        /\ Call("struct_body") \in Entry
        /\ FunctionDeclaration(FALSE, TRUE) \in Entry
    BY Entries, TokenNames DEF Plain
  <2>3. /\ <<FunctionDeclaration(TRUE, TRUE),
             Call("struct_body")>> \in Seq(Entry)
        /\ <<FunctionDeclaration(FALSE, TRUE),
             Call("struct_body")>> \in Seq(Entry)
    BY <2>2, EntryLists
  <2>4. Typed
    BY <1>15, <1>a, <2>1, <2>3, GotoType, AdvancesType, ParserStateUnread,
       UntilType
       DEF Typed, struct_body
  <2> QED
    BY <1>15, <1>d, <2>4 DEF struct_body
<1>16. CASE declaration
  <2>1. stack # << >>
    BY <1>16 DEF declaration, On
  <2>2. /\ Call("struct_declaration") \in Entry
    BY Entries, TokenNames DEF Plain
  <2>3. /\ FunctionDeclaration(Arg, FALSE) \in Entry
        /\ LetDeclaration(Arg) \in Entry
    BY <1>16, <1>c, <2>1, Arguments, Entries DEF declaration, On, Arg
  <2>4. /\ <<FunctionDeclaration(Arg, FALSE)>> \in Seq(Entry)
        /\ <<Call("struct_declaration")>> \in Seq(Entry)
        /\ <<LetDeclaration(Arg)>> \in Seq(Entry)
    BY <2>2, <2>3, EntryLists
  <2>5. \A t \in DOMAIN DeclarationCalls(Arg) :
          DeclarationCalls(Arg)[t] \in Seq(Entry)
    <3>1. DOMAIN DeclarationCalls(Arg) =
            {"Fn", "Struct", "Let"}
      BY DEF DeclarationCalls
    <3>2. /\ DeclarationCalls(Arg)["Fn"] \in Seq(Entry)
          /\ DeclarationCalls(Arg)["Struct"] \in Seq(Entry)
          /\ DeclarationCalls(Arg)["Let"] \in Seq(Entry)
      BY <2>4 DEF DeclarationCalls
    <3> QED
      BY <3>1, <3>2
  <2>6. Typed
    BY <1>16, <1>a, <2>1, <2>4, <2>5, GotoType, ErrorAtType, IncompleteType
       DEF Typed, declaration
  <2> QED
    BY <1>16, <1>d, <2>6 DEF declaration
<1>17. CASE block_statement
  <2>1. stack # << >>
    BY <1>17 DEF block_statement, On
  <2>2. /\ Call("statement_list") \in Entry
    BY Entries, TokenNames DEF Plain
  <2>3. LeaveBlock(parser.inside_block) \in Entry
    BY <1>17, <1>c, <2>1, Arguments, Entries DEF block_statement, On, Arg,
       TypeOK, ParserState
  <2>4. /\ <<Call("statement_list"),
             LeaveBlock(parser.inside_block)>> \in Seq(Entry)
    BY <2>2, <2>3
  <2>5. Typed
    BY <1>17, <1>a, <2>1, <2>4, GotoType
       DEF Typed, block_statement, ParserState
  <2> QED
    BY <1>17, <1>d, <2>5 DEF block_statement
<1>18. CASE leave_block
  <2>1. stack # << >>
    BY <1>18 DEF leave_block, On
  <2>2. Arg \in BOOLEAN
    BY <1>18, <1>c, <2>1, Arguments, Entries DEF leave_block, On, Arg
  <2>3. Typed
    BY <1>18, <1>a, <2>1, <2>2, GotoType
       DEF Typed, leave_block, ParserState
  <2> QED
    BY <1>18, <1>d, <2>3 DEF leave_block
<1>19. CASE statement_list
  <2>1. stack # << >>
    BY <1>19 DEF statement_list, On
  <2>2. /\ Consume("LeftCurBr") \in Entry
        /\ Statements(FALSE) \in Entry
    BY Entries, TokenNames DEF Plain
  <2>3. /\ <<Consume("LeftCurBr"), Statements(FALSE)>> \in Seq(Entry)
        /\ <<Statements(FALSE)>> \in Seq(Entry)
    BY <2>2, EntryLists
  <2>4. Typed
    BY <1>19, <1>a, <2>1, <2>3, GotoType
       DEF Typed, statement_list
  <2> QED
    BY <1>19, <1>d, <2>4 DEF statement_list
<1>20. CASE statements
  <2>1. stack # << >>
    BY <1>20 DEF statements, On
  <2>2. /\ Declaration(TRUE) \in Entry
        /\ Call("assignment_or_expression") \in Entry
        /\ StatementEnd(TRUE) \in Entry
        /\ Declaration(FALSE) \in Entry
        /\ StatementEnd(FALSE) \in Entry
        /\ Consume("If") \in Entry
        /\ Call("if_suffix") \in Entry
        /\ Consume("While") \in Entry
        /\ Call("expression") \in Entry
        /\ Call("block_statement") \in Entry
        /\ Consume("For") \in Entry
        /\ Consume("Identifier") \in Entry
        /\ Consume("In") \in Entry
        /\ LetDeclaration(FALSE) \in Entry
        /\ Call("return_value") \in Entry
    BY Entries, TokenNames DEF Plain
  <2>3. ListEnd(Arg) \in Entry
    BY <1>20, <1>c, <2>1, Arguments, Entries DEF statements, On, Arg
  <2>4. /\ <<ListEnd(Arg)>> \in Seq(Entry)
        /\ <<Call("assignment_or_expression"), StatementEnd(TRUE)>> \in Seq(Entry)
        /\ <<Declaration(FALSE), StatementEnd(FALSE)>> \in Seq(Entry)
        /\ <<Consume("If"), Call("if_suffix"), StatementEnd(FALSE)>> \in Seq(Entry)
        /\ <<Consume("While"), Call("expression"), Call("block_statement"),
             StatementEnd(FALSE)>> \in Seq(Entry)
        /\ <<Consume("For"), Consume("Identifier"), Consume("In"),
             Call("expression"), Call("block_statement"),
             StatementEnd(FALSE)>> \in Seq(Entry)
        /\ <<LetDeclaration(FALSE), StatementEnd(TRUE)>> \in Seq(Entry)
        /\ <<StatementEnd(TRUE)>> \in Seq(Entry)
        /\ <<Call("return_value"), StatementEnd(TRUE)>> \in Seq(Entry)
    <3>1. <<ListEnd(Arg)>> \in Seq(Entry)
      BY <2>3, EntryLists
    <3>2. /\ <<StatementEnd(TRUE)>> \in Seq(Entry)
          /\ <<Call("assignment_or_expression"), StatementEnd(TRUE)>> \in Seq(Entry)
          /\ <<Declaration(FALSE), StatementEnd(FALSE)>> \in Seq(Entry)
          /\ <<LetDeclaration(FALSE), StatementEnd(TRUE)>> \in Seq(Entry)
          /\ <<Call("return_value"), StatementEnd(TRUE)>> \in Seq(Entry)
      BY <2>2, EntryLists
    <3>3. <<Consume("If"), Call("if_suffix"), StatementEnd(FALSE)>> \in Seq(Entry)
      BY <2>2, EntryLists
    <3>4. <<Consume("While"), Call("expression"), Call("block_statement"),
            StatementEnd(FALSE)>> \in Seq(Entry)
      BY <2>2, EntryLists
    <3>5. <<Consume("For"), Consume("Identifier"), Consume("In"),
            Call("expression"), Call("block_statement"),
            StatementEnd(FALSE)>> \in Seq(Entry)
      BY <2>2, EntryLists
    <3> QED
      BY <3>1, <3>2, <3>3, <3>4, <3>5
  <2>5. \A t \in DOMAIN StatementCalls :
          StatementCalls[t] \in Seq(Entry)
    <3>1. DOMAIN StatementCalls =
            {"Fn", "Struct", "If", "While", "For", "Let"}
      BY DEF StatementCalls
    <3>2. /\ StatementCalls["Fn"] \in Seq(Entry)
          /\ StatementCalls["Struct"] \in Seq(Entry)
          /\ StatementCalls["If"] \in Seq(Entry)
          /\ StatementCalls["While"] \in Seq(Entry)
          /\ StatementCalls["For"] \in Seq(Entry)
          /\ StatementCalls["Let"] \in Seq(Entry)
      BY <2>4 DEF StatementCalls
    <3> QED
      BY <3>1, <3>2
  <2>6. \A t \in DOMAIN JumpCalls : JumpCalls[t] \in Seq(Entry)
    <3>1. DOMAIN JumpCalls =
            {"Break", "Continue", "Return"}
      BY DEF JumpCalls
    <3>2. /\ JumpCalls["Break"] \in Seq(Entry)
          /\ JumpCalls["Continue"] \in Seq(Entry)
          /\ JumpCalls["Return"] \in Seq(Entry)
      BY <2>4 DEF JumpCalls
    <3> QED
      BY <3>1, <3>2
  <2>7. ASSUME NEW b \in BOOLEAN
        PROVE  <<Declaration(TRUE), StatementEnd(b)>> \in Seq(Entry)
    <3>1. Declaration(TRUE) \in Entry /\ StatementEnd(b) \in Entry
      BY <2>2, Entries
    <3> QED
      BY <3>1, EntryLists
  <2>8. Typed
    BY <1>20, <1>a, <2>1, <2>4, <2>5, <2>6, <2>7, GotoType, AdvancesType,
       ParserStateUnread, ErrorAtType
       DEF Typed, statements
  <2> QED
    BY <1>20, <1>d, <2>8 DEF statements
<1>21. CASE return_value
  <2>1. stack # << >>
    BY <1>21 DEF return_value, On
  <2>2. /\ Call("expression") \in Entry
    BY Entries, TokenNames DEF Plain
  <2>3. /\ <<Call("expression")>> \in Seq(Entry)
    BY <2>2
  <2>4. Typed
    BY <1>21, <1>a, <2>1, <2>3, GotoType
       DEF Typed, return_value
  <2> QED
    BY <1>21, <1>d, <2>4 DEF return_value
<1>22. CASE statement_end
  <2>1. stack # << >>
    BY <1>22 DEF statement_end, On
  <2>2. /\ Call("synchronize") \in Entry
        /\ Statements(TRUE) \in Entry
        /\ ListEnd(FALSE) \in Entry
        /\ Statements(FALSE) \in Entry
    BY Entries, TokenNames DEF Plain
  <2>3. Statements(Arg) \in Entry
    BY <1>22, <1>c, <2>1, Arguments, Entries DEF statement_end, WithoutSemicolon, On, Arg
  <2>4. /\ <<Call("synchronize"), Statements(Arg)>> \in Seq(Entry)
        /\ <<Statements(TRUE)>> \in Seq(Entry)
        /\ <<ListEnd(FALSE)>> \in Seq(Entry)
        /\ <<Statements(FALSE)>> \in Seq(Entry)
    BY <2>2, <2>3, EntryLists
  <2>5. Typed
    BY <1>22, <1>a, <2>1, <2>4, GotoType, MatchType
       DEF Typed, statement_end, WithoutSemicolon, ParserState
  <2> QED
    BY <1>22, <1>d, <2>5 DEF statement_end
<1>23. CASE synchronize
  <2>1. stack # << >>
    BY <1>23 DEF synchronize, On
  <2>2. Typed
    BY <1>23, <1>a, <2>1, GotoType, AdvancesType, ParserStateUnread
       DEF Typed, synchronize
  <2> QED
    BY <1>23, <1>d, <2>2 DEF synchronize
<1>24. CASE list_end
  <2>1. stack # << >>
    BY <1>24 DEF list_end, On
  <2>2. /\ Consume("RightCurBr") \in Entry
    BY Entries, TokenNames DEF Plain
  <2>3. /\ <<Consume("RightCurBr")>> \in Seq(Entry)
    BY <2>2
  <2>4. Typed
    BY <1>24, <1>a, <2>1, <2>3, GotoType
       DEF Typed, list_end
  <2> QED
    BY <1>24, <1>d, <2>4 DEF list_end
<1>25. CASE atom
  <2>1. stack # << >>
    BY <1>25 DEF atom, On
  <2>2. /\ Call("if_suffix") \in Entry
        /\ Consume("LeftParen") \in Entry
        /\ Consume("String") \in Entry
        /\ Consume("RightParen") \in Entry
        /\ Call("expression") \in Entry
        /\ Parameters(FALSE) \in Entry
        /\ Call("block_statement") \in Entry
        /\ Expressions("RightSqBr") \in Entry
        /\ Call("dictionary_or_set") \in Entry
    BY Entries, TokenNames DEF Plain
  <2>3. /\ <<Call("if_suffix")>> \in Seq(Entry)
        /\ <<Consume("LeftParen"), Consume("String"),
             Consume("RightParen")>> \in Seq(Entry)
        /\ <<Consume("LeftParen"), Call("expression"),
             Consume("RightParen")>> \in Seq(Entry)
        /\ <<Call("expression"), Consume("RightParen")>> \in Seq(Entry)
        /\ <<Consume("LeftParen"), Parameters(FALSE),
             Call("block_statement")>> \in Seq(Entry)
        /\ <<Expressions("RightSqBr")>> \in Seq(Entry)
        /\ <<Call("dictionary_or_set")>> \in Seq(Entry)
    BY <2>2, EntryLists
  <2>4. \A t \in DOMAIN AtomCalls : AtomCalls[t] \in Seq(Entry)
    <3>1. DOMAIN AtomCalls =
            {"If", "Require", "Yield", "LeftParen", "Fn", "LeftSqBr",
             "LeftCurBr"}
      BY DEF AtomCalls
    <3>2. /\ AtomCalls["If"] \in Seq(Entry)
          /\ AtomCalls["Require"] \in Seq(Entry)
          /\ AtomCalls["Yield"] \in Seq(Entry)
          /\ AtomCalls["LeftParen"] \in Seq(Entry)
          /\ AtomCalls["Fn"] \in Seq(Entry)
          /\ AtomCalls["LeftSqBr"] \in Seq(Entry)
          /\ AtomCalls["LeftCurBr"] \in Seq(Entry)
      BY <2>3 DEF AtomCalls
    <3> QED
      BY <3>1, <3>2
  <2>5. Typed
    BY <1>25, <1>a, <2>1, <2>3, <2>4, GotoType, AdvancesType,
       ParserStateUnread, ErrorAtType, IncompleteType
       DEF Typed, atom
  <2> QED
    BY <1>25, <1>d, <2>5 DEF atom
<1>26. CASE binary
  <2>1. stack # << >>
    BY <1>26 DEF binary, On
  <2>2. Arg \in 1 .. 10 /\ Binary(Arg) \in Entry
    BY <1>26, <1>c, <2>1, Arguments, Entries DEF binary, On, Arg
  <2>3. ASSUME NEW k \in Arg .. 9
        PROVE  Operand(k) \o <<Binary(Arg)>> \in Seq(Entry)
    <3>1. Binary(k + 1) \in Entry
      BY <2>2, Entries
    <3>2. Call(IF k <= 2 THEN "inversion" ELSE "unary") \in Entry
      BY Entries DEF Plain
    <3>3. Operand(k) \in Seq(Entry) /\ <<Binary(Arg)>> \in Seq(Entry)
      BY <2>2, <3>1, <3>2, EntryLists DEF Operand
    <3> QED
      BY <3>3
  <2>4. Typed
    BY <1>26, <1>a, <2>1, <2>3, GotoType, AdvancesType, ParserStateUnread
       DEF Typed, binary
  <2> QED
    BY <1>26, <1>d, <2>4 DEF binary
<1>27. CASE unary
  <2>1. Call("primary") \in Entry /\ "unary" \in Plain
    BY Entries DEF Plain
  <2>2. <<Call("primary")>> \in Seq(Entry)
    BY <2>1
  <2> QED
    BY <1>27, <2>1, <2>2, PrefixedType DEF unary
<1>28. CASE inversion
  <2>1. Call("unary") \in Entry /\ Binary(3) \in Entry /\ "inversion" \in Plain
    BY Entries DEF Plain
  <2>2. <<Call("unary"), Binary(3)>> \in Seq(Entry)
    BY <2>1
  <2> QED
    BY <1>28, <2>1, <2>2, PrefixedType DEF inversion
<1>29. CASE parse
  BY <1>29, ErrorAtType DEF parse, TypeOK, Verdict
<1>30. CASE Returned
  BY <1>30 DEF Returned, vars, TypeOK
<1> QED
  BY <1>1, <1>2, <1>3, <1>4, <1>5, <1>6, <1>7, <1>8, <1>9, <1>10, <1>11,
     <1>12, <1>13, <1>14, <1>15, <1>16, <1>17, <1>18, <1>19, <1>20, <1>21,
     <1>22, <1>23, <1>24, <1>25, <1>26, <1>27, <1>28, <1>29, <1>30 DEF Next

\* The parser's registers, pending calls and verdict always have their types:
\* no function of parser.c is called with an argument it does not take.
THEOREM TypeCorrect == Spec => []TypeOK
<1>1. TypeOK /\ UNCHANGED vars => TypeOK'
  BY DEF TypeOK, vars
<1> QED
  BY InitType, StepType, <1>1, PTL DEF Spec

(***************************************************************************)
(* Rejections: a NULL tree is never accepted, and only the end of the      *)
(* source is ever taken for incomplete input.                              *)
(*                                                                         *)
(* The invariant says of the parser that panic mode is only entered with   *)
(* an error on record, and that the end of the source is final, so that a  *)
(* flag raised there is still true later.                                  *)
(***************************************************************************)
Sound(p) ==
  /\ p.panic_mode => p.had_error
  /\ p.incomplete_input => p.current = "EOF"
  /\ p.current = "EOF" => p.lexer = 0

RejectionInv ==
  /\ Sound(parser)
  /\ null_ast => parser.had_error \/ parser.incomplete_input
  /\ result # Pending => stack = << >>
  /\ (null_ast /\ result # Pending) => result.ast = "NULL"

\* From p to q no verdict against the source is withdrawn.
Grows(p, q) ==
  /\ p.had_error => q.had_error
  /\ p.incomplete_input => q.incomplete_input

\* An error keeps the parser sound, and is one.
LEMMA ErrorAtSound ==
  ASSUME NEW p \in Unread, Sound(p)
  PROVE  /\ ErrorAt(p) \in Unread
         /\ Sound(ErrorAt(p)) /\ Grows(p, ErrorAt(p))
         /\ ErrorAt(p).had_error
         /\ ErrorAt(p).current = p.current
BY DEF ErrorAt, Sound, Grows, Unread

\* Input is missing only at its end, so the parser stays sound.
LEMMA IncompleteSound ==
  ASSUME NEW p \in Unread, Sound(p), p.current = "EOF"
  PROVE  Sound(Incomplete(p)) /\ Grows(p, Incomplete(p))
           /\ Incomplete(p).incomplete_input
BY DEF Incomplete, Sound, Grows, Unread

\* Reading a token withdraws nothing; at the end of the source there is only
\* the end of the source.
LEMMA NextTokenSound ==
  ASSUME NEW p \in Unread, p.panic_mode => p.had_error,
         p.incomplete_input => p.lexer = 0,
         NEW q \in NextToken(p)
  PROVE  Sound(q) /\ Grows(p, q) /\ (p.lexer = 0 => q.current = "EOF")
<1>1. CASE q = [p EXCEPT !.current = "EOF", !.lexer = 0, !.opening = << >>]
  BY <1>1 DEF Sound, Grows, Unread
<1>2. ASSUME NEW t \in TokenType, p.lexer # 0,
             q = [p EXCEPT !.current = t, !.lexer = p.lexer - 1, !.opening = Opened(p)]
      PROVE  Sound(q) /\ Grows(p, q) /\ (p.lexer = 0 => q.current = "EOF")
  BY <1>2, TokenNames DEF Sound, Grows, Unread
<1>3. NextTypes(p) \subseteq TokenType
  BY OpeningType
<1> QED
  BY <1>1, <1>2, <1>3 DEF NextToken

\* Advancing takes nothing back, and does not go on behind the end.
LEMMA AdvancesSound ==
  ASSUME NEW p \in Unread, Sound(p), NEW q \in Advances(p)
  PROVE  /\ q \in Unread /\ Sound(q) /\ Grows(p, q)
         /\ p.current = "EOF" => q.current = "EOF"
<1> DEFINE moved == [p EXCEPT !.previous = p.current, !.nesting = Nesting(p)]
<1>1. Nesting(p) \in Seq(TokenType \cup {"unmatched"})
  BY NestingType DEF Unread
<1>2. /\ moved \in Unread
      /\ moved.panic_mode => moved.had_error
      /\ moved.incomplete_input => moved.lexer = 0
      /\ Grows(p, moved)
      /\ moved.lexer = p.lexer
  BY <1>1 DEF Unread, Sound, Grows
<1>3. /\ ErrorAt(moved) \in Unread
      /\ ErrorAt(moved).panic_mode => ErrorAt(moved).had_error
      /\ ErrorAt(moved).incomplete_input => ErrorAt(moved).lexer = 0
      /\ Grows(p, ErrorAt(moved))
      /\ ErrorAt(moved).lexer = p.lexer
  BY <1>2 DEF ErrorAt, Unread, Grows
<1>4. q \in NextToken(moved) \/ q \in NextToken(ErrorAt(moved))
  BY DEF Advances
<1>5. q \in Unread
  BY AdvancesType, ParserStateUnread
<1>6. p.current = "EOF" => p.lexer = 0
  BY DEF Sound
<1>7. CASE q \in NextToken(moved)
  BY <1>2, <1>5, <1>6, <1>7, NextTokenSound DEF Grows
<1>8. CASE q \in NextToken(ErrorAt(moved))
  BY <1>3, <1>5, <1>6, <1>8, NextTokenSound DEF Grows
<1> QED
  BY <1>4, <1>7, <1>8

\* Parsing begins without an error and with no input missing.
LEMMA InitRejection == Init => RejectionInv
<1> SUFFICES ASSUME Init PROVE RejectionInv
  OBVIOUS
<1>1. ASSUME NEW s \in Sources PROVE Start(s) \in Unread /\ Sound(Start(s))
  BY StartType DEF Start, Sound
<1>2. Sound(parser)
  BY <1>1, AdvancesSound DEF Init
<1> QED
  BY <1>2 DEF Init, RejectionInv

\* No step takes a rejection back.
LEMMA StepRejection == TypeOK /\ RejectionInv /\ Next => RejectionInv'
<1> SUFFICES ASSUME TypeOK, RejectionInv, Next PROVE RejectionInv'
  OBVIOUS
<1>a. parser \in ParserState /\ parser \in Unread /\ Sound(parser)
  BY ParserStateUnread DEF TypeOK, RejectionInv
<1> DEFINE Kept == Sound(parser') /\ Grows(parser, parser')
<1>b. Kept /\ Tree /\ stack # << >> => RejectionInv'
  BY DEF RejectionInv, Tree, Grows
<1>c. Kept /\ NoTree /\ stack # << >>
        /\ (parser'.had_error \/ parser'.incomplete_input) => RejectionInv'
  BY DEF RejectionInv, NoTree
<1>d. ASSUME UNCHANGED parser PROVE Kept
  BY <1>a, <1>d DEF Grows
<1>e. ASSUME parser' \in Advances(parser) PROVE Kept
  BY <1>a, <1>e, AdvancesSound
<1>f. ASSUME parser' = ErrorAt(parser) PROVE Kept /\ parser'.had_error
  BY <1>a, <1>f, ErrorAtSound
<1>g. ASSUME parser.current = "EOF", parser' = Incomplete(parser)
      PROVE  Kept /\ parser'.incomplete_input
  BY <1>a, <1>g, IncompleteSound
<1>h. ASSUME NEW t, NEW found, NEW missing, Match(t, found, missing)
      PROVE  Kept
  BY <1>d, <1>e, <1>h DEF Match
<1>i. ASSUME NEW t, NEW rest, Until(t, rest) PROVE Kept
  BY <1>d, <1>e, <1>g, <1>i DEF Until
<1>j. ASSUME NEW f, NEW operators, NEW callees, Prefixed(f, operators, callees)
      PROVE  RejectionInv'
  <2>1. stack # << >> /\ Kept
    BY <1>d, <1>e, <1>g, <1>j DEF Prefixed, On
  <2>2. Tree \/ (NoTree /\ parser'.incomplete_input)
    BY <1>g, <1>j DEF Prefixed
  <2> QED
    BY <1>b, <1>c, <2>1, <2>2
<1> HIDE DEF Kept
<1>1. CASE consume
  <2>1. stack # << >> /\ Tree
    BY <1>1 DEF consume, On
  <2>2. Kept
    BY <1>1, <1>e, <1>f, <1>g DEF consume
  <2> QED
    BY <1>b, <2>1, <2>2
<1>2. CASE expressions
  <2>1. stack # << >> /\ Tree
    BY <1>2 DEF expressions, On
  <2>2. Kept
    BY <1>2, <1>h DEF expressions
  <2> QED
    BY <1>b, <2>1, <2>2
<1>3. CASE expressions_loop
  <2>1. stack # << >> /\ Tree
    BY <1>3 DEF expressions_loop, On
  <2>2. Kept
    BY <1>3, <1>d, <1>g, <1>h DEF expressions_loop
  <2> QED
    BY <1>b, <2>1, <2>2
<1>4. CASE dictionary_or_set
  <2>1. stack # << >> /\ Tree
    BY <1>4 DEF dictionary_or_set, On
  <2>2. Kept
    BY <1>4, <1>h, <1>i DEF dictionary_or_set
  <2> QED
    BY <1>b, <2>1, <2>2
<1>5. CASE if_statement_suffix
  <2>1. stack # << >> /\ Tree
    BY <1>5 DEF if_statement_suffix, On
  <2>2. Kept
    BY <1>5, <1>d, <1>h DEF if_statement_suffix
  <2> QED
    BY <1>b, <2>1, <2>2
<1>6. CASE primary
  <2>1. stack # << >> /\ Tree
    BY <1>6 DEF primary, On
  <2>2. Kept
    BY <1>6, <1>d, <1>e DEF primary
  <2> QED
    BY <1>b, <2>1, <2>2
<1>7. CASE expression
  <2>1. stack # << >> /\ Tree
    BY <1>7 DEF expression, On
  <2>2. Kept
    BY <1>7, <1>d DEF expression
  <2> QED
    BY <1>b, <2>1, <2>2
<1>8. CASE assignment_or_expression
  <2>1. stack # << >> /\ Tree
    BY <1>8 DEF assignment_or_expression, On
  <2>2. Kept
    BY <1>8, <1>d, <1>e DEF assignment_or_expression
  <2> QED
    BY <1>b, <2>1, <2>2
<1>9. CASE parameters
  <2>1. stack # << >> /\ Tree
    BY <1>9 DEF parameters, On
  <2>2. Kept
    BY <1>9, <1>h DEF parameters
  <2> QED
    BY <1>b, <2>1, <2>2
<1>10. CASE parameters_loop
  <2>1. stack # << >> /\ Tree
    BY <1>10 DEF parameters_loop, On
  <2>2. Kept
    BY <1>10, <1>e, <1>f, <1>g DEF parameters_loop
  <2> QED
    BY <1>b, <2>1, <2>2
<1>11. CASE parameters_end
  <2>1. stack # << >> /\ Tree
    BY <1>11 DEF parameters_end, On
  <2>2. Kept
    BY <1>11, <1>e, <1>f DEF parameters_end
  <2> QED
    BY <1>b, <2>1, <2>2
<1>12. CASE let_declaration
  <2>1. stack # << >> /\ Tree
    BY <1>12 DEF let_declaration, On
  <2>2. Kept
    BY <1>12, <1>d, <1>f, <1>h DEF let_declaration
  <2> QED
    BY <1>b, <2>1, <2>2
<1>13. CASE function_declaration
  <2>1. stack # << >> /\ Tree
    BY <1>13 DEF function_declaration, On
  <2>2. Kept
    BY <1>13, <1>d, <1>f DEF function_declaration
  <2> QED
    BY <1>b, <2>1, <2>2
<1>14. CASE struct_declaration
  <2>1. stack # << >> /\ Tree
    BY <1>14 DEF struct_declaration, On
  <2>2. Kept
    BY <1>14, <1>d, <1>f, <1>h DEF struct_declaration
  <2> QED
    BY <1>b, <2>1, <2>2
<1>15. CASE struct_body
  <2>1. stack # << >> /\ Tree
    BY <1>15 DEF struct_body, On
  <2>2. Kept
    BY <1>15, <1>e, <1>i DEF struct_body
  <2> QED
    BY <1>b, <2>1, <2>2
<1>16. CASE declaration
  <2>1. stack # << >>
    BY <1>16 DEF declaration, On
  <2>2. \/ Kept /\ Tree
        \/ Kept /\ NoTree /\ (parser'.had_error \/ parser'.incomplete_input)
    BY <1>16, <1>d, <1>f, <1>g DEF declaration
  <2> QED
    BY <1>b, <1>c, <2>1, <2>2
<1>17. CASE block_statement
  <2>1. stack # << >> /\ Tree
    BY <1>17 DEF block_statement, On
  <2>2. Kept
    BY <1>17, <1>a DEF block_statement, Kept, Sound, Grows, ParserState
  <2> QED
    BY <1>b, <2>1, <2>2
<1>18. CASE leave_block
  <2>1. stack # << >> /\ Tree
    BY <1>18 DEF leave_block, On
  <2>2. Kept
    BY <1>18, <1>a DEF leave_block, Kept, Sound, Grows, ParserState
  <2> QED
    BY <1>b, <2>1, <2>2
<1>19. CASE statement_list
  <2>1. stack # << >> /\ Tree
    BY <1>19 DEF statement_list, On
  <2>2. Kept
    BY <1>19, <1>d DEF statement_list
  <2> QED
    BY <1>b, <2>1, <2>2
<1>20. CASE statements
  <2>1. stack # << >> /\ Tree
    BY <1>20 DEF statements, On
  <2>2. ASSUME parser' \in Advances(ErrorAt(parser)) PROVE Kept
    <3>1. /\ ErrorAt(parser) \in Unread /\ Sound(ErrorAt(parser))
          /\ Grows(parser, ErrorAt(parser))
      BY <1>a, ErrorAtSound
    <3>2. Sound(parser') /\ Grows(ErrorAt(parser), parser')
      BY <2>2, <3>1, AdvancesSound
    <3> QED
      BY <3>1, <3>2 DEF Kept, Grows
  <2>3. Kept
    BY <1>20, <1>d, <1>e, <2>2 DEF statements
  <2> QED
    BY <1>b, <2>1, <2>3
<1>21. CASE return_value
  <2>1. stack # << >> /\ Tree
    BY <1>21 DEF return_value, On
  <2>2. Kept
    BY <1>21, <1>d DEF return_value
  <2> QED
    BY <1>b, <2>1, <2>2
<1>22. CASE statement_end
  <2>1. stack # << >> /\ Tree
    BY <1>22 DEF statement_end, On
  <2>2. ASSUME parser' = [parser EXCEPT !.panic_mode = FALSE]
        PROVE  Kept
    <3>1. /\ ~parser'.panic_mode
          /\ parser'.had_error = parser.had_error
          /\ parser'.incomplete_input = parser.incomplete_input
          /\ parser'.current = parser.current
          /\ parser'.lexer = parser.lexer
      BY <1>a, <2>2 DEF ParserState
    <3> QED
      BY <1>a, <3>1 DEF Kept, Sound, Grows
  <2>3. Kept
    BY <1>22, <1>d, <1>h, <2>2 DEF statement_end
  <2> QED
    BY <1>b, <2>1, <2>3
<1>23. CASE synchronize
  <2>1. stack # << >> /\ Tree
    BY <1>23 DEF synchronize, On
  <2>2. Kept
    BY <1>23, <1>d, <1>e DEF synchronize
  <2> QED
    BY <1>b, <2>1, <2>2
<1>24. CASE list_end
  <2>1. stack # << >> /\ Tree
    BY <1>24 DEF list_end, On
  <2>2. Kept
    BY <1>24, <1>d DEF list_end
  <2> QED
    BY <1>b, <2>1, <2>2
<1>25. CASE atom
  <2>1. stack # << >>
    BY <1>25 DEF atom, On
  <2>2. PICK p \in Advances(parser) :
          \/ parser' = p /\ Tree
          \/ /\ parser' = IF parser.current = "EOF" THEN Incomplete(p)
                                                    ELSE ErrorAt(p)
             /\ NoTree
    BY <1>25 DEF atom
  <2>3. /\ p \in Unread /\ Sound(p) /\ Grows(parser, p)
        /\ parser.current = "EOF" => p.current = "EOF"
    BY <1>a, AdvancesSound
  <2>4. CASE parser' = p /\ Tree
    BY <1>b, <2>1, <2>3, <2>4 DEF Kept
  <2>5. CASE parser' = Incomplete(p) /\ parser.current = "EOF" /\ NoTree
    <3>1. /\ Sound(parser') /\ Grows(p, parser')
          /\ parser'.incomplete_input
      BY <2>3, <2>5, IncompleteSound
    <3> QED
      BY <1>c, <2>1, <2>3, <2>5, <3>1 DEF Kept, Grows
  <2>6. CASE parser' = ErrorAt(p) /\ NoTree
    <3>1. Sound(parser') /\ Grows(p, parser') /\ parser'.had_error
      BY <2>3, <2>6, ErrorAtSound
    <3> QED
      BY <1>c, <2>1, <2>3, <2>6, <3>1 DEF Kept, Grows
  <2> QED
    BY <2>2, <2>4, <2>5, <2>6
<1>26. CASE binary
  <2>1. stack # << >> /\ Tree
    BY <1>26 DEF binary, On
  <2>2. Kept
    BY <1>26, <1>d, <1>e DEF binary
  <2> QED
    BY <1>b, <2>1, <2>2
<1>27. CASE unary
  BY <1>27, <1>j DEF unary
<1>28. CASE inversion
  BY <1>28, <1>j DEF inversion
<1>29. CASE parse
  <2>1. Sound(parser') /\ Grows(parser, parser')
    BY <1>29, <1>d, <1>f DEF parse, Kept
  <2>2. null_ast' => result'.ast = "NULL"
    BY <1>29 DEF parse, RejectionInv
  <2> QED
    BY <1>29, <2>1, <2>2 DEF parse, RejectionInv, Grows
<1>30. CASE Returned
  BY <1>30 DEF Returned, vars, RejectionInv
<1> QED
  BY <1>1, <1>2, <1>3, <1>4, <1>5, <1>6, <1>7, <1>8, <1>9, <1>10, <1>11,
     <1>12, <1>13, <1>14, <1>15, <1>16, <1>17, <1>18, <1>19, <1>20,
     <1>21, <1>22, <1>23, <1>24, <1>25, <1>26, <1>27, <1>28, <1>29,
     <1>30
     DEF Next

\* A tree with a hole in it is never handed out, and the end of the source is
\* all that is ever called incomplete: parse() (parser.c:865-883) returns NULL
\* whenever some function did, whatever errors, recoveries and tokens came
\* between the two.
THEOREM RejectionCorrect == Spec => [](NullNeverAccepted /\ IncompleteOnlyAtEOF)
<1>1. RejectionInv /\ UNCHANGED vars => RejectionInv'
  BY DEF RejectionInv, vars
<1>2. RejectionInv => NullNeverAccepted /\ IncompleteOnlyAtEOF
  BY DEF RejectionInv, Sound, NullNeverAccepted, IncompleteOnlyAtEOF
<1>3. Spec => []RejectionInv
  BY InitRejection, StepRejection, TypeCorrect, <1>1, PTL DEF Spec
<1> QED
  BY <1>2, <1>3, PTL
=============================================================================
