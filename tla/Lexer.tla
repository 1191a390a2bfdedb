------------------------------- MODULE Lexer --------------------------------
(***************************************************************************)
(* The pull-based lexer of lexer.c, character by character, as the parser  *)
(* drives it: advance() of parser.c asks for tokens until the end of the   *)
(* source, skipping over those that are errors.                            *)
(*                                                                         *)
(* A source is a sequence of characters: one-character strings, and        *)
(* "space", "newline", and "lead" and "cont" for the two bytes of a        *)
(* non-ASCII character.  Offsets count from 0 as in C.  Every iteration of *)
(* a loop of the code is a step; what is decided between two loops belongs *)
(* to the step that leaves the first.                                      *)
(***************************************************************************)
EXTENDS Naturals, Sequences, FiniteSets

CONSTANT Sources   \* the sources to lex

Digits  == {"0", "1", "2"}
Letters == {"a", "b", "c", "d", "e", "f", "g", "h", "i", "k", "l", "n", "o",
            "p", "q", "r", "s", "t", "u", "v", "w", "y", "_"}
Blanks  == {"space", "newline"}
Characters ==
  Digits \cup Letters \cup Blanks
    \cup {";", "{", "}", "[", "]", "(", ")", ":", ",", ".", "=", "!", "<", ">",
          "|", "^", "&", "+", "-", "*", "/", "%", "quote", "backslash",
          "dollar", "lead", "cont"}

ASSUME SourcesAssumption == Sources \subseteq Seq(Characters)

VARIABLES
  source,
  start_offset, current_offset, line_num,   \* struct Lexer
  pc,            \* the loop the lexer is in
  found_point,   \* local of number()
  tokens         \* every token and error returned so far, the end excepted

lexer == <<start_offset, current_offset, line_num>>
vars  == <<source, lexer, pc, found_point, tokens>>

CharAt(k) == IF k < Len(source) THEN source[k + 1] ELSE "NUL"
AtEnd     == current_offset >= Len(source)
Peek      == CharAt(current_offset)
Peek2     == CharAt(current_offset + 1)
Slice(from, to) == SubSeq(source, from + 1, to)

\* validate_null_terminated_utf8(): continuation bytes exactly where due.
ValidUtf8(text) ==
  /\ \A k \in DOMAIN text :
       text[k] = "lead" => k < Len(text) /\ text[k + 1] = "cont"
  /\ \A k \in DOMAIN text :
       text[k] = "cont" => k > 1 /\ text[k - 1] = "lead"

(***************************************************************************)
(* Operators: the type of one that starts with c, the two characters after *)
(* it being c1 and c2, and how many of those belong to it.                 *)
(***************************************************************************)
Single ==
  [c \in {";", "{", "}", "[", "]", "(", ")", ":", ","} |->
     CASE c = ";" -> "SemiColon"
       [] c = "{" -> "LeftCurBr" [] c = "}" -> "RightCurBr"
       [] c = "[" -> "LeftSqBr"  [] c = "]" -> "RightSqBr"
       [] c = "(" -> "LeftParen" [] c = ")" -> "RightParen"
       [] c = ":" -> "Colon"     [] c = "," -> "Comma"]

\* Operators with a second form that ends in "=".
WithAssign ==
  [c \in {"=", "!", "|", "^", "&", "+", "-", "*", "/", "%"} |->
     CASE c = "=" -> <<"Assign", "Equal">>
       [] c = "!" -> <<"BitNot", "NotEqual">>
       [] c = "|" -> <<"BitOr", "BitOrAssign">>
       [] c = "^" -> <<"BitXor", "BitXorAssign">>
       [] c = "&" -> <<"BitAnd", "BitAndAssign">>
       [] c = "+" -> <<"Plus", "AddAssign">>
       [] c = "-" -> <<"Minus", "SubAssign">>
       [] c = "*" -> <<"Star", "MulAssign">>
       [] c = "/" -> <<"Slash", "DivAssign">>
       [] c = "%" -> <<"Percent", "ModAssign">>]

\* Shifts and comparisons: plain, with "=", doubled, doubled with "=".
Angles ==
  [c \in {"<", ">"} |->
     IF c = "<" THEN <<"LessThan", "LessEqual", "ShiftLeft", "ShiftLeftAssign">>
     ELSE <<"GreaterThan", "GreaterEqual", "ShiftRight", "ShiftRightAssign">>]

OperatorStarts ==
  DOMAIN Single \cup DOMAIN WithAssign \cup DOMAIN Angles \cup {"."}

\* Mutant: no second "=" is looked for behind "<<" and ">>".
Angle_no_shift_assign(c, c1, c2) ==
  CASE c1 = c   -> [type |-> Angles[c][3], more |-> 1]
    [] c1 = "=" -> [type |-> Angles[c][2], more |-> 1]
    [] OTHER    -> [type |-> Angles[c][1], more |-> 0]

Angle(c, c1, c2) ==
  CASE c1 = c /\ c2 = "=" -> [type |-> Angles[c][4], more |-> 2]
    [] c1 = c /\ c2 # "=" -> [type |-> Angles[c][3], more |-> 1]
    [] c1 = "="           -> [type |-> Angles[c][2], more |-> 1]
    [] OTHER              -> [type |-> Angles[c][1], more |-> 0]

\* Mutant: two dots are enough for an ellipsis.
Dots_two(c1, c2) ==
  IF c1 = "." THEN [type |-> "Ellipsis", more |-> 2] ELSE [type |-> "Dot", more |-> 0]

Dots(c1, c2) ==
  IF c1 = "." /\ c2 = "." THEN [type |-> "Ellipsis", more |-> 2]
                          ELSE [type |-> "Dot", more |-> 0]

Operator(c, c1, c2) ==
  CASE c \in DOMAIN Single     -> [type |-> Single[c], more |-> 0]
    [] c \in DOMAIN WithAssign -> IF c1 = "="
                                  THEN [type |-> WithAssign[c][2], more |-> 1]
                                  ELSE [type |-> WithAssign[c][1], more |-> 0]
    [] c \in DOMAIN Angles     -> Angle(c, c1, c2)
    [] c = "."                 -> Dots(c1, c2)

(***************************************************************************)
(* Keywords.                                                               *)
(***************************************************************************)

\* Mutant: a prefix of the keyword is enough.
check_keyword_prefix(text, offset, rest, type) ==
  IF Len(text) <= offset + Len(rest)
     /\ \A k \in offset + 1 .. Len(text) : text[k] = rest[k - offset]
  THEN type ELSE "Identifier"

check_keyword(text, offset, rest, type) ==
  IF SubSeq(text, offset + 1, Len(text)) = rest THEN type ELSE "Identifier"

\* keyword_or_identifier(): the switch on the first letters of the text.
keyword_or_identifier(text) ==
  LET b == text[1]
      Second(c) == Len(text) >= 2 /\ text[2] = c
      Third(c)  == Len(text) >= 3 /\ text[3] = c
  IN CASE b = "a" -> check_keyword(text, 1, <<"n", "d">>, "And")
       [] b = "b" -> check_keyword(text, 1, <<"r", "e", "a", "k">>, "Break")
       [] b = "c" -> check_keyword(text, 1, <<"o", "n", "t", "i", "n", "u", "e">>, "Continue")
       [] b = "e" -> check_keyword(text, 1, <<"l", "s", "e">>, "Else")
       [] b = "f" /\ Second("a") -> check_keyword(text, 2, <<"l", "s", "e">>, "False")
       [] b = "f" /\ Second("n") -> check_keyword(text, 2, <<>>, "Fn")
       [] b = "f" /\ Second("o") -> check_keyword(text, 2, <<"r">>, "For")
       [] b = "i" /\ Second("n") -> check_keyword(text, 2, <<>>, "In")
       [] b = "i" /\ Second("f") -> check_keyword(text, 2, <<>>, "If")
       [] b = "l" -> check_keyword(text, 1, <<"e", "t">>, "Let")
       [] b = "n" /\ Second("o") -> check_keyword(text, 2, <<"t">>, "Not")
       [] b = "n" /\ Second("i") -> check_keyword(text, 2, <<"i">>, "Nil")
       [] b = "o" -> check_keyword(text, 1, <<"r">>, "Or")
       [] b = "p" -> check_keyword(text, 1, <<"u", "b">>, "Pub")
       [] b = "r" /\ Second("e") /\ Third("t") ->
            check_keyword(text, 3, <<"u", "r", "n">>, "Return")
       [] b = "r" /\ Second("e") /\ Third("q") ->
            check_keyword(text, 3, <<"u", "i", "r", "e">>, "Require")
       [] b = "s" /\ Second("e") -> check_keyword(text, 2, <<"l", "f">>, "Self")
       [] b = "s" /\ Second("t") -> check_keyword(text, 2, <<"r", "u", "c", "t">>, "Struct")
       [] b = "t" -> check_keyword(text, 1, <<"r", "u", "e">>, "True")
       [] b = "v" -> check_keyword(text, 1, <<"a", "r", "a", "r", "g", "s">>, "Varargs")
       [] b = "w" -> check_keyword(text, 1, <<"h", "i", "l", "e">>, "While")
       [] b = "y" -> check_keyword(text, 1, <<"i", "e", "l", "d">>, "Yield")
       [] OTHER   -> "Identifier"

(***************************************************************************)
(* The loops of lexer_tok() and of the functions it calls.                 *)
(***************************************************************************)
Init ==
  /\ source \in Sources
  /\ start_offset = 0 /\ current_offset = 0 /\ line_num = 0
  /\ pc = "skip" /\ found_point = FALSE
  /\ tokens = <<>>

Goto(there) == pc' = there /\ UNCHANGED <<source, start_offset, found_point, tokens>>
Stay        == Goto(pc)

\* A token or an error is returned and the parser asks for the next one.
Return(type, from, to) ==
  /\ tokens' = Append(tokens, [type |-> type, from |-> from, to |-> to,
                               line_num |-> line_num])
  /\ pc' = "skip"
  /\ start_offset' = from /\ current_offset' = to
  /\ UNCHANGED <<source, line_num, found_point>>

\* Mutant: a newline between tokens is not counted.
LineAfter_not_counted(c) == line_num

LineAfter(c) == IF c = "newline" THEN line_num + 1 ELSE line_num

skip_space ==
  /\ pc = "skip" /\ Peek \in Blanks
  /\ line_num' = LineAfter(Peek)
  /\ current_offset' = current_offset + 1
  /\ Stay

\* Mutant: a single "/" opens a comment.
CommentStarts_at_slash == Peek = "/"

CommentStarts == Peek = "/" /\ Peek2 = "/"

skip_comment ==
  /\ pc = "skip" /\ CommentStarts
  /\ current_offset' = current_offset + 2
  /\ UNCHANGED line_num
  /\ Goto("comment")

in_comment ==
  /\ pc = "comment" /\ ~AtEnd /\ Peek # "newline"
  /\ current_offset' = current_offset + 1
  /\ UNCHANGED line_num
  /\ Stay

after_comment ==
  /\ pc = "comment" /\ (AtEnd \/ Peek = "newline")
  /\ UNCHANGED <<current_offset, line_num>>
  /\ Goto("skip")

\* The text of the token that stands for the end is the slice of the last token
\* and all that follows it.  If that is invalid the parser is given an error,
\* and asks again.
at_end ==
  /\ pc = "skip" /\ AtEnd
  /\ pc' = IF ValidUtf8(Slice(start_offset, current_offset)) THEN "done" ELSE "skip"
  /\ UNCHANGED <<source, lexer, found_point, tokens>>

TokenStarts == pc = "skip" /\ ~AtEnd /\ Peek \notin Blanks /\ ~CommentStarts

begin_operator ==
  /\ TokenStarts /\ Peek \in OperatorStarts
  /\ LET op == Operator(Peek, Peek2, CharAt(current_offset + 2))
     IN  Return(op.type, current_offset, current_offset + 1 + op.more)

begin_unexpected ==
  /\ TokenStarts
  /\ Peek \notin OperatorStarts \cup Digits \cup Letters \cup {"quote"}
  /\ Return("Error", current_offset, current_offset + 1)

\* The first character of a string, number or identifier.
Begin(first, there) ==
  /\ TokenStarts /\ Peek \in first
  /\ start_offset' = current_offset
  /\ current_offset' = current_offset + 1
  /\ pc' = there /\ found_point' = FALSE
  /\ UNCHANGED <<source, line_num, tokens>>

begin_string     == Begin({"quote"}, "string")
begin_number     == Begin(Digits, "number")
begin_identifier == Begin(Letters, "identifier")

\* How many characters an iteration of string() consumes.
Escaped == IF Peek = "backslash" /\ current_offset + 1 < Len(source) THEN 2 ELSE 1

in_string ==
  /\ pc = "string" /\ ~AtEnd /\ Peek # "quote"
  /\ current_offset' = current_offset + Escaped
  /\ line_num' = IF Peek = "newline" THEN line_num + 1 ELSE line_num
  /\ Stay

unterminated_string ==
  /\ pc = "string" /\ AtEnd
  /\ Return("Error", start_offset, current_offset)

string_ends ==
  /\ pc = "string" /\ Peek = "quote"
  /\ Return(IF ValidUtf8(Slice(start_offset + 1, current_offset)) THEN "String"
                                                                  ELSE "Error",
            start_offset, current_offset + 1)

\* Mutant: the point itself is asked to be a digit (peek for peek2).
PointBelongs_peek == Peek = "." /\ ~found_point /\ Peek \in Digits

\* The first point, with a digit behind it.
PointBelongs == Peek = "." /\ ~found_point /\ Peek2 \in Digits

\* One iteration of number().  On a point that does not belong to the number the
\* code consumes nothing and goes round again.
in_number ==
  /\ pc = "number"
  /\ \/ Peek \in Digits /\ current_offset' = current_offset + 1 /\ UNCHANGED found_point
     \/ PointBelongs /\ current_offset' = current_offset + 2 /\ found_point' = TRUE
     \/ /\ Peek = "." /\ ~found_point /\ ~PointBelongs
        /\ UNCHANGED <<current_offset, found_point>>
  /\ UNCHANGED <<source, start_offset, line_num, pc, tokens>>

number_ends ==
  /\ pc = "number" /\ Peek \notin Digits /\ (Peek = "." => found_point)
  /\ Return(IF found_point THEN "Float" ELSE "Integer", start_offset, current_offset)

in_identifier ==
  /\ pc = "identifier" /\ Peek \in Letters \cup Digits
  /\ current_offset' = current_offset + 1
  /\ UNCHANGED line_num
  /\ Stay

identifier_ends ==
  /\ pc = "identifier" /\ Peek \notin Letters \cup Digits
  /\ Return(keyword_or_identifier(Slice(start_offset, current_offset)),
            start_offset, current_offset)

\* The parser has seen the end and asks no more.
Done == pc = "done" /\ UNCHANGED vars

Next ==
  \/ skip_space \/ skip_comment \/ in_comment \/ after_comment \/ at_end
  \/ begin_operator \/ begin_unexpected \/ begin_string \/ begin_number
  \/ begin_identifier \/ in_string \/ unterminated_string \/ string_ends
  \/ in_number \/ number_ends \/ in_identifier \/ identifier_ends \/ Done

Spec == Init /\ [][Next]_vars

\* One thread, which nothing blocks, runs the lexer.
FairSpec == Spec /\ WF_vars(Next)

(***************************************************************************)
(* Properties.                                                             *)
(***************************************************************************)
TypeOK ==
  /\ source \in Sources
  /\ start_offset \in 0 .. Len(source)
  /\ current_offset \in start_offset .. Len(source)
  /\ line_num \in 0 .. Len(source)
  /\ pc \in {"skip", "comment", "string", "number", "identifier", "done"}
  /\ found_point \in BOOLEAN
  /\ \A k \in DOMAIN tokens :
       tokens[k].from \in 0 .. Len(source) /\ tokens[k].to \in 0 .. Len(source)

\* Only whitespace and whole comments lie between two offsets.
OnlyBlank(from, to) ==
  \A k \in from .. to - 1 :
    \/ CharAt(k) \in Blanks
    \/ \E p \in from .. k :
         /\ CharAt(p) = "/" /\ CharAt(p + 1) = "/" /\ p + 1 < to
         /\ \A q \in p .. k : CharAt(q) # "newline"

\* The tokens and errors tile the source: in order, none of them empty, and
\* nothing but whitespace and comments is left out between them, in front of the
\* first and, when the parser is told of the end, behind the last.
TokensTile ==
  /\ \A k \in DOMAIN tokens :
       LET last == IF k = 1 THEN 0 ELSE tokens[k - 1].to
       IN  last <= tokens[k].from /\ tokens[k].from < tokens[k].to
             /\ OnlyBlank(last, tokens[k].from)
  /\ pc = "done" =>
       OnlyBlank(IF tokens = <<>> THEN 0 ELSE tokens[Len(tokens)].to, Len(source))

\* Operators by their spelling, from token_type_to_string().
Spelling ==
  [SemiColon |-> <<";">>, LeftCurBr |-> <<"{">>, RightCurBr |-> <<"}">>,
   LeftSqBr |-> <<"[">>, RightSqBr |-> <<"]">>, LeftParen |-> <<"(">>,
   RightParen |-> <<")">>, Colon |-> <<":">>, Assign |-> <<"=">>, Dot |-> <<".">>,
   Ellipsis |-> <<".", ".", ".">>, Comma |-> <<",">>, Equal |-> <<"=", "=">>,
   NotEqual |-> <<"!", "=">>, LessEqual |-> <<"<", "=">>, LessThan |-> <<"<">>,
   GreaterEqual |-> <<">", "=">>, GreaterThan |-> <<">">>, BitOr |-> <<"|">>,
   BitOrAssign |-> <<"|", "=">>, BitXor |-> <<"^">>, BitXorAssign |-> <<"^", "=">>,
   BitAnd |-> <<"&">>, BitAndAssign |-> <<"&", "=">>, BitNot |-> <<"!">>,
   ShiftLeft |-> <<"<", "<">>, ShiftLeftAssign |-> <<"<", "<", "=">>,
   ShiftRight |-> <<">", ">">>, ShiftRightAssign |-> <<">", ">", "=">>,
   Plus |-> <<"+">>, AddAssign |-> <<"+", "=">>, Minus |-> <<"-">>,
   SubAssign |-> <<"-", "=">>, Star |-> <<"*">>, MulAssign |-> <<"*", "=">>,
   Slash |-> <<"/">>, DivAssign |-> <<"/", "=">>, Percent |-> <<"%">>,
   ModAssign |-> <<"%", "=">>]

\* Keywords by their spelling, from the same function.
Keywords ==
  [True |-> <<"t", "r", "u", "e">>, False |-> <<"f", "a", "l", "s", "e">>,
   Nil |-> <<"n", "i", "l">>, Fn |-> <<"f", "n">>, And |-> <<"a", "n", "d">>,
   Or |-> <<"o", "r">>, Not |-> <<"n", "o", "t">>, Pub |-> <<"p", "u", "b">>,
   Let |-> <<"l", "e", "t">>, For |-> <<"f", "o", "r">>, In |-> <<"i", "n">>,
   If |-> <<"i", "f">>, Else |-> <<"e", "l", "s", "e">>,
   While |-> <<"w", "h", "i", "l", "e">>,
   Struct |-> <<"s", "t", "r", "u", "c", "t">>,
   Break |-> <<"b", "r", "e", "a", "k">>,
   Continue |-> <<"c", "o", "n", "t", "i", "n", "u", "e">>,
   Self |-> <<"s", "e", "l", "f">>,
   Require |-> <<"r", "e", "q", "u", "i", "r", "e">>,
   Return |-> <<"r", "e", "t", "u", "r", "n">>,
   Yield |-> <<"y", "i", "e", "l", "d">>,
   Varargs |-> <<"v", "a", "r", "a", "r", "g", "s">>]

Text(t) == Slice(t.from, t.to)

\* The quote at offset k of a string that starts at from is escaped: it stands
\* behind an odd number of backslashes.
IsEscaped(from, k) ==
  \E p \in from .. k - 1 :
    /\ (k - p) % 2 = 1
    /\ CharAt(p - 1) # "backslash"
    /\ \A q \in p .. k - 1 : CharAt(q) = "backslash"

Closes(from, k) == CharAt(k) = "quote" /\ ~IsEscaped(from, k)

\* Each token is the longest piece of the source that its kind allows, whatever
\* surrounds it: no longer operator starts where an operator was taken, digits
\* and letters do not go on behind a number or a name, and a string ends at its
\* first quote that is not escaped.  Errors are single characters that start
\* nothing, strings of broken bytes, and strings without an end.
TokensAreLongest ==
  \A k \in DOMAIN tokens :
    LET t == tokens[k]
        inside(chars) == \A q \in t.from .. t.to - 1 : CharAt(q) \in chars
    IN CASE t.type \in DOMAIN Spelling ->
              /\ Text(t) = Spelling[t.type]
              /\ \A o \in DOMAIN Spelling :
                   Len(Spelling[o]) > Len(Text(t)) =>
                     \E q \in DOMAIN Spelling[o] :
                       CharAt(t.from + q - 1) # Spelling[o][q]
         [] t.type = "Integer" ->
              /\ inside(Digits) /\ CharAt(t.to) \notin Digits
              /\ ~(CharAt(t.to) = "." /\ CharAt(t.to + 1) \in Digits)
         [] t.type = "Float" ->
              /\ inside(Digits \cup {"."}) /\ CharAt(t.to) \notin Digits
              /\ \E p \in t.from + 1 .. t.to - 2 :
                   \A q \in t.from .. t.to - 1 : CharAt(q) = "." <=> q = p
         [] t.type = "String" \/ (t.type = "Error" /\ CharAt(t.from) = "quote") ->
              \/ /\ t.to - t.from >= 2 /\ Closes(t.from + 1, t.to - 1)
                 /\ \A q \in t.from + 1 .. t.to - 2 : ~Closes(t.from + 1, q)
                 /\ (t.type = "String") <=> ValidUtf8(Slice(t.from + 1, t.to - 1))
              \/ /\ t.type = "Error" /\ t.to = Len(source)
                 /\ \A q \in t.from + 1 .. t.to - 1 : ~Closes(t.from + 1, q)
         [] t.type = "Error" /\ CharAt(t.from) # "quote" ->
              t.to = t.from + 1 /\ inside({"dollar", "backslash", "lead", "cont"})
         [] OTHER ->
              /\ inside(Letters \cup Digits) /\ CharAt(t.from) \notin Digits
              /\ CharAt(t.to) \notin Letters \cup Digits

\* A name is a keyword exactly when it is spelt like one, and then that one.
KeywordsRecognised ==
  \A k \in DOMAIN tokens :
    /\ tokens[k].type = "Identifier" =>
         \A w \in DOMAIN Keywords : Text(tokens[k]) # Keywords[w]
    /\ tokens[k].type \in DOMAIN Keywords =>
         Text(tokens[k]) = Keywords[tokens[k].type]

\* The line recorded with a token is the one its last character is on, whatever
\* newlines whitespace, comments and strings contain up to there.  It is what
\* the parser's error messages print.
LinesAreExact ==
  \A k \in DOMAIN tokens :
    tokens[k].line_num =
      Cardinality({q \in 0 .. tokens[k].to - 1 : CharAt(q) = "newline"})

\* The lexer reaches the end of every source and tells the parser so.
LexingEnds == <>(pc = "done")
=============================================================================
