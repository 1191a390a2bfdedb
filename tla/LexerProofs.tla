---------------------------- MODULE LexerProofs -----------------------------
(***************************************************************************)
(* Proofs about the lexer of Lexer.tla, for every set of sources.          *)
(***************************************************************************)
EXTENDS Lexer, TLAPS, SequenceTheorems, FiniteSetTheorems

(***************************************************************************)
(* Operators.  First the tables, written out.                              *)
(***************************************************************************)
\* The types of the operators.
OperatorTypes ==
  {"SemiColon", "LeftCurBr", "RightCurBr", "LeftSqBr", "RightSqBr",
   "LeftParen", "RightParen", "Colon", "Assign", "Dot", "Ellipsis", "Comma",
   "Equal", "NotEqual", "LessEqual", "LessThan", "GreaterEqual",
   "GreaterThan", "BitOr", "BitOrAssign", "BitXor", "BitXorAssign", "BitAnd",
   "BitAndAssign", "BitNot", "ShiftLeft", "ShiftLeftAssign", "ShiftRight",
   "ShiftRightAssign", "Plus", "AddAssign", "Minus", "SubAssign", "Star",
   "MulAssign", "Slash", "DivAssign", "Percent", "ModAssign"}

\* The characters an operator starts with.
LEMMA Starts ==
  /\ DOMAIN Single = {";", "{", "}", "[", "]", "(", ")", ":", ","}
  /\ DOMAIN WithAssign = {"=", "!", "|", "^", "&", "+", "-", "*", "/", "%"}
  /\ DOMAIN Angles = {"<", ">"}
  /\ OperatorStarts = {";", "{", "}", "[", "]", "(", ")", ":", ",", "=", "!", "|", "^",
                       "&", "+", "-", "*", "/", "%", "<", ">", "."}
BY DEF Single, WithAssign, Angles, OperatorStarts

\* The types of the operators that start with them.
LEMMA StartTables ==
  /\ Single[";"] = "SemiColon" /\ Single["{"] = "LeftCurBr"
  /\ Single["}"] = "RightCurBr" /\ Single["["] = "LeftSqBr"
  /\ Single["]"] = "RightSqBr" /\ Single["("] = "LeftParen"
  /\ Single[")"] = "RightParen" /\ Single[":"] = "Colon"
  /\ Single[","] = "Comma"
  /\ WithAssign["="][1] = "Assign" /\ WithAssign["="][2] = "Equal"
  /\ WithAssign["!"][1] = "BitNot" /\ WithAssign["!"][2] = "NotEqual"
  /\ WithAssign["|"][1] = "BitOr" /\ WithAssign["|"][2] = "BitOrAssign"
  /\ WithAssign["^"][1] = "BitXor" /\ WithAssign["^"][2] = "BitXorAssign"
  /\ WithAssign["&"][1] = "BitAnd" /\ WithAssign["&"][2] = "BitAndAssign"
  /\ WithAssign["+"][1] = "Plus" /\ WithAssign["+"][2] = "AddAssign"
  /\ WithAssign["-"][1] = "Minus" /\ WithAssign["-"][2] = "SubAssign"
  /\ WithAssign["*"][1] = "Star" /\ WithAssign["*"][2] = "MulAssign"
  /\ WithAssign["/"][1] = "Slash" /\ WithAssign["/"][2] = "DivAssign"
  /\ WithAssign["%"][1] = "Percent" /\ WithAssign["%"][2] = "ModAssign"
  /\ Angles["<"][1] = "LessThan" /\ Angles["<"][2] = "LessEqual"
  /\ Angles["<"][3] = "ShiftLeft" /\ Angles["<"][4] = "ShiftLeftAssign"
  /\ Angles[">"][1] = "GreaterThan" /\ Angles[">"][2] = "GreaterEqual"
  /\ Angles[">"][3] = "ShiftRight" /\ Angles[">"][4] = "ShiftRightAssign"
BY DEF Single, WithAssign, Angles, OperatorStarts

\* The spellings of the operators.
LEMMA SpellingTable ==
  /\ DOMAIN Spelling = OperatorTypes
  /\ Spelling["SemiColon"] = <<";">> /\ Spelling["LeftCurBr"] = <<"{">>
  /\ Spelling["RightCurBr"] = <<"}">> /\ Spelling["LeftSqBr"] = <<"[">>
  /\ Spelling["RightSqBr"] = <<"]">> /\ Spelling["LeftParen"] = <<"(">>
  /\ Spelling["RightParen"] = <<")">> /\ Spelling["Colon"] = <<":">>
  /\ Spelling["Assign"] = <<"=">> /\ Spelling["Dot"] = <<".">>
  /\ Spelling["Ellipsis"] = <<".", ".", ".">> /\ Spelling["Comma"] = <<",">>
  /\ Spelling["Equal"] = <<"=", "=">> /\ Spelling["NotEqual"] = <<"!", "=">>
  /\ Spelling["LessEqual"] = <<"<", "=">> /\ Spelling["LessThan"] = <<"<">>
  /\ Spelling["GreaterEqual"] = <<">", "=">>
  /\ Spelling["GreaterThan"] = <<">">> /\ Spelling["BitOr"] = <<"|">>
  /\ Spelling["BitOrAssign"] = <<"|", "=">> /\ Spelling["BitXor"] = <<"^">>
  /\ Spelling["BitXorAssign"] = <<"^", "=">> /\ Spelling["BitAnd"] = <<"&">>
  /\ Spelling["BitAndAssign"] = <<"&", "=">> /\ Spelling["BitNot"] = <<"!">>
  /\ Spelling["ShiftLeft"] = <<"<", "<">>
  /\ Spelling["ShiftLeftAssign"] = <<"<", "<", "=">>
  /\ Spelling["ShiftRight"] = <<">", ">">>
  /\ Spelling["ShiftRightAssign"] = <<">", ">", "=">>
  /\ Spelling["Plus"] = <<"+">> /\ Spelling["AddAssign"] = <<"+", "=">>
  /\ Spelling["Minus"] = <<"-">> /\ Spelling["SubAssign"] = <<"-", "=">>
  /\ Spelling["Star"] = <<"*">> /\ Spelling["MulAssign"] = <<"*", "=">>
  /\ Spelling["Slash"] = <<"/">> /\ Spelling["DivAssign"] = <<"/", "=">>
  /\ Spelling["Percent"] = <<"%">> /\ Spelling["ModAssign"] = <<"%", "=">>
BY DEF Spelling, OperatorTypes

\* The spellings of the operators have five forms.
Forms ==
  {<<c>> : c \in OperatorStarts}
    \cup {<<c, "=">> : c \in DOMAIN WithAssign \cup DOMAIN Angles}
    \cup {<<c, c>> : c \in DOMAIN Angles} \cup {<<c, c, "=">> : c \in DOMAIN Angles}
    \cup {<<".", ".", ".">>}

\* Every operator has one of these forms.
LEMMA SpellingForms == \A o \in DOMAIN Spelling : Spelling[o] \in Forms
<1>1. /\ \A c \in OperatorStarts : <<c>> \in Forms
      /\ \A c \in DOMAIN WithAssign : <<c, "=">> \in Forms
      /\ \A c \in DOMAIN Angles : <<c, "=">> \in Forms
      /\ \A c \in DOMAIN Angles : <<c, c>> \in Forms /\ <<c, c, "=">> \in Forms
      /\ <<".", ".", ".">> \in Forms
  BY Zenon DEF Forms
<1> HIDE DEF Forms
<1>2. <<";">> \in Forms /\ <<"{">> \in Forms /\ <<"}">> \in Forms /\
      <<"[">> \in Forms /\ <<"]">> \in Forms /\ <<"(">> \in Forms /\
      <<")">> \in Forms /\ <<":">> \in Forms /\ <<"=">> \in Forms /\
      <<".">> \in Forms /\ <<",">> \in Forms /\ <<"<">> \in Forms /\
      <<">">> \in Forms /\ <<"|">> \in Forms /\ <<"^">> \in Forms /\
      <<"&">> \in Forms /\ <<"!">> \in Forms /\ <<"+">> \in Forms /\
      <<"-">> \in Forms /\ <<"*">> \in Forms /\ <<"/">> \in Forms /\
      <<"%">> \in Forms
  BY <1>1, Starts
<1>3. <<"=", "=">> \in Forms /\ <<"!", "=">> \in Forms /\
      <<"<", "=">> \in Forms /\ <<">", "=">> \in Forms /\
      <<"|", "=">> \in Forms /\ <<"^", "=">> \in Forms /\
      <<"&", "=">> \in Forms /\ <<"+", "=">> \in Forms /\
      <<"-", "=">> \in Forms /\ <<"*", "=">> \in Forms /\
      <<"/", "=">> \in Forms /\ <<"%", "=">> \in Forms
  BY <1>1, Starts
<1>4. <<".", ".", ".">> \in Forms /\ <<"<", "<">> \in Forms /\
      <<"<", "<", "=">> \in Forms /\ <<">", ">">> \in Forms /\
      <<">", ">", "=">> \in Forms
  BY <1>1, Starts
<1>5. Spelling["SemiColon"] \in Forms /\ Spelling["LeftCurBr"] \in Forms /\
      Spelling["RightCurBr"] \in Forms /\ Spelling["LeftSqBr"] \in Forms /\
      Spelling["RightSqBr"] \in Forms /\ Spelling["LeftParen"] \in Forms /\
      Spelling["RightParen"] \in Forms /\ Spelling["Colon"] \in Forms /\
      Spelling["Assign"] \in Forms /\ Spelling["Dot"] \in Forms /\
      Spelling["Ellipsis"] \in Forms /\ Spelling["Comma"] \in Forms /\
      Spelling["Equal"] \in Forms /\ Spelling["NotEqual"] \in Forms /\
      Spelling["LessEqual"] \in Forms /\ Spelling["LessThan"] \in Forms /\
      Spelling["GreaterEqual"] \in Forms /\
      Spelling["GreaterThan"] \in Forms /\ Spelling["BitOr"] \in Forms /\
      Spelling["BitOrAssign"] \in Forms /\ Spelling["BitXor"] \in Forms /\
      Spelling["BitXorAssign"] \in Forms /\ Spelling["BitAnd"] \in Forms /\
      Spelling["BitAndAssign"] \in Forms /\ Spelling["BitNot"] \in Forms /\
      Spelling["ShiftLeft"] \in Forms /\
      Spelling["ShiftLeftAssign"] \in Forms /\
      Spelling["ShiftRight"] \in Forms /\
      Spelling["ShiftRightAssign"] \in Forms /\ Spelling["Plus"] \in Forms /\
      Spelling["AddAssign"] \in Forms /\ Spelling["Minus"] \in Forms /\
      Spelling["SubAssign"] \in Forms /\ Spelling["Star"] \in Forms /\
      Spelling["MulAssign"] \in Forms /\ Spelling["Slash"] \in Forms /\
      Spelling["DivAssign"] \in Forms /\ Spelling["Percent"] \in Forms /\
      Spelling["ModAssign"] \in Forms
  BY <1>2, <1>3, <1>4, SpellingTable
<1> QED BY <1>5, SpellingTable, Zenon DEF OperatorTypes

\* The starts of the four kinds of operator are different characters.
LEMMA StartsApart ==
  ASSUME NEW c \in OperatorStarts
  PROVE  \/ c \in DOMAIN Single /\ c \notin DOMAIN WithAssign
              /\ c \notin DOMAIN Angles /\ c # "."
         \/ c \in DOMAIN WithAssign /\ c \notin DOMAIN Single
              /\ c \notin DOMAIN Angles /\ c # "."
         \/ c \in DOMAIN Angles /\ c \notin DOMAIN Single
              /\ c \notin DOMAIN WithAssign /\ c # "."
         \/ c = "." /\ c \notin DOMAIN Single
              /\ c \notin DOMAIN WithAssign /\ c \notin DOMAIN Angles
BY Starts

\* Operators of one character, of one or two, and angles, by their spelling.
LEMMA SpelledAsRead ==
  /\ \A c \in DOMAIN Single : Single[c] \in OperatorTypes /\ Spelling[Single[c]] = <<c>>
  /\ \A c \in DOMAIN WithAssign :
       /\ WithAssign[c][1] \in OperatorTypes /\ Spelling[WithAssign[c][1]] = <<c>>
       /\ WithAssign[c][2] \in OperatorTypes /\ Spelling[WithAssign[c][2]] = <<c, "=">>
  /\ \A c \in DOMAIN Angles :
       /\ Angles[c][1] \in OperatorTypes /\ Spelling[Angles[c][1]] = <<c>>
       /\ Angles[c][2] \in OperatorTypes /\ Spelling[Angles[c][2]] = <<c, "=">>
       /\ Angles[c][3] \in OperatorTypes /\ Spelling[Angles[c][3]] = <<c, c>>
       /\ Angles[c][4] \in OperatorTypes /\ Spelling[Angles[c][4]] = <<c, c, "=">>
<1>1. \A c \in DOMAIN Single : Spelling[Single[c]] = <<c>>
  <2>1. Spelling[Single[";"]] = <<";">>
    BY StartTables, SpellingTable
  <2>2. Spelling[Single["{"]] = <<"{">>
    BY StartTables, SpellingTable
  <2>3. Spelling[Single["}"]] = <<"}">>
    BY StartTables, SpellingTable
  <2>4. Spelling[Single["["]] = <<"[">>
    BY StartTables, SpellingTable
  <2>5. Spelling[Single["]"]] = <<"]">>
    BY StartTables, SpellingTable
  <2>6. Spelling[Single["("]] = <<"(">>
    BY StartTables, SpellingTable
  <2>7. Spelling[Single[")"]] = <<")">>
    BY StartTables, SpellingTable
  <2>8. Spelling[Single[":"]] = <<":">>
    BY StartTables, SpellingTable
  <2>9. Spelling[Single[","]] = <<",">>
    BY StartTables, SpellingTable
  <2> QED BY <2>1, <2>2, <2>3, <2>4, <2>5, <2>6, <2>7, <2>8, <2>9, Starts, Zenon
<1>2. \A c \in DOMAIN WithAssign : Spelling[WithAssign[c][1]] = <<c>>
  <2>1. Spelling[WithAssign["="][1]] = <<"=">>
    BY StartTables, SpellingTable
  <2>2. Spelling[WithAssign["!"][1]] = <<"!">>
    BY StartTables, SpellingTable
  <2>3. Spelling[WithAssign["|"][1]] = <<"|">>
    BY StartTables, SpellingTable
  <2>4. Spelling[WithAssign["^"][1]] = <<"^">>
    BY StartTables, SpellingTable
  <2>5. Spelling[WithAssign["&"][1]] = <<"&">>
    BY StartTables, SpellingTable
  <2>6. Spelling[WithAssign["+"][1]] = <<"+">>
    BY StartTables, SpellingTable
  <2>7. Spelling[WithAssign["-"][1]] = <<"-">>
    BY StartTables, SpellingTable
  <2>8. Spelling[WithAssign["*"][1]] = <<"*">>
    BY StartTables, SpellingTable
  <2>9. Spelling[WithAssign["/"][1]] = <<"/">>
    BY StartTables, SpellingTable
  <2>10. Spelling[WithAssign["%"][1]] = <<"%">>
    BY StartTables, SpellingTable
  <2> QED BY <2>1, <2>2, <2>3, <2>4, <2>5, <2>6, <2>7, <2>8, <2>9, <2>10, Starts,
         Zenon
<1>3. \A c \in DOMAIN WithAssign : Spelling[WithAssign[c][2]] = <<c, "=">>
  <2>1. Spelling[WithAssign["="][2]] = <<"=", "=">>
    BY StartTables, SpellingTable
  <2>2. Spelling[WithAssign["!"][2]] = <<"!", "=">>
    BY StartTables, SpellingTable
  <2>3. Spelling[WithAssign["|"][2]] = <<"|", "=">>
    BY StartTables, SpellingTable
  <2>4. Spelling[WithAssign["^"][2]] = <<"^", "=">>
    BY StartTables, SpellingTable
  <2>5. Spelling[WithAssign["&"][2]] = <<"&", "=">>
    BY StartTables, SpellingTable
  <2>6. Spelling[WithAssign["+"][2]] = <<"+", "=">>
    BY StartTables, SpellingTable
  <2>7. Spelling[WithAssign["-"][2]] = <<"-", "=">>
    BY StartTables, SpellingTable
  <2>8. Spelling[WithAssign["*"][2]] = <<"*", "=">>
    BY StartTables, SpellingTable
  <2>9. Spelling[WithAssign["/"][2]] = <<"/", "=">>
    BY StartTables, SpellingTable
  <2>10. Spelling[WithAssign["%"][2]] = <<"%", "=">>
    BY StartTables, SpellingTable
  <2> QED BY <2>1, <2>2, <2>3, <2>4, <2>5, <2>6, <2>7, <2>8, <2>9, <2>10, Starts,
         Zenon
<1>4. \A c \in DOMAIN Angles :
        /\ Spelling[Angles[c][1]] = <<c>> /\ Spelling[Angles[c][2]] = <<c, "=">>
        /\ Spelling[Angles[c][3]] = <<c, c>> /\ Spelling[Angles[c][4]] = <<c, c, "=">>
  <2>1. Spelling[Angles["<"][1]] = <<"<">>
    BY StartTables, SpellingTable
  <2>2. Spelling[Angles["<"][2]] = <<"<", "=">>
    BY StartTables, SpellingTable
  <2>3. Spelling[Angles["<"][3]] = <<"<", "<">>
    BY StartTables, SpellingTable
  <2>4. Spelling[Angles["<"][4]] = <<"<", "<", "=">>
    BY StartTables, SpellingTable
  <2>5. Spelling[Angles[">"][1]] = <<">">>
    BY StartTables, SpellingTable
  <2>6. Spelling[Angles[">"][2]] = <<">", "=">>
    BY StartTables, SpellingTable
  <2>7. Spelling[Angles[">"][3]] = <<">", ">">>
    BY StartTables, SpellingTable
  <2>8. Spelling[Angles[">"][4]] = <<">", ">", "=">>
    BY StartTables, SpellingTable
  <2> QED BY <2>1, <2>2, <2>3, <2>4, <2>5, <2>6, <2>7, <2>8, Starts, Zenon
<1>5. \A c \in DOMAIN Single : Single[c] \in OperatorTypes
  <2>1. Single[";"] \in OperatorTypes /\ Single["{"] \in OperatorTypes /\
        Single["}"] \in OperatorTypes /\ Single["["] \in OperatorTypes /\
        Single["]"] \in OperatorTypes /\ Single["("] \in OperatorTypes /\
        Single[")"] \in OperatorTypes /\ Single[":"] \in OperatorTypes /\
        Single[","] \in OperatorTypes
    BY StartTables DEF OperatorTypes
  <2> QED BY <2>1, Starts, Zenon
<1>6. \A c \in DOMAIN WithAssign : WithAssign[c][1] \in OperatorTypes
  <2>1. WithAssign["="][1] \in OperatorTypes /\
        WithAssign["!"][1] \in OperatorTypes /\
        WithAssign["|"][1] \in OperatorTypes /\
        WithAssign["^"][1] \in OperatorTypes /\
        WithAssign["&"][1] \in OperatorTypes /\
        WithAssign["+"][1] \in OperatorTypes /\
        WithAssign["-"][1] \in OperatorTypes /\
        WithAssign["*"][1] \in OperatorTypes /\
        WithAssign["/"][1] \in OperatorTypes /\
        WithAssign["%"][1] \in OperatorTypes
    BY StartTables DEF OperatorTypes
  <2> QED BY <2>1, Starts, Zenon
<1>7. \A c \in DOMAIN WithAssign : WithAssign[c][2] \in OperatorTypes
  <2>1. WithAssign["="][2] \in OperatorTypes /\
        WithAssign["!"][2] \in OperatorTypes /\
        WithAssign["|"][2] \in OperatorTypes /\
        WithAssign["^"][2] \in OperatorTypes /\
        WithAssign["&"][2] \in OperatorTypes /\
        WithAssign["+"][2] \in OperatorTypes /\
        WithAssign["-"][2] \in OperatorTypes /\
        WithAssign["*"][2] \in OperatorTypes /\
        WithAssign["/"][2] \in OperatorTypes /\
        WithAssign["%"][2] \in OperatorTypes
    BY StartTables DEF OperatorTypes
  <2> QED BY <2>1, Starts, Zenon
<1>8. \A c \in DOMAIN Angles :
        /\ Angles[c][1] \in OperatorTypes /\ Angles[c][2] \in OperatorTypes
        /\ Angles[c][3] \in OperatorTypes /\ Angles[c][4] \in OperatorTypes
  <2>1. Angles["<"][1] \in OperatorTypes /\
        Angles["<"][2] \in OperatorTypes /\
        Angles["<"][3] \in OperatorTypes /\
        Angles["<"][4] \in OperatorTypes /\
        Angles[">"][1] \in OperatorTypes /\
        Angles[">"][2] \in OperatorTypes /\
        Angles[">"][3] \in OperatorTypes /\ Angles[">"][4] \in OperatorTypes
    BY StartTables DEF OperatorTypes
  <2> QED BY <2>1, Starts, Zenon
<1> QED BY <1>1, <1>2, <1>3, <1>4, <1>5, <1>6, <1>7, <1>8, Zenon

\* What Operator returns is the operator that the characters it read spell.
LEMMA OperatorReads ==
  ASSUME NEW c \in OperatorStarts, NEW c1, NEW c2
  PROVE  /\ Operator(c, c1, c2).type \in OperatorTypes
         /\ \/ /\ Operator(c, c1, c2).more = 0
               /\ Spelling[Operator(c, c1, c2).type] = <<c>>
               /\ c \in DOMAIN WithAssign \cup DOMAIN Angles => c1 # "="
               /\ c \in DOMAIN Angles => c1 # c
               /\ c = "." => ~(c1 = "." /\ c2 = ".")
            \/ /\ Operator(c, c1, c2).more = 1
               /\ Spelling[Operator(c, c1, c2).type] = <<c, c1>>
               /\ c1 \in OperatorStarts
               /\ c # "."
               /\ c1 = c /\ c \in DOMAIN Angles => c2 # "="
            \/ /\ Operator(c, c1, c2).more = 2
               /\ Spelling[Operator(c, c1, c2).type] = <<c, c1, c2>>
               /\ c1 \in OperatorStarts /\ c2 \in OperatorStarts
<1>1. CASE c \in DOMAIN Single
  <2>1. Operator(c, c1, c2) = [type |-> Single[c], more |-> 0]
    BY <1>1, StartsApart, Zenon DEF Operator
  <2>2. c \notin DOMAIN WithAssign /\ c \notin DOMAIN Angles /\ c # "."
    BY <1>1, StartsApart, Zenon
  <2>3. Single[c] \in OperatorTypes /\ Spelling[Single[c]] = <<c>>
    BY <1>1, SpelledAsRead, Zenon
  <2> QED BY <2>1, <2>2, <2>3
<1>2. CASE c \in DOMAIN WithAssign
  <2>1. c \notin DOMAIN Single /\ c \notin DOMAIN Angles /\ c # "."
    BY <1>2, StartsApart, Zenon
  <2>2. Operator(c, c1, c2) = IF c1 = "=" THEN [type |-> WithAssign[c][2], more |-> 1]
                                          ELSE [type |-> WithAssign[c][1], more |-> 0]
    BY <1>2, <2>1, Zenon DEF Operator
  <2>3. /\ WithAssign[c][1] \in OperatorTypes /\ Spelling[WithAssign[c][1]] = <<c>>
        /\ WithAssign[c][2] \in OperatorTypes /\ Spelling[WithAssign[c][2]] = <<c, "=">>
    BY <1>2, SpelledAsRead, Zenon
  <2>4. "=" \in OperatorStarts
    BY Starts
  <2> QED BY <2>1, <2>2, <2>3, <2>4
<1>3. CASE c \in DOMAIN Angles
  <2>1. c \notin DOMAIN Single /\ c \notin DOMAIN WithAssign /\ c # "."
    BY <1>3, StartsApart, Zenon
  <2>2. Operator(c, c1, c2) = Angle(c, c1, c2)
    BY <1>3, <2>1, Zenon DEF Operator
  <2>3. /\ Angles[c][1] \in OperatorTypes /\ Spelling[Angles[c][1]] = <<c>>
        /\ Angles[c][2] \in OperatorTypes /\ Spelling[Angles[c][2]] = <<c, "=">>
        /\ Angles[c][3] \in OperatorTypes /\ Spelling[Angles[c][3]] = <<c, c>>
        /\ Angles[c][4] \in OperatorTypes /\ Spelling[Angles[c][4]] = <<c, c, "=">>
    BY <1>3, SpelledAsRead, Zenon
  <2>4. "=" \in OperatorStarts /\ c # "="
    BY <1>3, Starts
  <2>5. CASE c1 = c /\ c2 = "="
    <3>1. Operator(c, c1, c2) = [type |-> Angles[c][4], more |-> 2]
      BY <2>2, <2>4, <2>5, Zenon DEF Angle
    <3> QED BY <2>3, <2>4, <2>5, <3>1
  <2>6. CASE c1 = c /\ c2 # "="
    <3>1. Operator(c, c1, c2) = [type |-> Angles[c][3], more |-> 1]
      BY <2>2, <2>4, <2>6, Zenon DEF Angle
    <3> QED BY <2>1, <2>3, <2>4, <2>6, <3>1
  <2>7. CASE c1 # c /\ c1 = "="
    <3>1. Operator(c, c1, c2) = [type |-> Angles[c][2], more |-> 1]
      BY <2>2, <2>7, Zenon DEF Angle
    <3> QED BY <2>1, <2>3, <2>4, <2>7, <3>1
  <2>8. CASE c1 # c /\ c1 # "="
    <3>1. Operator(c, c1, c2) = [type |-> Angles[c][1], more |-> 0]
      BY <2>2, <2>8 DEF Angle
    <3> QED BY <2>1, <2>3, <2>8, <3>1
  <2> QED BY <2>5, <2>6, <2>7, <2>8, Zenon
<1>4. CASE c = "."
  <2>1. c \notin DOMAIN Single /\ c \notin DOMAIN WithAssign /\ c \notin DOMAIN Angles
    BY <1>4, StartsApart, Zenon
  <2>2. Operator(c, c1, c2) = Dots(c1, c2)
    BY <1>4, <2>1, Zenon DEF Operator
  <2>3. /\ "Ellipsis" \in OperatorTypes /\ Spelling["Ellipsis"] = <<".", ".", ".">>
        /\ "Dot" \in OperatorTypes /\ Spelling["Dot"] = <<".">>
    BY SpellingTable DEF OperatorTypes
  <2> QED BY <1>4, <2>1, <2>2, <2>3 DEF Dots
<1> QED BY <1>1, <1>2, <1>3, <1>4, StartsApart, Zenon

\* No longer operator starts with the characters read.
LEMMA NoLongerOperator ==
  ASSUME NEW c \in OperatorStarts, NEW c1, NEW c2, NEW o \in DOMAIN Spelling,
         Len(Spelling[o]) > 1 + Operator(c, c1, c2).more
  PROVE  \E q \in DOMAIN Spelling[o] : <<c, c1, c2>>[q] # Spelling[o][q]
<1> DEFINE s == Spelling[o]
           m == Operator(c, c1, c2).more
<1>1. s \in Forms
  BY SpellingForms
<1>2. \/ /\ m = 0
         /\ c \in DOMAIN WithAssign \cup DOMAIN Angles => c1 # "="
         /\ c \in DOMAIN Angles => c1 # c
         /\ c = "." => ~(c1 = "." /\ c2 = ".")
      \/ m = 1 /\ c # "." /\ (c1 = c /\ c \in DOMAIN Angles => c2 # "=")
      \/ m = 2
  BY OperatorReads, Zenon
<1>3. Len(s) > 1 + m
  OBVIOUS
<1> HIDE DEF s, m
<1>4. CASE \E d \in OperatorStarts : s = <<d>>
  BY <1>2, <1>3, <1>4
<1>5. CASE \E d \in DOMAIN WithAssign \cup DOMAIN Angles : s = <<d, "=">>
  <2>1. PICK d \in DOMAIN WithAssign \cup DOMAIN Angles : s = <<d, "=">>
    BY <1>5
  <2>2. 1 \in DOMAIN s /\ 2 \in DOMAIN s /\ s[1] = d /\ s[2] = "=" /\ m = 0
    BY <1>2, <1>3, <2>1
  <2>3. c # d \/ c1 # "="
    BY <1>2, <2>1, <2>2
  <2> QED BY <2>2, <2>3 DEF s
<1>6. CASE \E d \in DOMAIN Angles : s = <<d, d>>
  <2>1. PICK d \in DOMAIN Angles : s = <<d, d>>
    BY <1>6
  <2>2. 1 \in DOMAIN s /\ 2 \in DOMAIN s /\ s[1] = d /\ s[2] = d /\ m = 0
    BY <1>2, <1>3, <2>1
  <2>3. c # d \/ c1 # d
    BY <1>2, <2>1, <2>2
  <2> QED BY <2>2, <2>3 DEF s
<1>7. CASE \E d \in DOMAIN Angles : s = <<d, d, "=">>
  <2>1. PICK d \in DOMAIN Angles : s = <<d, d, "=">>
    BY <1>7
  <2>2. /\ 1 \in DOMAIN s /\ 2 \in DOMAIN s /\ 3 \in DOMAIN s
        /\ s[1] = d /\ s[2] = d /\ s[3] = "=" /\ m \in {0, 1}
    BY <1>2, <1>3, <2>1
  <2>3. c # d \/ c1 # d \/ c2 # "="
    BY <1>2, <2>1, <2>2
  <2> QED BY <2>2, <2>3 DEF s
<1>8. CASE s = <<".", ".", ".">>
  <2>1. /\ 1 \in DOMAIN s /\ 2 \in DOMAIN s /\ 3 \in DOMAIN s
        /\ s[1] = "." /\ s[2] = "." /\ s[3] = "." /\ m \in {0, 1}
    BY <1>2, <1>3, <1>8
  <2>2. c # "." \/ c1 # "." \/ c2 # "."
    BY <1>2, <2>1
  <2> QED BY <2>1, <2>2 DEF s
<1> QED BY <1>1, <1>4, <1>5, <1>6, <1>7, <1>8, Zenon DEF Forms

(***************************************************************************)
(* Keywords.                                                               *)
(***************************************************************************)
\* The types of the keywords.
KeywordTypes ==
  {"True", "False", "Nil", "Fn", "And", "Or", "Not", "Pub", "Let", "For",
   "In", "If", "Else", "While", "Struct", "Break", "Continue", "Self",
   "Require", "Return", "Yield", "Varargs"}

\* The spellings of the keywords.
LEMMA KeywordTable ==
  /\ DOMAIN Keywords = KeywordTypes
  /\ Keywords["True"] = <<"t", "r", "u", "e">>
  /\ Keywords["False"] = <<"f", "a", "l", "s", "e">>
  /\ Keywords["Nil"] = <<"n", "i", "l">> /\ Keywords["Fn"] = <<"f", "n">>
  /\ Keywords["And"] = <<"a", "n", "d">> /\ Keywords["Or"] = <<"o", "r">>
  /\ Keywords["Not"] = <<"n", "o", "t">>
  /\ Keywords["Pub"] = <<"p", "u", "b">>
  /\ Keywords["Let"] = <<"l", "e", "t">>
  /\ Keywords["For"] = <<"f", "o", "r">> /\ Keywords["In"] = <<"i", "n">>
  /\ Keywords["If"] = <<"i", "f">>
  /\ Keywords["Else"] = <<"e", "l", "s", "e">>
  /\ Keywords["While"] = <<"w", "h", "i", "l", "e">>
  /\ Keywords["Struct"] = <<"s", "t", "r", "u", "c", "t">>
  /\ Keywords["Break"] = <<"b", "r", "e", "a", "k">>
  /\ Keywords["Continue"] = <<"c", "o", "n", "t", "i", "n", "u", "e">>
  /\ Keywords["Self"] = <<"s", "e", "l", "f">>
  /\ Keywords["Require"] = <<"r", "e", "q", "u", "i", "r", "e">>
  /\ Keywords["Return"] = <<"r", "e", "t", "u", "r", "n">>
  /\ Keywords["Yield"] = <<"y", "i", "e", "l", "d">>
  /\ Keywords["Varargs"] = <<"v", "a", "r", "a", "r", "g", "s">>
BY DEF Keywords, KeywordTypes

\* Texts that start alike are the same if what follows is.
LEMMA SameRest ==
  ASSUME NEW S, NEW text \in Seq(S), NEW T, NEW word \in Seq(T), NEW rest \in Seq(T),
         NEW n \in Nat, n <= Len(text), Len(word) = n + Len(rest),
         \A k \in 1 .. n : text[k] = word[k],
         \A k \in 1 .. Len(rest) : word[n + k] = rest[k]
  PROVE  SubSeq(text, n + 1, Len(text)) = rest <=> text = word
<1> DEFINE p == SubSeq(text, n + 1, Len(text))
<1>1. Len(p) = Len(text) - n /\ \A k \in 1 .. Len(text) - n : p[k] = text[n + k]
  BY SubSeqProperties
<1>2. p \in Seq(S)
  BY SubSeqProperties
<1>3. ASSUME text = word PROVE p = rest
  <2>1. Len(p) = Len(rest) /\ \A k \in 1 .. Len(rest) : p[k] = rest[k]
    BY <1>1, <1>3
  <2> HIDE DEF p
  <2>2. p \in Seq(S \cup T) /\ rest \in Seq(S \cup T)
    BY <1>2
  <2> QED BY <2>1, <2>2, SeqEqual
<1>4. ASSUME p = rest PROVE text = word
  <2> HIDE DEF p
  <2>1. Len(text) = Len(word)
    BY <1>1, <1>4
  <2>2. ASSUME NEW k \in 1 .. Len(text) PROVE text[k] = word[k]
    <3>1. CASE k <= n
      BY <3>1
    <3>2. CASE k > n
      <4>1. k - n \in 1 .. Len(text) - n /\ n + (k - n) = k /\ Len(text) - n = Len(rest)
        BY <3>2, <2>1
      <4>2. p[k - n] = text[k] /\ rest[k - n] = word[k]
        BY <1>1, <4>1
      <4> QED BY <1>4, <4>2
    <3> QED BY <3>1, <3>2
  <2>3. text \in Seq(S \cup T) /\ word \in Seq(S \cup T)
    OBVIOUS
  <2> QED BY <2>1, <2>2, <2>3, SeqEqual
<1> QED BY <1>3, <1>4

\* A text that starts like a word, and the rest of that word behind n letters.
Fits(text, S, word, rest, T, n) ==
  /\ text \in Seq(S) /\ word \in Seq(T) /\ rest \in Seq(T)
  /\ n \in Nat /\ n <= Len(text) /\ Len(word) = n + Len(rest)
  /\ \A k \in 1 .. n : text[k] = word[k]
  /\ \A k \in 1 .. Len(rest) : word[n + k] = rest[k]

\* check_keyword asks for the whole word when it asks for the rest of it.
LEMMA WholeWord ==
  ASSUME NEW S, NEW text, NEW T, NEW word, NEW rest, NEW n, NEW type,
         Fits(text, S, word, rest, T, n)
  PROVE  check_keyword(text, n, rest, type) = IF text = word THEN type ELSE "Identifier"
<1>1. SubSeq(text, n + 1, Len(text)) = rest <=> text = word
  BY SameRest DEF Fits
<1> QED BY <1>1, Zenon DEF check_keyword

\* What follows the letters that the switch has looked at is compared with the
\* rest of the only keyword that starts with them.
LEMMA KeywordArms ==
  ASSUME NEW S, NEW text \in Seq(S), Len(text) >= 1
  PROVE
    /\ text[1] = "a" =>
         keyword_or_identifier(text) = IF text = <<"a", "n", "d">> THEN "And" ELSE "Identifier"
    /\ text[1] = "b" =>
         keyword_or_identifier(text) =
           IF text = <<"b", "r", "e", "a", "k">> THEN "Break" ELSE "Identifier"
    /\ text[1] = "c" =>
         keyword_or_identifier(text) =
           IF text = <<"c", "o", "n", "t", "i", "n", "u", "e">> THEN "Continue" ELSE "Identifier"
    /\ text[1] = "e" =>
         keyword_or_identifier(text) = IF text = <<"e", "l", "s", "e">> THEN "Else" ELSE "Identifier"
    /\ text[1] = "f" /\ Len(text) >= 2 /\ text[2] = "a" =>
         keyword_or_identifier(text) =
           IF text = <<"f", "a", "l", "s", "e">> THEN "False" ELSE "Identifier"
    /\ text[1] = "f" /\ Len(text) >= 2 /\ text[2] = "n" =>
         keyword_or_identifier(text) = IF text = <<"f", "n">> THEN "Fn" ELSE "Identifier"
    /\ text[1] = "f" /\ Len(text) >= 2 /\ text[2] = "o" =>
         keyword_or_identifier(text) = IF text = <<"f", "o", "r">> THEN "For" ELSE "Identifier"
    /\ text[1] = "i" /\ Len(text) >= 2 /\ text[2] = "n" =>
         keyword_or_identifier(text) = IF text = <<"i", "n">> THEN "In" ELSE "Identifier"
    /\ text[1] = "i" /\ Len(text) >= 2 /\ text[2] = "f" =>
         keyword_or_identifier(text) = IF text = <<"i", "f">> THEN "If" ELSE "Identifier"
    /\ text[1] = "l" =>
         keyword_or_identifier(text) = IF text = <<"l", "e", "t">> THEN "Let" ELSE "Identifier"
    /\ text[1] = "n" /\ Len(text) >= 2 /\ text[2] = "o" =>
         keyword_or_identifier(text) = IF text = <<"n", "o", "t">> THEN "Not" ELSE "Identifier"
    /\ text[1] = "n" /\ Len(text) >= 2 /\ text[2] = "i" =>
         keyword_or_identifier(text) = IF text = <<"n", "i", "i">> THEN "Nil" ELSE "Identifier"
    /\ text[1] = "o" =>
         keyword_or_identifier(text) = IF text = <<"o", "r">> THEN "Or" ELSE "Identifier"
    /\ text[1] = "p" =>
         keyword_or_identifier(text) = IF text = <<"p", "u", "b">> THEN "Pub" ELSE "Identifier"
    /\ text[1] = "r" /\ Len(text) >= 2 /\ text[2] = "e" /\ Len(text) >= 3 /\ text[3] = "t" =>
         keyword_or_identifier(text) =
           IF text = <<"r", "e", "t", "u", "r", "n">> THEN "Return" ELSE "Identifier"
    /\ text[1] = "r" /\ Len(text) >= 2 /\ text[2] = "e" /\ Len(text) >= 3 /\ text[3] = "q" =>
         keyword_or_identifier(text) =
           IF text = <<"r", "e", "q", "u", "i", "r", "e">> THEN "Require" ELSE "Identifier"
    /\ text[1] = "s" /\ Len(text) >= 2 /\ text[2] = "e" =>
         keyword_or_identifier(text) = IF text = <<"s", "e", "l", "f">> THEN "Self" ELSE "Identifier"
    /\ text[1] = "s" /\ Len(text) >= 2 /\ text[2] = "t" =>
         keyword_or_identifier(text) =
           IF text = <<"s", "t", "r", "u", "c", "t">> THEN "Struct" ELSE "Identifier"
    /\ text[1] = "t" =>
         keyword_or_identifier(text) = IF text = <<"t", "r", "u", "e">> THEN "True" ELSE "Identifier"
    /\ text[1] = "v" =>
         keyword_or_identifier(text) =
           IF text = <<"v", "a", "r", "a", "r", "g", "s">> THEN "Varargs" ELSE "Identifier"
    /\ text[1] = "w" =>
         keyword_or_identifier(text) =
           IF text = <<"w", "h", "i", "l", "e">> THEN "While" ELSE "Identifier"
    /\ text[1] = "y" =>
         keyword_or_identifier(text) =
           IF text = <<"y", "i", "e", "l", "d">> THEN "Yield" ELSE "Identifier"
<1>1. ASSUME text[1] = "a"
      PROVE  keyword_or_identifier(text) = IF text = <<"a", "n", "d">> THEN "And" ELSE "Identifier"
  <2>1. keyword_or_identifier(text) = check_keyword(text, 1, <<"n", "d">>, "And")
    BY <1>1, SMTT(30) DEF keyword_or_identifier
  <2>2. Fits(text, S, <<"a", "n", "d">>, <<"n", "d">>, {"a", "n", "d"}, 1)
    BY <1>1 DEF Fits
  <2>3. check_keyword(text, 1, <<"n", "d">>, "And") =
          IF text = <<"a", "n", "d">> THEN "And" ELSE "Identifier"
    BY <2>2, WholeWord
  <2> QED BY <2>1, <2>3, Zenon
<1>2. ASSUME text[1] = "b"
      PROVE  keyword_or_identifier(text) =
               IF text = <<"b", "r", "e", "a", "k">> THEN "Break" ELSE "Identifier"
  <2>1. keyword_or_identifier(text) = check_keyword(text, 1, <<"r", "e", "a", "k">>, "Break")
    BY <1>2, SMTT(30) DEF keyword_or_identifier
  <2>2. Fits(text, S, <<"b", "r", "e", "a", "k">>, <<"r", "e", "a", "k">>, {"b", "r", "e", "a", "k"}, 1)
    BY <1>2 DEF Fits
  <2>3. check_keyword(text, 1, <<"r", "e", "a", "k">>, "Break") =
          IF text = <<"b", "r", "e", "a", "k">> THEN "Break" ELSE "Identifier"
    BY <2>2, WholeWord
  <2> QED BY <2>1, <2>3, Zenon
<1>3. ASSUME text[1] = "c"
      PROVE  keyword_or_identifier(text) =
               IF text = <<"c", "o", "n", "t", "i", "n", "u", "e">> THEN "Continue" ELSE "Identifier"
  <2>1. keyword_or_identifier(text) =
          check_keyword(text, 1, <<"o", "n", "t", "i", "n", "u", "e">>, "Continue")
    BY <1>3, SMTT(30) DEF keyword_or_identifier
  <2>2. Fits(text, S, <<"c", "o", "n", "t", "i", "n", "u", "e">>,
             <<"o", "n", "t", "i", "n", "u", "e">>, {"c", "o", "n", "t", "i", "u", "e"}, 1)
    BY <1>3 DEF Fits
  <2>3. check_keyword(text, 1, <<"o", "n", "t", "i", "n", "u", "e">>, "Continue") =
          IF text = <<"c", "o", "n", "t", "i", "n", "u", "e">> THEN "Continue" ELSE "Identifier"
    BY <2>2, WholeWord
  <2> QED BY <2>1, <2>3, Zenon
<1>4. ASSUME text[1] = "e"
      PROVE  keyword_or_identifier(text) =
               IF text = <<"e", "l", "s", "e">> THEN "Else" ELSE "Identifier"
  <2>1. keyword_or_identifier(text) = check_keyword(text, 1, <<"l", "s", "e">>, "Else")
    BY <1>4, SMTT(30) DEF keyword_or_identifier
  <2>2. Fits(text, S, <<"e", "l", "s", "e">>, <<"l", "s", "e">>, {"e", "l", "s"}, 1)
    BY <1>4 DEF Fits
  <2>3. check_keyword(text, 1, <<"l", "s", "e">>, "Else") =
          IF text = <<"e", "l", "s", "e">> THEN "Else" ELSE "Identifier"
    BY <2>2, WholeWord
  <2> QED BY <2>1, <2>3, Zenon
<1>5. ASSUME text[1] = "f" /\ Len(text) >= 2 /\ text[2] = "a"
      PROVE  keyword_or_identifier(text) =
               IF text = <<"f", "a", "l", "s", "e">> THEN "False" ELSE "Identifier"
  <2>1. keyword_or_identifier(text) = check_keyword(text, 2, <<"l", "s", "e">>, "False")
    BY <1>5, SMTT(30) DEF keyword_or_identifier
  <2>2. Fits(text, S, <<"f", "a", "l", "s", "e">>, <<"l", "s", "e">>, {"f", "a", "l", "s", "e"}, 2)
    BY <1>5 DEF Fits
  <2>3. check_keyword(text, 2, <<"l", "s", "e">>, "False") =
          IF text = <<"f", "a", "l", "s", "e">> THEN "False" ELSE "Identifier"
    BY <2>2, WholeWord
  <2> QED BY <2>1, <2>3, Zenon
<1>6. ASSUME text[1] = "f" /\ Len(text) >= 2 /\ text[2] = "n"
      PROVE  keyword_or_identifier(text) = IF text = <<"f", "n">> THEN "Fn" ELSE "Identifier"
  <2>1. keyword_or_identifier(text) = check_keyword(text, 2, <<>>, "Fn")
    BY <1>6, SMTT(30) DEF keyword_or_identifier
  <2>2. Fits(text, S, <<"f", "n">>, <<>>, {"f", "n"}, 2)
    BY <1>6 DEF Fits
  <2>3. check_keyword(text, 2, <<>>, "Fn") =
          IF text = <<"f", "n">> THEN "Fn" ELSE "Identifier"
    BY <2>2, WholeWord
  <2> QED BY <2>1, <2>3, Zenon
<1>7. ASSUME text[1] = "f" /\ Len(text) >= 2 /\ text[2] = "o"
      PROVE  keyword_or_identifier(text) = IF text = <<"f", "o", "r">> THEN "For" ELSE "Identifier"
  <2>1. keyword_or_identifier(text) = check_keyword(text, 2, <<"r">>, "For")
    BY <1>7, SMTT(30) DEF keyword_or_identifier
  <2>2. Fits(text, S, <<"f", "o", "r">>, <<"r">>, {"f", "o", "r"}, 2)
    BY <1>7 DEF Fits
  <2>3. check_keyword(text, 2, <<"r">>, "For") =
          IF text = <<"f", "o", "r">> THEN "For" ELSE "Identifier"
    BY <2>2, WholeWord
  <2> QED BY <2>1, <2>3, Zenon
<1>8. ASSUME text[1] = "i" /\ Len(text) >= 2 /\ text[2] = "n"
      PROVE  keyword_or_identifier(text) = IF text = <<"i", "n">> THEN "In" ELSE "Identifier"
  <2>1. keyword_or_identifier(text) = check_keyword(text, 2, <<>>, "In")
    BY <1>8, SMTT(30) DEF keyword_or_identifier
  <2>2. Fits(text, S, <<"i", "n">>, <<>>, {"i", "n"}, 2)
    BY <1>8 DEF Fits
  <2>3. check_keyword(text, 2, <<>>, "In") =
          IF text = <<"i", "n">> THEN "In" ELSE "Identifier"
    BY <2>2, WholeWord
  <2> QED BY <2>1, <2>3, Zenon
<1>9. ASSUME text[1] = "i" /\ Len(text) >= 2 /\ text[2] = "f"
      PROVE  keyword_or_identifier(text) = IF text = <<"i", "f">> THEN "If" ELSE "Identifier"
  <2>1. keyword_or_identifier(text) = check_keyword(text, 2, <<>>, "If")
    BY <1>9, SMTT(30) DEF keyword_or_identifier
  <2>2. Fits(text, S, <<"i", "f">>, <<>>, {"i", "f"}, 2)
    BY <1>9 DEF Fits
  <2>3. check_keyword(text, 2, <<>>, "If") =
          IF text = <<"i", "f">> THEN "If" ELSE "Identifier"
    BY <2>2, WholeWord
  <2> QED BY <2>1, <2>3, Zenon
<1>10. ASSUME text[1] = "l"
      PROVE  keyword_or_identifier(text) = IF text = <<"l", "e", "t">> THEN "Let" ELSE "Identifier"
  <2>1. keyword_or_identifier(text) = check_keyword(text, 1, <<"e", "t">>, "Let")
    BY <1>10, SMTT(30) DEF keyword_or_identifier
  <2>2. Fits(text, S, <<"l", "e", "t">>, <<"e", "t">>, {"l", "e", "t"}, 1)
    BY <1>10 DEF Fits
  <2>3. check_keyword(text, 1, <<"e", "t">>, "Let") =
          IF text = <<"l", "e", "t">> THEN "Let" ELSE "Identifier"
    BY <2>2, WholeWord
  <2> QED BY <2>1, <2>3, Zenon
<1>11. ASSUME text[1] = "n" /\ Len(text) >= 2 /\ text[2] = "o"
      PROVE  keyword_or_identifier(text) = IF text = <<"n", "o", "t">> THEN "Not" ELSE "Identifier"
  <2>1. keyword_or_identifier(text) = check_keyword(text, 2, <<"t">>, "Not")
    BY <1>11, SMTT(30) DEF keyword_or_identifier
  <2>2. Fits(text, S, <<"n", "o", "t">>, <<"t">>, {"n", "o", "t"}, 2)
    BY <1>11 DEF Fits
  <2>3. check_keyword(text, 2, <<"t">>, "Not") =
          IF text = <<"n", "o", "t">> THEN "Not" ELSE "Identifier"
    BY <2>2, WholeWord
  <2> QED BY <2>1, <2>3, Zenon
<1>12. ASSUME text[1] = "n" /\ Len(text) >= 2 /\ text[2] = "i"
      PROVE  keyword_or_identifier(text) = IF text = <<"n", "i", "i">> THEN "Nil" ELSE "Identifier"
  <2>1. keyword_or_identifier(text) = check_keyword(text, 2, <<"i">>, "Nil")
    BY <1>12, SMTT(30) DEF keyword_or_identifier
  <2>2. Fits(text, S, <<"n", "i", "i">>, <<"i">>, {"n", "i"}, 2)
    BY <1>12 DEF Fits
  <2>3. check_keyword(text, 2, <<"i">>, "Nil") =
          IF text = <<"n", "i", "i">> THEN "Nil" ELSE "Identifier"
    BY <2>2, WholeWord
  <2> QED BY <2>1, <2>3, Zenon
<1>13. ASSUME text[1] = "o"
      PROVE  keyword_or_identifier(text) = IF text = <<"o", "r">> THEN "Or" ELSE "Identifier"
  <2>1. keyword_or_identifier(text) = check_keyword(text, 1, <<"r">>, "Or")
    BY <1>13, SMTT(30) DEF keyword_or_identifier
  <2>2. Fits(text, S, <<"o", "r">>, <<"r">>, {"o", "r"}, 1)
    BY <1>13 DEF Fits
  <2>3. check_keyword(text, 1, <<"r">>, "Or") =
          IF text = <<"o", "r">> THEN "Or" ELSE "Identifier"
    BY <2>2, WholeWord
  <2> QED BY <2>1, <2>3, Zenon
<1>14. ASSUME text[1] = "p"
      PROVE  keyword_or_identifier(text) = IF text = <<"p", "u", "b">> THEN "Pub" ELSE "Identifier"
  <2>1. keyword_or_identifier(text) = check_keyword(text, 1, <<"u", "b">>, "Pub")
    BY <1>14, SMTT(30) DEF keyword_or_identifier
  <2>2. Fits(text, S, <<"p", "u", "b">>, <<"u", "b">>, {"p", "u", "b"}, 1)
    BY <1>14 DEF Fits
  <2>3. check_keyword(text, 1, <<"u", "b">>, "Pub") =
          IF text = <<"p", "u", "b">> THEN "Pub" ELSE "Identifier"
    BY <2>2, WholeWord
  <2> QED BY <2>1, <2>3, Zenon
<1>15. ASSUME text[1] = "r" /\ Len(text) >= 2 /\ text[2] = "e" /\ Len(text) >= 3 /\ text[3] = "t"
      PROVE  keyword_or_identifier(text) =
               IF text = <<"r", "e", "t", "u", "r", "n">> THEN "Return" ELSE "Identifier"
  <2>1. keyword_or_identifier(text) = check_keyword(text, 3, <<"u", "r", "n">>, "Return")
    BY <1>15, SMTT(30) DEF keyword_or_identifier
  <2>2. Fits(text, S, <<"r", "e", "t", "u", "r", "n">>, <<"u", "r", "n">>, {"r", "e", "t", "u", "n"}, 3)
    BY <1>15 DEF Fits
  <2>3. check_keyword(text, 3, <<"u", "r", "n">>, "Return") =
          IF text = <<"r", "e", "t", "u", "r", "n">> THEN "Return" ELSE "Identifier"
    BY <2>2, WholeWord
  <2> QED BY <2>1, <2>3, Zenon
<1>16. ASSUME text[1] = "r" /\ Len(text) >= 2 /\ text[2] = "e" /\ Len(text) >= 3 /\ text[3] = "q"
      PROVE  keyword_or_identifier(text) =
               IF text = <<"r", "e", "q", "u", "i", "r", "e">> THEN "Require" ELSE "Identifier"
  <2>1. keyword_or_identifier(text) = check_keyword(text, 3, <<"u", "i", "r", "e">>, "Require")
    BY <1>16, SMTT(30) DEF keyword_or_identifier
  <2>2. Fits(text, S, <<"r", "e", "q", "u", "i", "r", "e">>, <<"u", "i", "r", "e">>,
             {"r", "e", "q", "u", "i"}, 3)
    BY <1>16 DEF Fits
  <2>3. check_keyword(text, 3, <<"u", "i", "r", "e">>, "Require") =
          IF text = <<"r", "e", "q", "u", "i", "r", "e">> THEN "Require" ELSE "Identifier"
    BY <2>2, WholeWord
  <2> QED BY <2>1, <2>3, Zenon
<1>17. ASSUME text[1] = "s" /\ Len(text) >= 2 /\ text[2] = "e"
      PROVE  keyword_or_identifier(text) =
               IF text = <<"s", "e", "l", "f">> THEN "Self" ELSE "Identifier"
  <2>1. keyword_or_identifier(text) = check_keyword(text, 2, <<"l", "f">>, "Self")
    BY <1>17, SMTT(30) DEF keyword_or_identifier
  <2>2. Fits(text, S, <<"s", "e", "l", "f">>, <<"l", "f">>, {"s", "e", "l", "f"}, 2)
    BY <1>17 DEF Fits
  <2>3. check_keyword(text, 2, <<"l", "f">>, "Self") =
          IF text = <<"s", "e", "l", "f">> THEN "Self" ELSE "Identifier"
    BY <2>2, WholeWord
  <2> QED BY <2>1, <2>3, Zenon
<1>18. ASSUME text[1] = "s" /\ Len(text) >= 2 /\ text[2] = "t"
      PROVE  keyword_or_identifier(text) =
               IF text = <<"s", "t", "r", "u", "c", "t">> THEN "Struct" ELSE "Identifier"
  <2>1. keyword_or_identifier(text) = check_keyword(text, 2, <<"r", "u", "c", "t">>, "Struct")
    BY <1>18, SMTT(30) DEF keyword_or_identifier
  <2>2. Fits(text, S, <<"s", "t", "r", "u", "c", "t">>, <<"r", "u", "c", "t">>,
             {"s", "t", "r", "u", "c"}, 2)
    BY <1>18 DEF Fits
  <2>3. check_keyword(text, 2, <<"r", "u", "c", "t">>, "Struct") =
          IF text = <<"s", "t", "r", "u", "c", "t">> THEN "Struct" ELSE "Identifier"
    BY <2>2, WholeWord
  <2> QED BY <2>1, <2>3, Zenon
<1>19. ASSUME text[1] = "t"
      PROVE  keyword_or_identifier(text) =
               IF text = <<"t", "r", "u", "e">> THEN "True" ELSE "Identifier"
  <2>1. keyword_or_identifier(text) = check_keyword(text, 1, <<"r", "u", "e">>, "True")
    BY <1>19, SMTT(30) DEF keyword_or_identifier
  <2>2. Fits(text, S, <<"t", "r", "u", "e">>, <<"r", "u", "e">>, {"t", "r", "u", "e"}, 1)
    BY <1>19 DEF Fits
  <2>3. check_keyword(text, 1, <<"r", "u", "e">>, "True") =
          IF text = <<"t", "r", "u", "e">> THEN "True" ELSE "Identifier"
    BY <2>2, WholeWord
  <2> QED BY <2>1, <2>3, Zenon
<1>20. ASSUME text[1] = "v"
      PROVE  keyword_or_identifier(text) =
               IF text = <<"v", "a", "r", "a", "r", "g", "s">> THEN "Varargs" ELSE "Identifier"
  <2>1. keyword_or_identifier(text) = check_keyword(text, 1, <<"a", "r", "a", "r", "g", "s">>,
                              "Varargs")
    BY <1>20, SMTT(30) DEF keyword_or_identifier
  <2>2. Fits(text, S, <<"v", "a", "r", "a", "r", "g", "s">>, <<"a", "r", "a", "r", "g", "s">>,
             {"v", "a", "r", "g", "s"}, 1)
    BY <1>20 DEF Fits
  <2>3. check_keyword(text, 1, <<"a", "r", "a", "r", "g", "s">>, "Varargs") =
          IF text = <<"v", "a", "r", "a", "r", "g", "s">> THEN "Varargs" ELSE "Identifier"
    BY <2>2, WholeWord
  <2> QED BY <2>1, <2>3, Zenon
<1>21. ASSUME text[1] = "w"
      PROVE  keyword_or_identifier(text) =
               IF text = <<"w", "h", "i", "l", "e">> THEN "While" ELSE "Identifier"
  <2>1. keyword_or_identifier(text) = check_keyword(text, 1, <<"h", "i", "l", "e">>, "While")
    BY <1>21, SMTT(30) DEF keyword_or_identifier
  <2>2. Fits(text, S, <<"w", "h", "i", "l", "e">>, <<"h", "i", "l", "e">>, {"w", "h", "i", "l", "e"}, 1)
    BY <1>21 DEF Fits
  <2>3. check_keyword(text, 1, <<"h", "i", "l", "e">>, "While") =
          IF text = <<"w", "h", "i", "l", "e">> THEN "While" ELSE "Identifier"
    BY <2>2, WholeWord
  <2> QED BY <2>1, <2>3, Zenon
<1>22. ASSUME text[1] = "y"
      PROVE  keyword_or_identifier(text) =
               IF text = <<"y", "i", "e", "l", "d">> THEN "Yield" ELSE "Identifier"
  <2>1. keyword_or_identifier(text) = check_keyword(text, 1, <<"i", "e", "l", "d">>, "Yield")
    BY <1>22, SMTT(30) DEF keyword_or_identifier
  <2>2. Fits(text, S, <<"y", "i", "e", "l", "d">>, <<"i", "e", "l", "d">>, {"y", "i", "e", "l", "d"}, 1)
    BY <1>22 DEF Fits
  <2>3. check_keyword(text, 1, <<"i", "e", "l", "d">>, "Yield") =
          IF text = <<"y", "i", "e", "l", "d">> THEN "Yield" ELSE "Identifier"
    BY <2>2, WholeWord
  <2> QED BY <2>1, <2>3, Zenon
<1> QED BY <1>1, <1>2, <1>3, <1>4, <1>5, <1>6, <1>7, <1>8, <1>9, <1>10, <1>11, <1>12, <1>13,
           <1>14, <1>15, <1>16, <1>17, <1>18, <1>19, <1>20, <1>21, <1>22, Zenon

\* A text that the switch has no keyword for is a name.
LEMMA NoArm ==
  ASSUME NEW S, NEW text \in Seq(S), Len(text) >= 1,
         ~(text[1] = "a"),
         ~(text[1] = "b"),
         ~(text[1] = "c"),
         ~(text[1] = "e"),
         ~(text[1] = "f" /\ Len(text) >= 2 /\ text[2] = "a"),
         ~(text[1] = "f" /\ Len(text) >= 2 /\ text[2] = "n"),
         ~(text[1] = "f" /\ Len(text) >= 2 /\ text[2] = "o"),
         ~(text[1] = "i" /\ Len(text) >= 2 /\ text[2] = "n"),
         ~(text[1] = "i" /\ Len(text) >= 2 /\ text[2] = "f"),
         ~(text[1] = "l"),
         ~(text[1] = "n" /\ Len(text) >= 2 /\ text[2] = "o"),
         ~(text[1] = "n" /\ Len(text) >= 2 /\ text[2] = "i"),
         ~(text[1] = "o"),
         ~(text[1] = "p"),
         ~(text[1] = "r" /\ Len(text) >= 2 /\ text[2] = "e" /\ Len(text) >= 3 /\ text[3] = "t"),
         ~(text[1] = "r" /\ Len(text) >= 2 /\ text[2] = "e" /\ Len(text) >= 3 /\ text[3] = "q"),
         ~(text[1] = "s" /\ Len(text) >= 2 /\ text[2] = "e"),
         ~(text[1] = "s" /\ Len(text) >= 2 /\ text[2] = "t"),
         ~(text[1] = "t"),
         ~(text[1] = "v"),
         ~(text[1] = "w"),
         ~(text[1] = "y")
  PROVE  keyword_or_identifier(text) = "Identifier"
BY SMTT(60) DEF keyword_or_identifier

\* A name gets the type of a keyword only if it is spelt like that keyword.  The
\* code looks for "nii" where the keyword is "nil".
LEMMA KeywordsAreSpelt ==
  ASSUME NEW S, NEW text \in Seq(S), Len(text) >= 1
  PROVE  \/ keyword_or_identifier(text) = "Identifier"
         \/ /\ keyword_or_identifier(text) \in KeywordTypes \ {"Nil"}
            /\ text = Keywords[keyword_or_identifier(text)]
         \/ keyword_or_identifier(text) = "Nil" /\ text = <<"n", "i", "i">>
<1> DEFINE kw == keyword_or_identifier(text)
           Right == \/ kw = "Identifier"
                    \/ kw \in KeywordTypes \ {"Nil"} /\ text = Keywords[kw]
                    \/ kw = "Nil" /\ text = <<"n", "i", "i">>
<1> SUFFICES Right
  BY Zenon
<1>1. CASE text[1] = "a"
  <2>1. kw = IF text = <<"a", "n", "d">> THEN "And" ELSE "Identifier"
    BY <1>1, KeywordArms
  <2>2. Keywords["And"] = <<"a", "n", "d">> /\ "And" \in KeywordTypes \ {"Nil"}
    BY KeywordTable DEF KeywordTypes
  <2> HIDE DEF kw
  <2> QED BY <2>1, <2>2
<1>2. CASE text[1] = "b"
  <2>1. kw = IF text = <<"b", "r", "e", "a", "k">> THEN "Break" ELSE "Identifier"
    BY <1>2, KeywordArms
  <2>2. Keywords["Break"] = <<"b", "r", "e", "a", "k">> /\ "Break" \in KeywordTypes \ {"Nil"}
    BY KeywordTable DEF KeywordTypes
  <2> HIDE DEF kw
  <2> QED BY <2>1, <2>2
<1>3. CASE text[1] = "c"
  <2>1. kw = IF text = <<"c", "o", "n", "t", "i", "n", "u", "e">> THEN "Continue" ELSE "Identifier"
    BY <1>3, KeywordArms
  <2>2. Keywords["Continue"] = <<"c", "o", "n", "t", "i", "n", "u", "e">>
          /\ "Continue" \in KeywordTypes \ {"Nil"}
    BY KeywordTable DEF KeywordTypes
  <2> HIDE DEF kw
  <2> QED BY <2>1, <2>2
<1>4. CASE text[1] = "e"
  <2>1. kw = IF text = <<"e", "l", "s", "e">> THEN "Else" ELSE "Identifier"
    BY <1>4, KeywordArms
  <2>2. Keywords["Else"] = <<"e", "l", "s", "e">> /\ "Else" \in KeywordTypes \ {"Nil"}
    BY KeywordTable DEF KeywordTypes
  <2> HIDE DEF kw
  <2> QED BY <2>1, <2>2
<1>5. CASE text[1] = "f" /\ Len(text) >= 2 /\ text[2] = "a"
  <2>1. kw = IF text = <<"f", "a", "l", "s", "e">> THEN "False" ELSE "Identifier"
    BY <1>5, KeywordArms
  <2>2. Keywords["False"] = <<"f", "a", "l", "s", "e">> /\ "False" \in KeywordTypes \ {"Nil"}
    BY KeywordTable DEF KeywordTypes
  <2> HIDE DEF kw
  <2> QED BY <2>1, <2>2
<1>6. CASE text[1] = "f" /\ Len(text) >= 2 /\ text[2] = "n"
  <2>1. kw = IF text = <<"f", "n">> THEN "Fn" ELSE "Identifier"
    BY <1>6, KeywordArms
  <2>2. Keywords["Fn"] = <<"f", "n">> /\ "Fn" \in KeywordTypes \ {"Nil"}
    BY KeywordTable DEF KeywordTypes
  <2> HIDE DEF kw
  <2> QED BY <2>1, <2>2
<1>7. CASE text[1] = "f" /\ Len(text) >= 2 /\ text[2] = "o"
  <2>1. kw = IF text = <<"f", "o", "r">> THEN "For" ELSE "Identifier"
    BY <1>7, KeywordArms
  <2>2. Keywords["For"] = <<"f", "o", "r">> /\ "For" \in KeywordTypes \ {"Nil"}
    BY KeywordTable DEF KeywordTypes
  <2> HIDE DEF kw
  <2> QED BY <2>1, <2>2
<1>8. CASE text[1] = "i" /\ Len(text) >= 2 /\ text[2] = "n"
  <2>1. kw = IF text = <<"i", "n">> THEN "In" ELSE "Identifier"
    BY <1>8, KeywordArms
  <2>2. Keywords["In"] = <<"i", "n">> /\ "In" \in KeywordTypes \ {"Nil"}
    BY KeywordTable DEF KeywordTypes
  <2> HIDE DEF kw
  <2> QED BY <2>1, <2>2
<1>9. CASE text[1] = "i" /\ Len(text) >= 2 /\ text[2] = "f"
  <2>1. kw = IF text = <<"i", "f">> THEN "If" ELSE "Identifier"
    BY <1>9, KeywordArms
  <2>2. Keywords["If"] = <<"i", "f">> /\ "If" \in KeywordTypes \ {"Nil"}
    BY KeywordTable DEF KeywordTypes
  <2> HIDE DEF kw
  <2> QED BY <2>1, <2>2
<1>10. CASE text[1] = "l"
  <2>1. kw = IF text = <<"l", "e", "t">> THEN "Let" ELSE "Identifier"
    BY <1>10, KeywordArms
  <2>2. Keywords["Let"] = <<"l", "e", "t">> /\ "Let" \in KeywordTypes \ {"Nil"}
    BY KeywordTable DEF KeywordTypes
  <2> HIDE DEF kw
  <2> QED BY <2>1, <2>2
<1>11. CASE text[1] = "n" /\ Len(text) >= 2 /\ text[2] = "o"
  <2>1. kw = IF text = <<"n", "o", "t">> THEN "Not" ELSE "Identifier"
    BY <1>11, KeywordArms
  <2>2. Keywords["Not"] = <<"n", "o", "t">> /\ "Not" \in KeywordTypes \ {"Nil"}
    BY KeywordTable DEF KeywordTypes
  <2> HIDE DEF kw
  <2> QED BY <2>1, <2>2
<1>12. CASE text[1] = "n" /\ Len(text) >= 2 /\ text[2] = "i"
  <2>1. kw = IF text = <<"n", "i", "i">> THEN "Nil" ELSE "Identifier"
    BY <1>12, KeywordArms
  <2> HIDE DEF kw
  <2> QED BY <2>1
<1>13. CASE text[1] = "o"
  <2>1. kw = IF text = <<"o", "r">> THEN "Or" ELSE "Identifier"
    BY <1>13, KeywordArms
  <2>2. Keywords["Or"] = <<"o", "r">> /\ "Or" \in KeywordTypes \ {"Nil"}
    BY KeywordTable DEF KeywordTypes
  <2> HIDE DEF kw
  <2> QED BY <2>1, <2>2
<1>14. CASE text[1] = "p"
  <2>1. kw = IF text = <<"p", "u", "b">> THEN "Pub" ELSE "Identifier"
    BY <1>14, KeywordArms
  <2>2. Keywords["Pub"] = <<"p", "u", "b">> /\ "Pub" \in KeywordTypes \ {"Nil"}
    BY KeywordTable DEF KeywordTypes
  <2> HIDE DEF kw
  <2> QED BY <2>1, <2>2
<1>15. CASE text[1] = "r" /\ Len(text) >= 2 /\ text[2] = "e" /\ Len(text) >= 3 /\ text[3] = "t"
  <2>1. kw = IF text = <<"r", "e", "t", "u", "r", "n">> THEN "Return" ELSE "Identifier"
    BY <1>15, KeywordArms
  <2>2. Keywords["Return"] = <<"r", "e", "t", "u", "r", "n">> /\ "Return" \in KeywordTypes \ {"Nil"}
    BY KeywordTable DEF KeywordTypes
  <2> HIDE DEF kw
  <2> QED BY <2>1, <2>2
<1>16. CASE text[1] = "r" /\ Len(text) >= 2 /\ text[2] = "e" /\ Len(text) >= 3 /\ text[3] = "q"
  <2>1. kw = IF text = <<"r", "e", "q", "u", "i", "r", "e">> THEN "Require" ELSE "Identifier"
    BY <1>16, KeywordArms
  <2>2. Keywords["Require"] = <<"r", "e", "q", "u", "i", "r", "e">>
          /\ "Require" \in KeywordTypes \ {"Nil"}
    BY KeywordTable DEF KeywordTypes
  <2> HIDE DEF kw
  <2> QED BY <2>1, <2>2
<1>17. CASE text[1] = "s" /\ Len(text) >= 2 /\ text[2] = "e"
  <2>1. kw = IF text = <<"s", "e", "l", "f">> THEN "Self" ELSE "Identifier"
    BY <1>17, KeywordArms
  <2>2. Keywords["Self"] = <<"s", "e", "l", "f">> /\ "Self" \in KeywordTypes \ {"Nil"}
    BY KeywordTable DEF KeywordTypes
  <2> HIDE DEF kw
  <2> QED BY <2>1, <2>2
<1>18. CASE text[1] = "s" /\ Len(text) >= 2 /\ text[2] = "t"
  <2>1. kw = IF text = <<"s", "t", "r", "u", "c", "t">> THEN "Struct" ELSE "Identifier"
    BY <1>18, KeywordArms
  <2>2. Keywords["Struct"] = <<"s", "t", "r", "u", "c", "t">> /\ "Struct" \in KeywordTypes \ {"Nil"}
    BY KeywordTable DEF KeywordTypes
  <2> HIDE DEF kw
  <2> QED BY <2>1, <2>2
<1>19. CASE text[1] = "t"
  <2>1. kw = IF text = <<"t", "r", "u", "e">> THEN "True" ELSE "Identifier"
    BY <1>19, KeywordArms
  <2>2. Keywords["True"] = <<"t", "r", "u", "e">> /\ "True" \in KeywordTypes \ {"Nil"}
    BY KeywordTable DEF KeywordTypes
  <2> HIDE DEF kw
  <2> QED BY <2>1, <2>2
<1>20. CASE text[1] = "v"
  <2>1. kw = IF text = <<"v", "a", "r", "a", "r", "g", "s">> THEN "Varargs" ELSE "Identifier"
    BY <1>20, KeywordArms
  <2>2. Keywords["Varargs"] = <<"v", "a", "r", "a", "r", "g", "s">>
          /\ "Varargs" \in KeywordTypes \ {"Nil"}
    BY KeywordTable DEF KeywordTypes
  <2> HIDE DEF kw
  <2> QED BY <2>1, <2>2
<1>21. CASE text[1] = "w"
  <2>1. kw = IF text = <<"w", "h", "i", "l", "e">> THEN "While" ELSE "Identifier"
    BY <1>21, KeywordArms
  <2>2. Keywords["While"] = <<"w", "h", "i", "l", "e">> /\ "While" \in KeywordTypes \ {"Nil"}
    BY KeywordTable DEF KeywordTypes
  <2> HIDE DEF kw
  <2> QED BY <2>1, <2>2
<1>22. CASE text[1] = "y"
  <2>1. kw = IF text = <<"y", "i", "e", "l", "d">> THEN "Yield" ELSE "Identifier"
    BY <1>22, KeywordArms
  <2>2. Keywords["Yield"] = <<"y", "i", "e", "l", "d">> /\ "Yield" \in KeywordTypes \ {"Nil"}
    BY KeywordTable DEF KeywordTypes
  <2> HIDE DEF kw
  <2> QED BY <2>1, <2>2
<1>23. CASE /\ ~(text[1] = "a")
          /\ ~(text[1] = "b")
          /\ ~(text[1] = "c")
          /\ ~(text[1] = "e")
          /\ ~(text[1] = "f" /\ Len(text) >= 2 /\ text[2] = "a")
          /\ ~(text[1] = "f" /\ Len(text) >= 2 /\ text[2] = "n")
          /\ ~(text[1] = "f" /\ Len(text) >= 2 /\ text[2] = "o")
          /\ ~(text[1] = "i" /\ Len(text) >= 2 /\ text[2] = "n")
          /\ ~(text[1] = "i" /\ Len(text) >= 2 /\ text[2] = "f")
          /\ ~(text[1] = "l")
          /\ ~(text[1] = "n" /\ Len(text) >= 2 /\ text[2] = "o")
          /\ ~(text[1] = "n" /\ Len(text) >= 2 /\ text[2] = "i")
          /\ ~(text[1] = "o")
          /\ ~(text[1] = "p")
          /\ ~(text[1] = "r" /\ Len(text) >= 2 /\ text[2] = "e" /\ Len(text) >= 3 /\ text[3] = "t")
          /\ ~(text[1] = "r" /\ Len(text) >= 2 /\ text[2] = "e" /\ Len(text) >= 3 /\ text[3] = "q")
          /\ ~(text[1] = "s" /\ Len(text) >= 2 /\ text[2] = "e")
          /\ ~(text[1] = "s" /\ Len(text) >= 2 /\ text[2] = "t")
          /\ ~(text[1] = "t")
          /\ ~(text[1] = "v")
          /\ ~(text[1] = "w")
          /\ ~(text[1] = "y")
  BY <1>23, NoArm
<1> HIDE DEF kw
<1> QED BY <1>1, <1>2, <1>3, <1>4, <1>5, <1>6, <1>7, <1>8, <1>9, <1>10, <1>11, <1>12, <1>13,
           <1>14, <1>15, <1>16, <1>17, <1>18, <1>19, <1>20, <1>21, <1>22, <1>23, Zenon

\* Every keyword but nil is recognised.
LEMMA KeywordsAreFound ==
  ASSUME NEW S, NEW text \in Seq(S), Len(text) >= 1
  PROVE  \A w \in KeywordTypes \ {"Nil"} :
           text = Keywords[w] => keyword_or_identifier(text) = w
<1> DEFINE kw == keyword_or_identifier(text)
           Found(w) == text = Keywords[w] => kw = w
<1>1. Found("And")
  <2>1. text = Keywords["And"] => text = <<"a", "n", "d">> /\ text[1] = "a"
    BY KeywordTable
  <2>2. text[1] = "a" => kw = IF text = <<"a", "n", "d">> THEN "And" ELSE "Identifier"
    BY KeywordArms
  <2> HIDE DEF kw
  <2> QED BY <2>1, <2>2
<1>2. Found("Break")
  <2>1. text = Keywords["Break"] => text = <<"b", "r", "e", "a", "k">> /\ text[1] = "b"
    BY KeywordTable
  <2>2. text[1] = "b" => kw = IF text = <<"b", "r", "e", "a", "k">> THEN "Break" ELSE "Identifier"
    BY KeywordArms
  <2> HIDE DEF kw
  <2> QED BY <2>1, <2>2
<1>3. Found("Continue")
  <2>1. text = Keywords["Continue"]
          => text = <<"c", "o", "n", "t", "i", "n", "u", "e">> /\ text[1] = "c"
    BY KeywordTable
  <2>2. text[1] = "c"
          => kw = IF text = <<"c", "o", "n", "t", "i", "n", "u", "e">> THEN "Continue" ELSE "Identifier"
    BY KeywordArms
  <2> HIDE DEF kw
  <2> QED BY <2>1, <2>2
<1>4. Found("Else")
  <2>1. text = Keywords["Else"] => text = <<"e", "l", "s", "e">> /\ text[1] = "e"
    BY KeywordTable
  <2>2. text[1] = "e" => kw = IF text = <<"e", "l", "s", "e">> THEN "Else" ELSE "Identifier"
    BY KeywordArms
  <2> HIDE DEF kw
  <2> QED BY <2>1, <2>2
<1>5. Found("False")
  <2>1. text = Keywords["False"]
          => text = <<"f", "a", "l", "s", "e">> /\ text[1] = "f" /\ Len(text) >= 2 /\ text[2] = "a"
    BY KeywordTable
  <2>2. text[1] = "f" /\ Len(text) >= 2 /\ text[2] = "a"
          => kw = IF text = <<"f", "a", "l", "s", "e">> THEN "False" ELSE "Identifier"
    BY KeywordArms
  <2> HIDE DEF kw
  <2> QED BY <2>1, <2>2
<1>6. Found("Fn")
  <2>1. text = Keywords["Fn"] => text = <<"f", "n">> /\ text[1] = "f" /\ Len(text) >= 2 /\ text[2] = "n"
    BY KeywordTable
  <2>2. text[1] = "f" /\ Len(text) >= 2 /\ text[2] = "n"
          => kw = IF text = <<"f", "n">> THEN "Fn" ELSE "Identifier"
    BY KeywordArms
  <2> HIDE DEF kw
  <2> QED BY <2>1, <2>2
<1>7. Found("For")
  <2>1. text = Keywords["For"]
          => text = <<"f", "o", "r">> /\ text[1] = "f" /\ Len(text) >= 2 /\ text[2] = "o"
    BY KeywordTable
  <2>2. text[1] = "f" /\ Len(text) >= 2 /\ text[2] = "o"
          => kw = IF text = <<"f", "o", "r">> THEN "For" ELSE "Identifier"
    BY KeywordArms
  <2> HIDE DEF kw
  <2> QED BY <2>1, <2>2
<1>8. Found("In")
  <2>1. text = Keywords["In"] => text = <<"i", "n">> /\ text[1] = "i" /\ Len(text) >= 2 /\ text[2] = "n"
    BY KeywordTable
  <2>2. text[1] = "i" /\ Len(text) >= 2 /\ text[2] = "n"
          => kw = IF text = <<"i", "n">> THEN "In" ELSE "Identifier"
    BY KeywordArms
  <2> HIDE DEF kw
  <2> QED BY <2>1, <2>2
<1>9. Found("If")
  <2>1. text = Keywords["If"] => text = <<"i", "f">> /\ text[1] = "i" /\ Len(text) >= 2 /\ text[2] = "f"
    BY KeywordTable
  <2>2. text[1] = "i" /\ Len(text) >= 2 /\ text[2] = "f"
          => kw = IF text = <<"i", "f">> THEN "If" ELSE "Identifier"
    BY KeywordArms
  <2> HIDE DEF kw
  <2> QED BY <2>1, <2>2
<1>10. Found("Let")
  <2>1. text = Keywords["Let"] => text = <<"l", "e", "t">> /\ text[1] = "l"
    BY KeywordTable
  <2>2. text[1] = "l" => kw = IF text = <<"l", "e", "t">> THEN "Let" ELSE "Identifier"
    BY KeywordArms
  <2> HIDE DEF kw
  <2> QED BY <2>1, <2>2
<1>11. Found("Not")
  <2>1. text = Keywords["Not"]
          => text = <<"n", "o", "t">> /\ text[1] = "n" /\ Len(text) >= 2 /\ text[2] = "o"
    BY KeywordTable
  <2>2. text[1] = "n" /\ Len(text) >= 2 /\ text[2] = "o"
          => kw = IF text = <<"n", "o", "t">> THEN "Not" ELSE "Identifier"
    BY KeywordArms
  <2> HIDE DEF kw
  <2> QED BY <2>1, <2>2
<1>12. Found("Or")
  <2>1. text = Keywords["Or"] => text = <<"o", "r">> /\ text[1] = "o"
    BY KeywordTable
  <2>2. text[1] = "o" => kw = IF text = <<"o", "r">> THEN "Or" ELSE "Identifier"
    BY KeywordArms
  <2> HIDE DEF kw
  <2> QED BY <2>1, <2>2
<1>13. Found("Pub")
  <2>1. text = Keywords["Pub"] => text = <<"p", "u", "b">> /\ text[1] = "p"
    BY KeywordTable
  <2>2. text[1] = "p" => kw = IF text = <<"p", "u", "b">> THEN "Pub" ELSE "Identifier"
    BY KeywordArms
  <2> HIDE DEF kw
  <2> QED BY <2>1, <2>2
<1>14. Found("Return")
  <2>1. text = Keywords["Return"]
          => text = <<"r", "e", "t", "u", "r", "n">> /\ text[1] = "r" /\ Len(text) >= 2
            /\ text[2] = "e" /\ Len(text) >= 3 /\ text[3] = "t"
    BY KeywordTable
  <2>2. text[1] = "r" /\ Len(text) >= 2 /\ text[2] = "e" /\ Len(text) >= 3 /\ text[3] = "t"
          => kw = IF text = <<"r", "e", "t", "u", "r", "n">> THEN "Return" ELSE "Identifier"
    BY KeywordArms
  <2> HIDE DEF kw
  <2> QED BY <2>1, <2>2
<1>15. Found("Require")
  <2>1. text = Keywords["Require"]
          => text = <<"r", "e", "q", "u", "i", "r", "e">> /\ text[1] = "r" /\ Len(text) >= 2
            /\ text[2] = "e" /\ Len(text) >= 3 /\ text[3] = "q"
    BY KeywordTable
  <2>2. text[1] = "r" /\ Len(text) >= 2 /\ text[2] = "e" /\ Len(text) >= 3 /\ text[3] = "q"
          => kw = IF text = <<"r", "e", "q", "u", "i", "r", "e">> THEN "Require" ELSE "Identifier"
    BY KeywordArms
  <2> HIDE DEF kw
  <2> QED BY <2>1, <2>2
<1>16. Found("Self")
  <2>1. text = Keywords["Self"]
          => text = <<"s", "e", "l", "f">> /\ text[1] = "s" /\ Len(text) >= 2 /\ text[2] = "e"
    BY KeywordTable
  <2>2. text[1] = "s" /\ Len(text) >= 2 /\ text[2] = "e"
          => kw = IF text = <<"s", "e", "l", "f">> THEN "Self" ELSE "Identifier"
    BY KeywordArms
  <2> HIDE DEF kw
  <2> QED BY <2>1, <2>2
<1>17. Found("Struct")
  <2>1. text = Keywords["Struct"]
          => text = <<"s", "t", "r", "u", "c", "t">> /\ text[1] = "s" /\ Len(text) >= 2 /\ text[2] = "t"
    BY KeywordTable
  <2>2. text[1] = "s" /\ Len(text) >= 2 /\ text[2] = "t"
          => kw = IF text = <<"s", "t", "r", "u", "c", "t">> THEN "Struct" ELSE "Identifier"
    BY KeywordArms
  <2> HIDE DEF kw
  <2> QED BY <2>1, <2>2
<1>18. Found("True")
  <2>1. text = Keywords["True"] => text = <<"t", "r", "u", "e">> /\ text[1] = "t"
    BY KeywordTable
  <2>2. text[1] = "t" => kw = IF text = <<"t", "r", "u", "e">> THEN "True" ELSE "Identifier"
    BY KeywordArms
  <2> HIDE DEF kw
  <2> QED BY <2>1, <2>2
<1>19. Found("Varargs")
  <2>1. text = Keywords["Varargs"] => text = <<"v", "a", "r", "a", "r", "g", "s">> /\ text[1] = "v"
    BY KeywordTable
  <2>2. text[1] = "v"
          => kw = IF text = <<"v", "a", "r", "a", "r", "g", "s">> THEN "Varargs" ELSE "Identifier"
    BY KeywordArms
  <2> HIDE DEF kw
  <2> QED BY <2>1, <2>2
<1>20. Found("While")
  <2>1. text = Keywords["While"] => text = <<"w", "h", "i", "l", "e">> /\ text[1] = "w"
    BY KeywordTable
  <2>2. text[1] = "w" => kw = IF text = <<"w", "h", "i", "l", "e">> THEN "While" ELSE "Identifier"
    BY KeywordArms
  <2> HIDE DEF kw
  <2> QED BY <2>1, <2>2
<1>21. Found("Yield")
  <2>1. text = Keywords["Yield"] => text = <<"y", "i", "e", "l", "d">> /\ text[1] = "y"
    BY KeywordTable
  <2>2. text[1] = "y" => kw = IF text = <<"y", "i", "e", "l", "d">> THEN "Yield" ELSE "Identifier"
    BY KeywordArms
  <2> HIDE DEF kw
  <2> QED BY <2>1, <2>2
<1> HIDE DEF Found
<1>22. \A w \in KeywordTypes \ {"Nil"} : Found(w)
  BY <1>1, <1>2, <1>3, <1>4, <1>5, <1>6, <1>7, <1>8, <1>9, <1>10, <1>11, <1>12, <1>13, <1>14,
     <1>15, <1>16, <1>17, <1>18, <1>19, <1>20, <1>21, Zenon DEF KeywordTypes
<1> QED BY <1>22 DEF Found


(***************************************************************************)
(* Types: the lexer never reads or returns anything past the end.          *)
(***************************************************************************)
TokenTypes ==
  OperatorTypes \cup KeywordTypes \cup {"Identifier", "Integer", "Float", "String", "Error"}

Token == [type : TokenTypes, from : Nat, to : Nat, line_num : Nat]

\* Inside a token something has been read, and no more lines than characters
\* have been counted.
TypeInv ==
  /\ source \in Sources
  /\ start_offset \in Nat /\ current_offset \in Nat /\ line_num \in Nat
  /\ start_offset <= current_offset /\ current_offset <= Len(source)
  /\ line_num <= current_offset
  /\ pc \in {"skip", "comment", "string", "number", "identifier", "done"}
  /\ pc \in {"string", "number", "identifier"} => start_offset < current_offset
  /\ found_point \in BOOLEAN
  /\ tokens \in Seq(Token)
  /\ \A k \in DOMAIN tokens : tokens[k].from < tokens[k].to /\ tokens[k].to <= Len(source)

\* What is in the source is read, and NUL is behind its end.
LEMMA Reading ==
  ASSUME TypeInv
  PROVE  /\ source \in Seq(Characters) /\ Len(source) \in Nat
         /\ \A k \in Nat : CharAt(k) # "NUL" => k < Len(source)
         /\ \A k \in Nat : k < Len(source) => CharAt(k) \in Characters
<1>1. source \in Seq(Characters) /\ Len(source) \in Nat
  BY SourcesAssumption DEF TypeInv
<1>2. ASSUME NEW k \in Nat, k < Len(source) PROVE CharAt(k) \in Characters
  <2>1. k + 1 \in 1 .. Len(source)
    BY <1>1, <1>2
  <2>2. source[k + 1] \in Characters
    BY <1>1, <2>1
  <2> QED BY <1>2, <2>2 DEF CharAt
<1> QED BY <1>1, <1>2 DEF CharAt

\* The characters that belong to an operator are in the source.
LEMMA OperatorInside ==
  ASSUME TypeInv, begin_operator
  PROVE  /\ current_offset < Len(source) /\ Peek \in OperatorStarts
         /\ Operator(Peek, Peek2, CharAt(current_offset + 2)).type \in OperatorTypes
         /\ Operator(Peek, Peek2, CharAt(current_offset + 2)).more \in {0, 1, 2}
         /\ current_offset + 1 + Operator(Peek, Peek2, CharAt(current_offset + 2)).more
              <= Len(source)
<1> DEFINE op == Operator(Peek, Peek2, CharAt(current_offset + 2))
<1>1. Peek \in OperatorStarts /\ current_offset < Len(source) /\ current_offset \in Nat
        /\ Len(source) \in Nat
  BY Reading DEF begin_operator, TokenStarts, AtEnd, TypeInv
<1>2. "NUL" \notin OperatorStarts
  BY Starts
<1>3. op.type \in OperatorTypes
      /\ (\/ op.more = 0
          \/ op.more = 1 /\ Peek2 \in OperatorStarts
          \/ op.more = 2 /\ CharAt(current_offset + 2) \in OperatorStarts)
  BY <1>1, OperatorReads
<1> HIDE DEF op
<1>4. /\ Peek2 \in OperatorStarts => current_offset + 1 < Len(source)
      /\ CharAt(current_offset + 2) \in OperatorStarts => current_offset + 2 < Len(source)
  BY <1>1, <1>2, Reading DEF Peek2
<1> QED BY <1>1, <1>3, <1>4 DEF op

\* The text of a name is not empty, and its type is one of a keyword or that of
\* names.
LEMMA NameTypes ==
  ASSUME TypeInv, pc = "identifier"
  PROVE  /\ Slice(start_offset, current_offset) \in Seq(Characters)
         /\ Len(Slice(start_offset, current_offset)) = current_offset - start_offset
         /\ current_offset - start_offset >= 1
         /\ keyword_or_identifier(Slice(start_offset, current_offset))
              \in KeywordTypes \cup {"Identifier"}
<1> DEFINE text == Slice(start_offset, current_offset)
<1>1. /\ source \in Seq(Characters) /\ start_offset \in Nat /\ current_offset \in Nat
      /\ start_offset + 1 <= current_offset /\ current_offset <= Len(source)
  BY Reading DEF TypeInv
<1>2. text \in Seq(Characters) /\ Len(text) = current_offset - start_offset
  BY <1>1, SubSeqProperties DEF Slice
<1>3. "Nil" \in KeywordTypes
  BY DEF KeywordTypes
<1> HIDE DEF text
<1>4. Len(text) >= 1
  BY <1>1, <1>2
<1>5. keyword_or_identifier(text) \in KeywordTypes \cup {"Identifier"}
  BY <1>2, <1>3, <1>4, KeywordsAreSpelt
<1> QED BY <1>1, <1>2, <1>4, <1>5 DEF text

\* What a returned token does to the state.
LEMMA Returning ==
  ASSUME TypeInv, NEW type \in TokenTypes, NEW from \in Nat, NEW to \in Nat,
         from < to, to <= Len(source), line_num <= to, Return(type, from, to)
  PROVE  TypeInv'
<1> DEFINE t == [type |-> type, from |-> from, to |-> to, line_num |-> line_num]
<1>1. t \in Token /\ t.from = from /\ t.to = to
  BY DEF Token, TypeInv
<1> HIDE DEF t
<1>2. /\ tokens' = Append(tokens, t) /\ source' = source /\ line_num' = line_num
      /\ pc' = "skip" /\ start_offset' = from /\ current_offset' = to
      /\ found_point' = found_point
  BY DEF Return, t
<1>3. tokens' \in Seq(Token)
  BY <1>1, <1>2 DEF TypeInv
<1>4. ASSUME NEW k \in DOMAIN tokens'
      PROVE  tokens'[k].from < tokens'[k].to /\ tokens'[k].to <= Len(source)
  <2>1. CASE k \in DOMAIN tokens
    <3>1. tokens'[k] = tokens[k]
      BY <1>2, <2>1 DEF TypeInv
    <3> QED BY <2>1, <3>1 DEF TypeInv
  <2>2. CASE k \notin DOMAIN tokens
    <3>1. tokens'[k] = t
      BY <1>2, <2>2, <1>4 DEF TypeInv
    <3> QED BY <1>1, <3>1
  <2> QED BY <2>1, <2>2
<1> QED BY <1>2, <1>3, <1>4 DEF TypeInv

\* The types hold at the start.
LEMMA TypeInit == ASSUME Init PROVE TypeInv
<1>1. source \in Seq(Characters)
  BY SourcesAssumption DEF Init
<1>2. tokens = <<>> /\ tokens \in Seq(Token) /\ DOMAIN tokens = {}
  BY DEF Init
<1>3. Len(source) \in Nat /\ 0 <= Len(source)
  BY <1>1
<1>4. /\ source \in Sources /\ start_offset = 0 /\ current_offset = 0 /\ line_num = 0
      /\ pc = "skip" /\ found_point = FALSE
  BY DEF Init
<1>5. found_point \in BOOLEAN /\ pc \notin {"string", "number", "identifier"}
  BY <1>4
<1> QED BY <1>2, <1>3, <1>4, <1>5 DEF TypeInv

\* Every step of a loop that returns nothing keeps the types.
LEMMA TypeLoops ==
  ASSUME TypeInv,
         \/ skip_space \/ skip_comment \/ in_comment \/ after_comment \/ at_end
         \/ begin_string \/ begin_number \/ begin_identifier
         \/ in_string \/ in_number \/ in_identifier
  PROVE  TypeInv'
<1>1. /\ Peek # "NUL" => current_offset < Len(source)
      /\ Peek2 # "NUL" => current_offset + 1 < Len(source)
      /\ Len(source) \in Nat /\ current_offset \in Nat
  BY Reading DEF Peek, Peek2, TypeInv
<1>2. "NUL" \notin Blanks /\ "NUL" \notin Digits /\ "NUL" \notin Letters
  BY DEF Blanks, Digits, Letters
<1>3. CASE skip_space
  <2>1. current_offset < Len(source)
    BY <1>1, <1>2, <1>3 DEF skip_space
  <2> QED BY <1>3, <2>1 DEF skip_space, LineAfter, Stay, Goto, TypeInv
<1>4. CASE skip_comment
  <2>1. current_offset + 1 < Len(source)
    BY <1>1, <1>4 DEF skip_comment, CommentStarts
  <2> QED BY <1>4, <2>1 DEF skip_comment, Goto, TypeInv
<1>5. CASE in_comment
  BY <1>1, <1>5 DEF in_comment, AtEnd, Stay, Goto, TypeInv
<1>6. CASE after_comment
  BY <1>6 DEF after_comment, Goto, TypeInv
<1>7. CASE at_end
  BY <1>7 DEF at_end, lexer, TypeInv
<1>8. CASE begin_string \/ begin_number \/ begin_identifier
  <2>1. /\ pc' \in {"string", "number", "identifier"} /\ ~AtEnd
        /\ start_offset' = current_offset /\ current_offset' = current_offset + 1
        /\ found_point' = FALSE /\ UNCHANGED <<source, line_num, tokens>>
    BY <1>8 DEF begin_string, begin_number, begin_identifier, Begin, TokenStarts
  <2>2. current_offset < Len(source)
    BY <1>1, <2>1 DEF AtEnd
  <2>3. found_point' \in BOOLEAN
    BY <2>1
  <2>4. /\ current_offset \in Nat /\ line_num \in Nat /\ line_num <= current_offset
        /\ Len(source) \in Nat
    BY <1>1 DEF TypeInv
  <2>5. /\ start_offset' < current_offset'
        /\ current_offset' <= Len(source) /\ start_offset' \in Nat
        /\ current_offset' \in Nat /\ line_num <= current_offset'
    BY <2>1, <2>2, <2>4
  <2> QED BY <2>1, <2>3, <2>5 DEF TypeInv
<1>9. CASE in_string
  <2>1. current_offset < Len(source) /\ Escaped \in {1, 2}
          /\ current_offset + Escaped <= Len(source)
    BY <1>1, <1>9 DEF in_string, AtEnd, Escaped
  <2> QED BY <1>1, <1>9, <2>1 DEF in_string, Stay, Goto, TypeInv
<1>10. CASE in_number
  <2>1. \/ current_offset' = current_offset + 1 /\ current_offset < Len(source)
           /\ UNCHANGED found_point
        \/ current_offset' = current_offset + 2 /\ current_offset + 1 < Len(source)
           /\ found_point' = TRUE
        \/ current_offset' = current_offset /\ UNCHANGED found_point
    BY <1>1, <1>2, <1>10 DEF in_number, PointBelongs
  <2>2. UNCHANGED <<source, start_offset, line_num, pc, tokens>>
    BY <1>10 DEF in_number
  <2>3. found_point' \in BOOLEAN
    BY <2>1 DEF TypeInv
  <2>4. /\ current_offset' \in Nat /\ current_offset <= current_offset'
        /\ current_offset' <= Len(source)
    BY <1>1, <2>1 DEF TypeInv
  <2> QED BY <2>2, <2>3, <2>4 DEF TypeInv
<1>11. CASE in_identifier
  <2>1. current_offset < Len(source)
    BY <1>1, <1>2, <1>11 DEF in_identifier
  <2> QED BY <1>1, <1>11, <2>1 DEF in_identifier, Stay, Goto, TypeInv
<1> QED BY <1>3, <1>4, <1>5, <1>6, <1>7, <1>8, <1>9, <1>10, <1>11

\* Every step that returns a token keeps them.
LEMMA TypeReturns ==
  ASSUME TypeInv,
         \/ begin_operator \/ begin_unexpected \/ unterminated_string
         \/ string_ends \/ number_ends \/ identifier_ends
  PROVE  TypeInv'
<1>1. /\ current_offset \in Nat /\ start_offset \in Nat /\ Len(source) \in Nat
      /\ line_num \in Nat /\ line_num <= current_offset /\ current_offset <= Len(source)
      /\ pc \in {"string", "number", "identifier"} => start_offset < current_offset
      /\ Peek # "NUL" => current_offset < Len(source)
  BY Reading DEF Peek, TypeInv
<1>2. {"Identifier", "Integer", "Float", "String", "Error"} \subseteq TokenTypes
      /\ OperatorTypes \subseteq TokenTypes /\ KeywordTypes \subseteq TokenTypes
  BY DEF TokenTypes
<1>3. CASE begin_operator
  <2> DEFINE op == Operator(Peek, Peek2, CharAt(current_offset + 2))
  <2>1. op.type \in OperatorTypes /\ op.more \in {0, 1, 2}
          /\ current_offset + 1 + op.more <= Len(source)
    BY <1>3, OperatorInside
  <2>2. Return(op.type, current_offset, current_offset + 1 + op.more)
    BY <1>3 DEF begin_operator
  <2> HIDE DEF op
  <2>3. op.type \in TokenTypes /\ current_offset + 1 + op.more \in Nat
          /\ current_offset < current_offset + 1 + op.more
          /\ line_num <= current_offset + 1 + op.more
    BY <1>1, <1>2, <2>1
  <2> QED BY <1>1, <2>1, <2>2, <2>3, Returning
<1>4. CASE begin_unexpected
  <2>1. current_offset < Len(source)
    BY <1>1, <1>4 DEF begin_unexpected, TokenStarts, AtEnd
  <2> QED BY <1>1, <1>2, <1>4, <2>1, Returning DEF begin_unexpected
<1>5. CASE unterminated_string
  BY <1>1, <1>2, <1>5, Returning DEF unterminated_string
<1>6. CASE string_ends
  <2>1. PICK type \in {"String", "Error"} : Return(type, start_offset, current_offset + 1)
    BY <1>6 DEF string_ends
  <2>2. current_offset < Len(source) /\ start_offset < current_offset + 1
    BY <1>1, <1>6 DEF string_ends
  <2> QED BY <1>1, <1>2, <2>1, <2>2, Returning
<1>7. CASE number_ends
  <2>1. PICK type \in {"Float", "Integer"} : Return(type, start_offset, current_offset)
    BY <1>7 DEF number_ends
  <2> QED BY <1>1, <1>2, <1>7, <2>1, Returning DEF number_ends
<1>8. CASE identifier_ends
  <2> DEFINE type == keyword_or_identifier(Slice(start_offset, current_offset))
  <2>1. type \in KeywordTypes \cup {"Identifier"}
    BY <1>8, NameTypes DEF identifier_ends
  <2>2. Return(type, start_offset, current_offset) /\ pc = "identifier"
    BY <1>8 DEF identifier_ends
  <2> HIDE DEF type
  <2> QED BY <1>1, <1>2, <2>1, <2>2, Returning
<1> QED BY <1>3, <1>4, <1>5, <1>6, <1>7, <1>8

\* The types are an invariant.
LEMMA TypeHolds == Spec => []TypeInv
<1>1. Init => TypeInv
  BY TypeInit
<1>2. TypeInv /\ [Next]_vars => TypeInv'
  <2> SUFFICES ASSUME TypeInv, [Next]_vars PROVE TypeInv'
    OBVIOUS
  <2>1. CASE Next
    <3>1. CASE Done
      BY <3>1 DEF Done, vars, lexer, TypeInv
    <3> QED BY <2>1, <3>1, TypeLoops, TypeReturns DEF Next
  <2>2. CASE UNCHANGED vars
    BY <2>2 DEF vars, lexer, TypeInv
  <2> QED BY <2>1, <2>2
<1> QED BY <1>1, <1>2, PTL DEF Spec

\* The lexer and the tokens it returns never leave the source.
THEOREM TypeCorrect == Spec => []TypeOK
<1>1. TypeInv => TypeOK
  <2> SUFFICES ASSUME TypeInv PROVE TypeOK
    OBVIOUS
  <2>1. Len(source) \in Nat
    BY Reading
  <2>2. ASSUME NEW k \in DOMAIN tokens
        PROVE  tokens[k].from \in 0 .. Len(source) /\ tokens[k].to \in 0 .. Len(source)
    <3>1. tokens[k] \in Token
      BY <2>2 DEF TypeInv
    <3> QED BY <2>1, <2>2, <3>1 DEF TypeInv, Token
  <2> QED BY <2>1, <2>2 DEF TypeInv, TypeOK
<1> QED BY <1>1, TypeHolds, PTL

(***************************************************************************)
(* The tokens tile the source.                                             *)
(***************************************************************************)

\* Where the last token ends.
Last == IF tokens = <<>> THEN 0 ELSE tokens[Len(tokens)].to

Before(k) == IF k = 1 THEN 0 ELSE tokens[k - 1].to

\* No newline since the comment began that the lexer is in.
InComment(from, to) ==
  \E p \in from .. to - 2 :
    /\ CharAt(p) = "/" /\ CharAt(p + 1) = "/"
    /\ \A q \in p .. to - 1 : CharAt(q) # "newline"

TokensTiled ==
  \A k \in DOMAIN tokens :
    Before(k) <= tokens[k].from /\ OnlyBlank(Before(k), tokens[k].from)

\* Nothing but blanks and comments since the last token, up to where the lexer
\* is or up to the token it is in.
TileInv ==
  /\ TokensTiled
  /\ pc = "skip" => Last <= current_offset /\ OnlyBlank(Last, current_offset)
  /\ pc = "comment" => /\ Last <= current_offset /\ OnlyBlank(Last, current_offset)
                       /\ InComment(Last, current_offset)
  /\ pc \in {"string", "number", "identifier"} =>
       Last <= start_offset /\ OnlyBlank(Last, start_offset)
  /\ pc = "done" => OnlyBlank(Last, Len(source))

\* The last token ends at an offset.
LEMMA LastInside == ASSUME TypeInv PROVE Last \in Nat /\ Last <= Len(source)
<1>1. CASE tokens = <<>>
  BY <1>1, Reading DEF Last
<1>2. CASE tokens # <<>>
  <2>1. Len(tokens) \in DOMAIN tokens
    BY <1>2 DEF TypeInv
  <2>2. tokens[Len(tokens)] \in Token
    BY <2>1 DEF TypeInv
  <2> QED BY <1>2, <2>1, <2>2 DEF Last, Token, TypeInv
<1> QED BY <1>1, <1>2

\* Blanks and comments go on.
LEMMA BlankOn ==
  ASSUME NEW a \in Nat, NEW b \in Nat, NEW c \in Nat, a <= b, b <= c, OnlyBlank(a, b),
         \A k \in b .. c - 1 :
           \/ CharAt(k) \in Blanks
           \/ \E p \in a .. k :
                /\ CharAt(p) = "/" /\ CharAt(p + 1) = "/" /\ p + 1 < c
                /\ \A q \in p .. k : CharAt(q) # "newline"
  PROVE  OnlyBlank(a, c)
<1> SUFFICES ASSUME NEW k \in a .. c - 1
             PROVE  \/ CharAt(k) \in Blanks
                    \/ \E p \in a .. k :
                         /\ CharAt(p) = "/" /\ CharAt(p + 1) = "/" /\ p + 1 < c
                         /\ \A q \in p .. k : CharAt(q) # "newline"
  BY DEF OnlyBlank
<1>1. CASE k >= b
  BY <1>1
<1>2. CASE k < b
  <2>1. k \in a .. b - 1
    BY <1>2
  <2>2. CASE CharAt(k) \in Blanks
    BY <2>2
  <2>3. CASE \E p \in a .. k :
               /\ CharAt(p) = "/" /\ CharAt(p + 1) = "/" /\ p + 1 < b
               /\ \A q \in p .. k : CharAt(q) # "newline"
    <3>1. PICK p \in a .. k :
               /\ CharAt(p) = "/" /\ CharAt(p + 1) = "/" /\ p + 1 < b
               /\ \A q \in p .. k : CharAt(q) # "newline"
      BY <2>3
    <3>2. p + 1 < c
      BY <3>1
    <3> QED BY <3>1, <3>2
  <2> QED BY <2>1, <2>2, <2>3 DEF OnlyBlank
<1> QED BY <1>1, <1>2

\* What lies between two offsets does not change.
LEMMA BlankStays ==
  ASSUME source' = source
  PROVE  /\ \A k : CharAt(k)' = CharAt(k)
         /\ \A a, b : OnlyBlank(a, b)' = OnlyBlank(a, b)
         /\ \A a, b : InComment(a, b)' = InComment(a, b)
BY DEF CharAt, OnlyBlank, InComment

\* A token returned behind nothing but blanks and comments is one tile more.
LEMMA OneTileMore ==
  ASSUME TypeInv, TokensTiled, NEW type \in TokenTypes, NEW from \in Nat, NEW to \in Nat,
         Return(type, from, to), Last <= from, OnlyBlank(Last, from)
  PROVE  TokensTiled' /\ Last' = to
<1> DEFINE t == [type |-> type, from |-> from, to |-> to, line_num |-> line_num]
<1>1. t \in Token /\ t.from = from /\ t.to = to
  BY DEF Token, TypeInv
<1> HIDE DEF t
<1>2. tokens' = Append(tokens, t) /\ source' = source /\ tokens \in Seq(Token)
  BY DEF Return, t, TypeInv
<1>3. /\ Len(tokens') = Len(tokens) + 1 /\ tokens'[Len(tokens) + 1] = t
      /\ tokens' # <<>> /\ Len(tokens) \in Nat
      /\ \A k \in 1 .. Len(tokens) : tokens'[k] = tokens[k]
      /\ DOMAIN tokens' = 1 .. Len(tokens) + 1
  BY <1>1, <1>2
<1>4. Last' = to
  BY <1>1, <1>3 DEF Last
<1>5. ASSUME NEW k \in DOMAIN tokens'
      PROVE  Before(k)' <= tokens'[k].from /\ OnlyBlank(Before(k), tokens[k].from)'
  <2>1. CASE k \in 1 .. Len(tokens)
    <3>1. k \in DOMAIN tokens /\ tokens'[k] = tokens[k]
      BY <1>2, <1>3, <2>1
    <3>2. Before(k)' = Before(k)
      BY <1>3, <2>1 DEF Before
    <3>3. Before(k) <= tokens[k].from /\ OnlyBlank(Before(k), tokens[k].from)
      BY <3>1 DEF TokensTiled
    <3> QED BY <1>2, <3>1, <3>2, <3>3, BlankStays DEF OnlyBlank
  <2>2. CASE k = Len(tokens) + 1
    <3>1. tokens'[k].from = from
      BY <1>1, <1>3, <2>2
    <3>2. Before(k)' = Last
      <4>1. CASE tokens = <<>>
        BY <2>2, <4>1 DEF Before, Last
      <4>2. CASE tokens # <<>>
        <5>1. Len(tokens) \in 1 .. Len(tokens) /\ k # 1 /\ k - 1 = Len(tokens)
          BY <1>2, <1>3, <2>2, <4>2
        <5> QED BY <1>3, <4>2, <5>1 DEF Before, Last
      <4> QED BY <4>1, <4>2
    <3> QED BY <1>2, <3>1, <3>2, BlankStays DEF OnlyBlank
  <2> QED BY <1>3, <1>5, <2>1, <2>2
<1> QED BY <1>4, <1>5 DEF TokensTiled

\* Whitespace and comments extend what is blank.
LEMMA TileSkips ==
  ASSUME TypeInv, TypeInv', TileInv,
         skip_space \/ skip_comment \/ in_comment \/ after_comment \/ at_end
  PROVE  TileInv'
<1>1. /\ current_offset \in Nat /\ Last \in Nat /\ Len(source) \in Nat
      /\ current_offset <= Len(source) /\ Last <= Len(source)
  BY LastInside, Reading DEF TypeInv
<1>2. source' = source /\ tokens' = tokens
  BY DEF skip_space, skip_comment, in_comment, after_comment, at_end, Stay, Goto
<1>3. TokensTiled' /\ Last' = Last
  <2>1. TokensTiled
    BY DEF TileInv
  <2>2. \A k : Before(k)' = Before(k)
    BY <1>2 DEF Before
  <2> QED BY <1>2, <2>1, <2>2, BlankStays DEF TokensTiled, Last, OnlyBlank
<1>4. CASE skip_space
  <2>1. /\ Last <= current_offset /\ OnlyBlank(Last, current_offset)
        /\ CharAt(current_offset) \in Blanks
        /\ current_offset' = current_offset + 1 /\ pc' = "skip"
    BY <1>4 DEF TileInv, skip_space, Peek, Stay, Goto
  <2>2. \A k \in current_offset .. (current_offset + 1) - 1 : CharAt(k) \in Blanks
    BY <1>1, <2>1
  <2>3. OnlyBlank(Last, current_offset + 1)
    BY <1>1, <2>1, <2>2, BlankOn
  <2>4. OnlyBlank(Last, current_offset)'
    BY <1>2, <1>3, <2>1, <2>3, BlankStays DEF OnlyBlank
  <2> QED BY <1>1, <1>3, <2>1, <2>4 DEF TileInv
<1>5. CASE skip_comment
  <2>1. /\ Last <= current_offset /\ OnlyBlank(Last, current_offset)
        /\ CharAt(current_offset) = "/" /\ CharAt(current_offset + 1) = "/"
        /\ current_offset' = current_offset + 2 /\ pc' = "comment"
    BY <1>5 DEF TileInv, skip_comment, CommentStarts, Peek, Peek2, Goto
  <2>2. ASSUME NEW k \in current_offset .. (current_offset + 2) - 1
        PROVE  \E p \in Last .. k :
                 /\ CharAt(p) = "/" /\ CharAt(p + 1) = "/" /\ p + 1 < current_offset + 2
                 /\ \A q \in p .. k : CharAt(q) # "newline"
    <3>1. k \in {current_offset, current_offset + 1} /\ current_offset \in Last .. k
      BY <1>1, <2>1
    <3>2. \A q \in current_offset .. k : q \in {current_offset, current_offset + 1}
      BY <1>1, <3>1
    <3>3. \A q \in current_offset .. k : CharAt(q) = "/"
      BY <2>1, <3>2
    <3> QED BY <1>1, <2>1, <3>1, <3>3
  <2>3. OnlyBlank(Last, current_offset + 2)
    BY <1>1, <2>1, <2>2, BlankOn
  <2>4. InComment(Last, current_offset + 2)
    <3>1. current_offset \in Last .. (current_offset + 2) - 2
      BY <1>1, <2>1
    <3>2. \A q \in current_offset .. (current_offset + 2) - 1 :
            q \in {current_offset, current_offset + 1}
      BY <1>1
    <3>3. \A q \in current_offset .. (current_offset + 2) - 1 : CharAt(q) # "newline"
      BY <2>1, <3>2
    <3> QED BY <2>1, <3>1, <3>3 DEF InComment
  <2>5. OnlyBlank(Last, current_offset)' /\ InComment(Last, current_offset)'
    BY <1>2, <1>3, <2>1, <2>3, <2>4, BlankStays DEF OnlyBlank, InComment
  <2> QED BY <1>1, <1>3, <2>1, <2>5 DEF TileInv
<1>6. CASE in_comment
  <2>1. /\ Last <= current_offset /\ OnlyBlank(Last, current_offset)
        /\ InComment(Last, current_offset)
        /\ CharAt(current_offset) # "newline"
        /\ current_offset' = current_offset + 1 /\ pc' = "comment"
    BY <1>6 DEF TileInv, in_comment, Peek, Stay, Goto
  <2>2. PICK p \in Last .. current_offset - 2 :
          /\ CharAt(p) = "/" /\ CharAt(p + 1) = "/"
          /\ \A q \in p .. current_offset - 1 : CharAt(q) # "newline"
    BY <2>1 DEF InComment
  <2>3. p \in Last .. (current_offset + 1) - 2 /\ p + 1 < current_offset + 1
          /\ p \in Last .. current_offset
    BY <1>1, <2>2
  <2>4. \A q \in p .. current_offset : CharAt(q) # "newline"
    <3>1. \A q \in p .. current_offset : q = current_offset \/ q \in p .. current_offset - 1
      BY <1>1, <2>2
    <3> QED BY <2>1, <2>2, <3>1
  <2>5. InComment(Last, current_offset + 1)
    <3>1. (current_offset + 1) - 1 = current_offset
      BY <1>1
    <3> QED BY <2>2, <2>3, <2>4, <3>1 DEF InComment
  <2>6. \A k \in current_offset .. (current_offset + 1) - 1 : k = current_offset
    BY <1>1
  <2>7. OnlyBlank(Last, current_offset + 1)
    BY <1>1, <2>1, <2>2, <2>3, <2>4, <2>6, BlankOn
  <2>8. OnlyBlank(Last, current_offset)' /\ InComment(Last, current_offset)'
    BY <1>2, <1>3, <2>1, <2>5, <2>7, BlankStays DEF OnlyBlank, InComment
  <2> QED BY <1>1, <1>3, <2>1, <2>8 DEF TileInv
<1>7. CASE after_comment
  <2>1. /\ Last <= current_offset /\ OnlyBlank(Last, current_offset)
        /\ current_offset' = current_offset /\ pc' = "skip"
    BY <1>7 DEF TileInv, after_comment, Goto
  <2>2. OnlyBlank(Last, current_offset)'
    BY <1>2, <1>3, <2>1, BlankStays DEF OnlyBlank
  <2> QED BY <1>1, <1>3, <2>1, <2>2 DEF TileInv
<1>8. CASE at_end
  <2>1. /\ Last <= current_offset /\ OnlyBlank(Last, current_offset)
        /\ current_offset' = current_offset /\ pc' \in {"skip", "done"}
        /\ current_offset = Len(source)
    BY <1>1, <1>8 DEF TileInv, at_end, lexer, AtEnd
  <2>2. OnlyBlank(Last, current_offset)' /\ OnlyBlank(Last, Len(source))'
    BY <1>2, <1>3, <2>1, BlankStays DEF OnlyBlank
  <2> QED BY <1>1, <1>3, <2>1, <2>2 DEF TileInv
<1> QED BY <1>4, <1>5, <1>6, <1>7, <1>8

\* Inside a token nothing changes in front of it.
LEMMA TileInside ==
  ASSUME TypeInv, TypeInv', TileInv,
         \/ begin_string \/ begin_number \/ begin_identifier
         \/ in_string \/ in_number \/ in_identifier
  PROVE  TileInv'
<1>1. source' = source /\ tokens' = tokens
  BY DEF begin_string, begin_number, begin_identifier, Begin, in_string, in_number,
         in_identifier, Stay, Goto
<1>2. TokensTiled' /\ Last' = Last
  <2>1. TokensTiled
    BY DEF TileInv
  <2>2. \A k : Before(k)' = Before(k)
    BY <1>1 DEF Before
  <2> QED BY <1>1, <2>1, <2>2, BlankStays DEF TokensTiled, Last, OnlyBlank
<1>3. /\ pc' \in {"string", "number", "identifier"}
      /\ Last <= start_offset' /\ OnlyBlank(Last, start_offset')
  <2>1. CASE begin_string \/ begin_number \/ begin_identifier
    <3>1. /\ start_offset' = current_offset /\ pc = "skip"
          /\ pc' \in {"string", "number", "identifier"}
      BY <2>1 DEF begin_string, begin_number, begin_identifier, Begin, TokenStarts
    <3> QED BY <3>1 DEF TileInv
  <2>2. CASE in_string \/ in_number \/ in_identifier
    <3>1. /\ start_offset' = start_offset /\ pc' = pc
          /\ pc \in {"string", "number", "identifier"}
      BY <2>2 DEF in_string, in_number, in_identifier, Stay, Goto
    <3> QED BY <3>1 DEF TileInv
  <2> QED BY <2>1, <2>2
<1>4. OnlyBlank(Last, start_offset)'
  BY <1>1, <1>2, <1>3, BlankStays DEF OnlyBlank
<1> QED BY <1>2, <1>3, <1>4 DEF TileInv

\* A token that is returned is the next tile.
LEMMA TileReturns ==
  ASSUME TypeInv, TypeInv', TileInv,
         \/ begin_operator \/ begin_unexpected \/ unterminated_string
         \/ string_ends \/ number_ends \/ identifier_ends
  PROVE  TileInv'
<1>1. PICK type \in TokenTypes, from \in Nat, to \in Nat :
        Return(type, from, to) /\ Last <= from /\ OnlyBlank(Last, from) /\ from <= to
  <2>1. /\ current_offset \in Nat /\ start_offset \in Nat
        /\ start_offset <= current_offset
    BY DEF TypeInv
  <2>2. {"Identifier", "Integer", "Float", "String", "Error"} \subseteq TokenTypes
        /\ OperatorTypes \subseteq TokenTypes /\ KeywordTypes \subseteq TokenTypes
    BY DEF TokenTypes
  <2>3. CASE begin_operator
    <3> DEFINE op == Operator(Peek, Peek2, CharAt(current_offset + 2))
    <3>1. op.type \in OperatorTypes /\ op.more \in {0, 1, 2}
      BY <2>3, OperatorInside
    <3>2. Return(op.type, current_offset, current_offset + 1 + op.more) /\ pc = "skip"
      BY <2>3 DEF begin_operator, TokenStarts
    <3> HIDE DEF op
    <3>3. op.type \in TokenTypes /\ current_offset + 1 + op.more \in Nat
            /\ current_offset <= current_offset + 1 + op.more
      BY <2>1, <2>2, <3>1
    <3> QED BY <2>1, <3>2, <3>3 DEF TileInv
  <2>4. CASE begin_unexpected
    <3>1. Return("Error", current_offset, current_offset + 1) /\ pc = "skip"
      BY <2>4 DEF begin_unexpected, TokenStarts
    <3>2. "Error" \in TokenTypes /\ current_offset + 1 \in Nat
            /\ current_offset <= current_offset + 1
      BY <2>1, <2>2
    <3> QED BY <2>1, <3>1, <3>2 DEF TileInv
  <2>5. ASSUME NEW type \in TokenTypes, NEW to \in Nat, Return(type, start_offset, to),
               pc \in {"string", "number", "identifier"}, start_offset <= to
        PROVE  \E type2 \in TokenTypes, from \in Nat, to2 \in Nat :
                 Return(type2, from, to2) /\ Last <= from /\ OnlyBlank(Last, from)
                   /\ from <= to2
    BY <2>1, <2>5 DEF TileInv
  <2>6. CASE unterminated_string
    <3>1. Return("Error", start_offset, current_offset) /\ pc = "string"
      BY <2>6 DEF unterminated_string
    <3>2. "Error" \in TokenTypes
      BY <2>2
    <3> QED BY <2>1, <2>5, <3>1, <3>2
  <2>7. CASE string_ends
    <3>1. PICK type \in {"String", "Error"} : Return(type, start_offset, current_offset + 1)
      BY <2>7 DEF string_ends
    <3>2. pc = "string" /\ type \in TokenTypes /\ current_offset + 1 \in Nat
            /\ start_offset <= current_offset + 1
      BY <2>1, <2>2, <2>7 DEF string_ends
    <3> QED BY <2>5, <3>1, <3>2
  <2>8. CASE number_ends
    <3>1. PICK type \in {"Float", "Integer"} : Return(type, start_offset, current_offset)
      BY <2>8 DEF number_ends
    <3>2. pc = "number" /\ type \in TokenTypes
      BY <2>2, <2>8 DEF number_ends
    <3> QED BY <2>1, <2>5, <3>1, <3>2
  <2>9. CASE identifier_ends
    <3> DEFINE type == keyword_or_identifier(Slice(start_offset, current_offset))
    <3>1. Return(type, start_offset, current_offset) /\ pc = "identifier"
      BY <2>9 DEF identifier_ends
    <3>2. type \in KeywordTypes \cup {"Identifier"}
      BY <3>1, NameTypes
    <3> HIDE DEF type
    <3>3. type \in TokenTypes
      BY <2>2, <3>2
    <3> QED BY <2>1, <2>5, <3>1, <3>3
  <2> QED BY <2>3, <2>4, <2>6, <2>7, <2>8, <2>9
<1>2. TokensTiled
  BY DEF TileInv
<1>3. TokensTiled' /\ Last' = to
  BY <1>1, <1>2, OneTileMore
<1>4. pc' = "skip" /\ current_offset' = to
  BY <1>1 DEF Return
<1>5. OnlyBlank(Last, current_offset)' /\ Last' <= current_offset'
  BY <1>3, <1>4 DEF OnlyBlank
<1> QED BY <1>3, <1>4, <1>5 DEF TileInv

\* The tiling is an invariant.
LEMMA TileHolds == Spec => []TileInv
<1>1. Init => TileInv
  <2> SUFFICES ASSUME Init PROVE TileInv
    OBVIOUS
  <2>1. tokens = <<>> /\ DOMAIN tokens = {} /\ pc = "skip" /\ current_offset = 0
    BY DEF Init
  <2> QED BY <2>1 DEF TileInv, TokensTiled, Last, OnlyBlank
<1>2. TypeInv /\ TypeInv' /\ TileInv /\ [Next]_vars => TileInv'
  <2> SUFFICES ASSUME TypeInv, TypeInv', TileInv, [Next]_vars PROVE TileInv'
    OBVIOUS
  <2>1. CASE UNCHANGED vars
    <3>1. /\ source' = source /\ tokens' = tokens /\ pc' = pc
          /\ current_offset' = current_offset /\ start_offset' = start_offset
      BY <2>1 DEF vars, lexer
    <3>2. Last' = Last /\ \A k : Before(k)' = Before(k)
      BY <3>1 DEF Last, Before
    <3> QED BY <3>1, <3>2, BlankStays DEF TileInv, TokensTiled, OnlyBlank, InComment
  <2>2. CASE Done
    BY <2>1, <2>2 DEF Done
  <2> QED BY <2>1, <2>2, TileSkips, TileInside, TileReturns DEF Next
<1> QED BY <1>1, <1>2, TypeHolds, PTL DEF Spec

\* The tokens and errors are in order, none is empty, and nothing but whitespace
\* and comments is left out between them or at the ends.
THEOREM TokensTileTheSource == Spec => []TokensTile
<1>1. TypeInv /\ TileInv => TokensTile
  BY DEF TypeInv, TileInv, TokensTiled, Before, Last, TokensTile
<1> QED BY <1>1, TypeHolds, TileHolds, PTL

(***************************************************************************)
(* Lines are counted.                                                      *)
(***************************************************************************)

\* The newlines in front of an offset.
Lines(n) == Cardinality({q \in 0 .. n - 1 : CharAt(q) = "newline"})

\* The lexer has counted the newlines in front of where it is, and each token
\* records those in front of its end.
LineInv ==
  /\ line_num = Lines(current_offset)
  /\ \A k \in DOMAIN tokens : tokens[k].line_num = Lines(tokens[k].to)

\* In no source a newline stands directly behind a backslash.  In a string the
\* code would skip it uncounted.
NoEscapedNewline ==
  \A s \in Sources : \A k \in 1 .. Len(s) - 1 : s[k] = "backslash" => s[k + 1] # "newline"

\* One character further there is one newline more if the character is one.
LEMMA LineStep ==
  ASSUME NEW n \in Nat
  PROVE  /\ Lines(n) \in Nat
         /\ CharAt(n) = "newline" => Lines(n + 1) = Lines(n) + 1
         /\ CharAt(n) # "newline" => Lines(n + 1) = Lines(n)
<1> DEFINE S == {q \in 0 .. n - 1 : CharAt(q) = "newline"}
           T == {q \in 0 .. (n + 1) - 1 : CharAt(q) = "newline"}
<1>1. IsFiniteSet(S)
  <2>1. IsFiniteSet(0 .. n - 1)
    BY FS_Interval
  <2>2. S \subseteq 0 .. n - 1
    OBVIOUS
  <2> QED BY <2>1, <2>2, FS_Subset
<1>2. Cardinality(S) \in Nat
  BY <1>1, FS_CardinalityType
<1>3. n \notin S
  OBVIOUS
<1>4. ASSUME CharAt(n) = "newline" PROVE Cardinality(T) = Cardinality(S) + 1
  <2>1. T = S \cup {n}
    BY <1>4
  <2> HIDE DEF S, T
  <2>2. Cardinality(S \cup {n}) = Cardinality(S) + 1
    BY <1>1, <1>3, FS_AddElement
  <2> QED BY <2>1, <2>2
<1>5. ASSUME CharAt(n) # "newline" PROVE Cardinality(T) = Cardinality(S)
  <2>1. T = S
    BY <1>5
  <2> QED BY <2>1
<1> QED BY <1>2, <1>4, <1>5 DEF Lines

\* Several characters without a newline leave the count as it was.
LEMMA SameLine ==
  ASSUME NEW a \in Nat, CharAt(a) # "newline"
  PROVE  /\ Lines(a + 1) = Lines(a)
         /\ CharAt(a + 1) # "newline" => Lines(a + 2) = Lines(a)
         /\ CharAt(a + 1) # "newline" /\ CharAt(a + 2) # "newline" => Lines(a + 3) = Lines(a)
<1>1. Lines(a + 1) = Lines(a)
  BY LineStep
<1>2. CharAt(a + 1) # "newline" => Lines((a + 1) + 1) = Lines(a + 1)
  BY LineStep
<1>3. CharAt(a + 2) # "newline" => Lines((a + 2) + 1) = Lines(a + 2)
  BY LineStep
<1>4. (a + 1) + 1 = a + 2 /\ (a + 2) + 1 = a + 3
  OBVIOUS
<1> QED BY <1>1, <1>2, <1>3, <1>4

\* The newlines do not change.
LEMMA LinesStay == ASSUME source' = source PROVE \A n : Lines(n)' = Lines(n)
BY DEF Lines, CharAt

\* A step that returns nothing keeps the count if it counts what it reads.
LEMMA LinesInLoops ==
  ASSUME TypeInv, LineInv, source' = source, tokens' = tokens,
         line_num' = Lines(current_offset')
  PROVE  LineInv'
<1>1. line_num' = Lines(current_offset)'
  BY LinesStay DEF Lines
<1>2. \A k \in DOMAIN tokens' : tokens'[k].line_num = Lines(tokens'[k].to)
  BY DEF LineInv
<1>3. \A k \in DOMAIN tokens' : tokens'[k].line_num = Lines(tokens[k].to)'
  BY <1>2, LinesStay DEF Lines
<1> QED BY <1>1, <1>3 DEF LineInv

\* A token is returned with the lines up to its end.
LEMMA LinesReturned ==
  ASSUME TypeInv, LineInv, NEW type \in TokenTypes, NEW from \in Nat, NEW to \in Nat,
         Return(type, from, to), line_num = Lines(to)
  PROVE  LineInv'
<1> DEFINE t == [type |-> type, from |-> from, to |-> to, line_num |-> line_num]
<1>1. t \in Token /\ t.line_num = line_num /\ t.to = to
  BY DEF Token, TypeInv
<1> HIDE DEF t
<1>2. /\ tokens' = Append(tokens, t) /\ source' = source /\ tokens \in Seq(Token)
      /\ line_num' = line_num /\ current_offset' = to
  BY DEF Return, t, TypeInv
<1>3. line_num' = Lines(current_offset)'
  BY <1>2, LinesStay DEF Lines
<1>4. ASSUME NEW k \in DOMAIN tokens'
      PROVE  tokens'[k].line_num = Lines(tokens'[k].to)
  <2>1. CASE k \in DOMAIN tokens
    <3>1. tokens'[k] = tokens[k]
      BY <1>2, <2>1
    <3> QED BY <2>1, <3>1 DEF LineInv
  <2>2. CASE k \notin DOMAIN tokens
    <3>1. tokens'[k] = t
      BY <1>1, <1>2, <1>4, <2>2
    <3> QED BY <1>1, <3>1
  <2> QED BY <2>1, <2>2
<1>5. \A k \in DOMAIN tokens' : tokens'[k].line_num = Lines(tokens[k].to)'
  BY <1>2, <1>4, LinesStay DEF Lines
<1> QED BY <1>3, <1>5 DEF LineInv

\* Every loop counts the newlines it passes.
LEMMA LinesInside ==
  ASSUME TypeInv, LineInv, NoEscapedNewline,
         \/ skip_space \/ skip_comment \/ in_comment \/ after_comment \/ at_end
         \/ begin_string \/ begin_number \/ begin_identifier
         \/ in_string \/ in_number \/ in_identifier
  PROVE  LineInv'
<1>1. current_offset \in Nat /\ line_num = Lines(current_offset) /\ line_num \in Nat
  BY DEF TypeInv, LineInv
<1>2. source' = source /\ tokens' = tokens
  BY DEF skip_space, skip_comment, in_comment, after_comment, at_end, begin_string,
         begin_number, begin_identifier, Begin, in_string, in_number, in_identifier, Stay, Goto
<1>3. "newline" \notin Digits /\ "newline" \notin Letters /\ "newline" \in Blanks
  BY DEF Digits, Letters, Blanks
<1> SUFFICES line_num' = Lines(current_offset')
  BY <1>2, LinesInLoops
<1>4. CASE skip_space
  BY <1>1, <1>4, LineStep DEF skip_space, LineAfter, Peek
<1>5. CASE skip_comment
  BY <1>1, <1>5, SameLine DEF skip_comment, CommentStarts, Peek, Peek2
<1>6. CASE in_comment
  BY <1>1, <1>6, SameLine DEF in_comment, Peek
<1>7. CASE after_comment \/ at_end
  BY <1>1, <1>7 DEF after_comment, at_end, lexer
<1>8. CASE begin_string \/ begin_number \/ begin_identifier
  <2>1. /\ CharAt(current_offset) \notin Blanks /\ current_offset' = current_offset + 1
        /\ line_num' = line_num
    BY <1>8 DEF begin_string, begin_number, begin_identifier, Begin, TokenStarts, Peek
  <2> QED BY <1>1, <1>3, <2>1, SameLine
<1>9. CASE in_string
  <2>1. /\ current_offset' = current_offset + Escaped
        /\ line_num' = IF CharAt(current_offset) = "newline" THEN line_num + 1 ELSE line_num
    BY <1>9 DEF in_string, Peek
  <2>2. CASE CharAt(current_offset) = "backslash" /\ current_offset + 1 < Len(source)
    <3>1. source \in Seq(Characters) /\ Len(source) \in Nat /\ source \in Sources
      BY Reading DEF TypeInv
    <3>2. source[current_offset + 1] = "backslash"
      BY <1>1, <2>2, <3>1 DEF CharAt
    <3>3. source[(current_offset + 1) + 1] # "newline"
      <4>1. current_offset + 1 \in 1 .. Len(source) - 1
        BY <1>1, <2>2, <3>1
      <4> QED BY <3>1, <3>2, <4>1 DEF NoEscapedNewline
    <3>4. CharAt(current_offset + 1) # "newline"
      BY <3>3 DEF CharAt
    <3>5. Escaped = 2 /\ line_num' = line_num
      BY <2>1, <2>2 DEF Escaped, Peek
    <3> QED BY <1>1, <2>1, <2>2, <3>4, <3>5, SameLine
  <2>3. CASE ~(CharAt(current_offset) = "backslash" /\ current_offset + 1 < Len(source))
    <3>1. Escaped = 1
      BY <2>3 DEF Escaped, Peek
    <3> QED BY <1>1, <2>1, <3>1, LineStep
  <2> QED BY <2>2, <2>3
<1>10. CASE in_number
  <2>1. /\ line_num' = line_num
        /\ \/ CharAt(current_offset) \in Digits /\ current_offset' = current_offset + 1
           \/ /\ CharAt(current_offset) = "." /\ CharAt(current_offset + 1) \in Digits
              /\ current_offset' = current_offset + 2
           \/ current_offset' = current_offset
    BY <1>10 DEF in_number, PointBelongs, Peek, Peek2
  <2> QED BY <1>1, <1>3, <2>1, SameLine
<1>11. CASE in_identifier
  <2>1. /\ line_num' = line_num /\ CharAt(current_offset) \in Letters \cup Digits
        /\ current_offset' = current_offset + 1
    BY <1>11 DEF in_identifier, Peek
  <2> QED BY <1>1, <1>3, <2>1, SameLine
<1> QED BY <1>4, <1>5, <1>6, <1>7, <1>8, <1>9, <1>10, <1>11

\* The characters of an operator and those that start nothing are no newlines.
LEMMA LinesAtReturns ==
  ASSUME TypeInv, LineInv,
         \/ begin_operator \/ begin_unexpected \/ unterminated_string
         \/ string_ends \/ number_ends \/ identifier_ends
  PROVE  LineInv'
<1>1. /\ current_offset \in Nat /\ start_offset \in Nat
      /\ line_num = Lines(current_offset)
  BY DEF TypeInv, LineInv
<1>2. {"Identifier", "Integer", "Float", "String", "Error"} \subseteq TokenTypes
      /\ OperatorTypes \subseteq TokenTypes /\ KeywordTypes \subseteq TokenTypes
  BY DEF TokenTypes
<1>3. CASE begin_operator
  <2> DEFINE op == Operator(Peek, Peek2, CharAt(current_offset + 2))
  <2>1. Return(op.type, current_offset, current_offset + 1 + op.more)
    BY <1>3 DEF begin_operator
  <2>2. /\ op.type \in OperatorTypes /\ CharAt(current_offset) \in OperatorStarts
        /\ \/ op.more = 0
           \/ op.more = 1 /\ CharAt(current_offset + 1) \in OperatorStarts
           \/ /\ op.more = 2 /\ CharAt(current_offset + 1) \in OperatorStarts
              /\ CharAt(current_offset + 2) \in OperatorStarts
    BY <1>3, OperatorReads DEF begin_operator, Peek, Peek2
  <2>3. "newline" \notin OperatorStarts
    BY Starts
  <2> HIDE DEF op
  <2>4. op.type \in TokenTypes /\ current_offset + 1 + op.more \in Nat
    BY <1>1, <1>2, <2>2
  <2>5. Lines(current_offset + 1 + op.more) = Lines(current_offset)
    <3>1. CASE op.more = 0
      <4>1. current_offset + 1 + op.more = current_offset + 1
        BY <1>1, <3>1
      <4> QED BY <1>1, <2>2, <2>3, <4>1, SameLine
    <3>2. CASE op.more = 1
      <4>1. current_offset + 1 + op.more = current_offset + 2
        BY <1>1, <3>2
      <4> QED BY <1>1, <2>2, <2>3, <3>2, <4>1, SameLine
    <3>3. CASE op.more = 2
      <4>1. current_offset + 1 + op.more = current_offset + 3
        BY <1>1, <3>3
      <4> QED BY <1>1, <2>2, <2>3, <3>3, <4>1, SameLine
    <3> QED BY <2>2, <3>1, <3>2, <3>3
  <2> QED BY <1>1, <2>1, <2>4, <2>5, LinesReturned
<1>4. CASE begin_unexpected
  <2>1. Return("Error", current_offset, current_offset + 1) /\ "Error" \in TokenTypes
    BY <1>2, <1>4 DEF begin_unexpected
  <2>2. CharAt(current_offset) # "newline"
    BY <1>4 DEF begin_unexpected, TokenStarts, Blanks, Peek
  <2>3. Lines(current_offset + 1) = Lines(current_offset)
    BY <1>1, <2>2, SameLine
  <2> QED BY <1>1, <2>1, <2>3, LinesReturned
<1>5. CASE unterminated_string
  BY <1>1, <1>2, <1>5, LinesReturned DEF unterminated_string
<1>6. CASE string_ends
  <2>1. PICK type \in {"String", "Error"} : Return(type, start_offset, current_offset + 1)
    BY <1>6 DEF string_ends
  <2>2. Lines(current_offset + 1) = Lines(current_offset)
    BY <1>1, <1>6, SameLine DEF string_ends, Peek
  <2> QED BY <1>1, <1>2, <2>1, <2>2, LinesReturned
<1>7. CASE number_ends
  <2>1. PICK type \in {"Float", "Integer"} : Return(type, start_offset, current_offset)
    BY <1>7 DEF number_ends
  <2> QED BY <1>1, <1>2, <2>1, LinesReturned
<1>8. CASE identifier_ends
  <2> DEFINE type == keyword_or_identifier(Slice(start_offset, current_offset))
  <2>1. Return(type, start_offset, current_offset) /\ pc = "identifier"
    BY <1>8 DEF identifier_ends
  <2>2. type \in KeywordTypes \cup {"Identifier"}
    BY <2>1, NameTypes
  <2> HIDE DEF type
  <2> QED BY <1>1, <1>2, <2>1, <2>2, LinesReturned
<1> QED BY <1>3, <1>4, <1>5, <1>6, <1>7, <1>8

\* Unless a newline stands behind a backslash, each token and error records the
\* line its last character is on, whatever whitespace, comments and strings
\* contain: the line that the parser's messages print.
THEOREM LinesAreCounted == ASSUME NoEscapedNewline PROVE Spec => []LinesAreExact
<1>1. Init => LineInv
  <2> SUFFICES ASSUME Init PROVE LineInv
    OBVIOUS
  <2>1. tokens = <<>> /\ DOMAIN tokens = {} /\ line_num = 0 /\ current_offset = 0
    BY DEF Init
  <2>2. {q \in 0 .. 0 - 1 : CharAt(q) = "newline"} = {}
    OBVIOUS
  <2>3. Lines(0) = 0
    BY <2>2, FS_EmptySet DEF Lines
  <2> QED BY <2>1, <2>3 DEF LineInv
<1>2. TypeInv /\ LineInv /\ [Next]_vars => LineInv'
  <2> SUFFICES ASSUME TypeInv, LineInv, [Next]_vars PROVE LineInv'
    OBVIOUS
  <2>1. CASE UNCHANGED vars
    <3>1. /\ source' = source /\ tokens' = tokens /\ line_num' = Lines(current_offset')
      BY <2>1 DEF vars, lexer, LineInv
    <3> QED BY <3>1, LinesInLoops
  <2>2. CASE Done
    BY <2>1, <2>2 DEF Done
  <2> QED BY <2>1, <2>2, LinesInside, LinesAtReturns DEF Next
<1>3. LineInv => LinesAreExact
  BY DEF LineInv, LinesAreExact, Lines
<1> QED BY <1>1, <1>2, <1>3, TypeHolds, PTL DEF Spec

(***************************************************************************)
(* Each token is the longest piece of the source that its kind allows.     *)
(***************************************************************************)
Inside(t, chars) == \A q \in t.from .. t.to - 1 : CharAt(q) \in chars

\* What TokensAreLongest asks of a token, by its kind.
LongestOperator(t) ==
  /\ Text(t) = Spelling[t.type]
  /\ \A o \in DOMAIN Spelling :
       Len(Spelling[o]) > Len(Text(t)) =>
         \E q \in DOMAIN Spelling[o] : CharAt(t.from + q - 1) # Spelling[o][q]

LongestInteger(t) ==
  /\ Inside(t, Digits) /\ CharAt(t.to) \notin Digits
  /\ ~(CharAt(t.to) = "." /\ CharAt(t.to + 1) \in Digits)

LongestFloat(t) ==
  /\ Inside(t, Digits \cup {"."}) /\ CharAt(t.to) \notin Digits
  /\ \E p \in t.from + 1 .. t.to - 2 :
       \A q \in t.from .. t.to - 1 : CharAt(q) = "." <=> q = p

ClosedString(t) ==
  \/ /\ t.to - t.from >= 2 /\ Closes(t.from + 1, t.to - 1)
     /\ \A q \in t.from + 1 .. t.to - 2 : ~Closes(t.from + 1, q)
     /\ (t.type = "String") <=> ValidUtf8(Slice(t.from + 1, t.to - 1))
  \/ /\ t.type = "Error" /\ t.to = Len(source)
     /\ \A q \in t.from + 1 .. t.to - 1 : ~Closes(t.from + 1, q)

Unexpected(t) == t.to = t.from + 1 /\ Inside(t, {"dollar", "backslash", "lead", "cont"})

LongestName(t) ==
  /\ Inside(t, Letters \cup Digits) /\ CharAt(t.from) \notin Digits
  /\ CharAt(t.to) \notin Letters \cup Digits

Longest(t) ==
  \/ t.type \in OperatorTypes /\ LongestOperator(t)
  \/ t.type = "Integer" /\ LongestInteger(t)
  \/ t.type = "Float" /\ LongestFloat(t)
  \/ t.type = "String" /\ ClosedString(t)
  \/ t.type = "Error" /\ CharAt(t.from) = "quote" /\ ClosedString(t)
  \/ t.type = "Error" /\ CharAt(t.from) # "quote" /\ Unexpected(t)
  \/ t.type \in KeywordTypes \cup {"Identifier"} /\ LongestName(t)

\* The kinds of token are different types.
LEMMA KindsApart ==
  /\ OperatorTypes \cap (KeywordTypes \cup {"Identifier", "Integer", "Float", "String", "Error"})
       = {}
  /\ KeywordTypes \cap {"Identifier", "Integer", "Float", "String", "Error"} = {}
<1>1. OperatorTypes \cap {"Identifier", "Integer", "Float", "String", "Error"} = {}
  BY DEF OperatorTypes
<1>2. KeywordTypes \cap {"Identifier", "Integer", "Float", "String", "Error"} = {}
  BY DEF KeywordTypes
<1>3. OperatorTypes \cap KeywordTypes = {}
  BY SMTT(30) DEF OperatorTypes, KeywordTypes
<1> QED BY <1>1, <1>2, <1>3

\* TokensAreLongest, with its parts named.
AsAsked(t) ==
  CASE t.type \in DOMAIN Spelling -> LongestOperator(t)
    [] t.type = "Integer" -> LongestInteger(t)
    [] t.type = "Float" -> LongestFloat(t)
    [] t.type = "String" \/ (t.type = "Error" /\ CharAt(t.from) = "quote") -> ClosedString(t)
    [] t.type = "Error" /\ CharAt(t.from) # "quote" -> Unexpected(t)
    [] OTHER -> LongestName(t)

\* If each token is the longest of its kind, TokensAreLongest holds.
LEMMA LongestByKind ==
  ASSUME \A k \in DOMAIN tokens : Longest(tokens[k])
  PROVE  TokensAreLongest
<1>1. ASSUME NEW t, Longest(t) PROVE AsAsked(t)
  <2>1. CASE t.type \in OperatorTypes /\ LongestOperator(t)
    BY <2>1, SpellingTable, KindsApart DEF AsAsked
  <2>2. CASE t.type = "Integer" /\ LongestInteger(t)
    BY <2>2, SpellingTable, KindsApart DEF AsAsked
  <2>3. CASE t.type = "Float" /\ LongestFloat(t)
    BY <2>3, SpellingTable, KindsApart DEF AsAsked
  <2>4. CASE \/ t.type = "String" /\ ClosedString(t)
             \/ t.type = "Error" /\ CharAt(t.from) = "quote" /\ ClosedString(t)
    BY <2>4, SpellingTable, KindsApart DEF AsAsked
  <2>5. CASE t.type = "Error" /\ CharAt(t.from) # "quote" /\ Unexpected(t)
    BY <2>5, SpellingTable, KindsApart DEF AsAsked
  <2>6. CASE t.type \in KeywordTypes \cup {"Identifier"} /\ LongestName(t)
    BY <2>6, SpellingTable, KindsApart DEF AsAsked
  <2> QED BY <1>1, <2>1, <2>2, <2>3, <2>4, <2>5, <2>6 DEF Longest
<1>2. \A k \in DOMAIN tokens : AsAsked(tokens[k])
  BY <1>1
<1> QED BY <1>2, Zenon DEF TokensAreLongest, AsAsked, LongestOperator, LongestInteger, LongestFloat,
       ClosedString, Unexpected, LongestName, Inside

\* The character at an offset of a string that starts at from is not escaped: it
\* stands behind an even number of backslashes.
EvenRun(from, k) ==
  \E p \in from .. k :
    /\ (k - p) % 2 = 0
    /\ CharAt(p - 1) # "backslash"
    /\ \A q \in p .. k - 1 : CharAt(q) = "backslash"

\* What has been read of a string, a number, a name.
InString(from, to) ==
  /\ CharAt(from) = "quote"
  /\ \A q \in from + 1 .. to - 1 : ~Closes(from + 1, q)
  /\ to = Len(source) \/ EvenRun(from + 1, to)

InInteger(from, to) == \A q \in from .. to - 1 : CharAt(q) \in Digits

InFloat(from, to) ==
  /\ \A q \in from .. to - 1 : CharAt(q) \in Digits \cup {"."}
  /\ \E p \in from + 1 .. to - 2 : \A q \in from .. to - 1 : CharAt(q) = "." <=> q = p

InName(from, to) ==
  /\ CharAt(from) \in Letters
  /\ \A q \in from .. to - 1 : CharAt(q) \in Letters \cup Digits

LongestInv ==
  /\ pc = "string" => InString(start_offset, current_offset)
  /\ pc = "number" /\ ~found_point => InInteger(start_offset, current_offset)
  /\ pc = "number" /\ found_point => InFloat(start_offset, current_offset)
  /\ pc = "identifier" => InName(start_offset, current_offset)
  /\ \A k \in DOMAIN tokens : Longest(tokens[k])

\* A character behind an even number of backslashes is not escaped.
LEMMA EvenIsPlain ==
  ASSUME NEW from \in Nat, NEW k \in Nat, from >= 1, EvenRun(from, k)
  PROVE  ~IsEscaped(from, k)
<1> SUFFICES ASSUME IsEscaped(from, k) PROVE FALSE
  OBVIOUS
<1>1. PICK p \in from .. k :
        /\ (k - p) % 2 = 0
        /\ CharAt(p - 1) # "backslash"
        /\ \A q \in p .. k - 1 : CharAt(q) = "backslash"
  BY DEF EvenRun
<1>2. PICK r \in from .. k - 1 :
        /\ (k - r) % 2 = 1
        /\ CharAt(r - 1) # "backslash"
        /\ \A q \in r .. k - 1 : CharAt(q) = "backslash"
  BY DEF IsEscaped
<1>3. p # r
  BY <1>1, <1>2
<1>4. CASE p < r
  <2>1. r - 1 \in p .. k - 1
    BY <1>4
  <2> QED BY <1>1, <1>2, <2>1
<1>5. CASE r < p
  <2>1. p - 1 \in r .. k - 1
    BY <1>5
  <2> QED BY <1>1, <1>2, <2>1
<1> QED BY <1>3, <1>4, <1>5

\* Behind a backslash that is not escaped a character is.
LEMMA BackslashEscapes ==
  ASSUME NEW from \in Nat, NEW k \in Nat, EvenRun(from, k), CharAt(k) = "backslash"
  PROVE  IsEscaped(from, k + 1)
<1>1. PICK p \in from .. k :
        /\ (k - p) % 2 = 0
        /\ CharAt(p - 1) # "backslash"
        /\ \A q \in p .. k - 1 : CharAt(q) = "backslash"
  BY DEF EvenRun
<1>2. p \in from .. (k + 1) - 1 /\ ((k + 1) - p) % 2 = 1
  BY <1>1
<1>3. \A q \in p .. (k + 1) - 1 : q = k \/ q \in p .. k - 1
  OBVIOUS
<1>4. \A q \in p .. (k + 1) - 1 : CharAt(q) = "backslash"
  BY <1>1, <1>3
<1> QED BY <1>1, <1>2, <1>4 DEF IsEscaped

\* Behind the two characters of an escape nothing is escaped yet.
LEMMA BehindEscape ==
  ASSUME NEW from \in Nat, NEW k \in Nat, EvenRun(from, k), CharAt(k) = "backslash",
         from <= k
  PROVE  EvenRun(from, k + 2)
<1>1. CASE CharAt(k + 1) # "backslash"
  <2>1. k + 2 \in from .. k + 2 /\ ((k + 2) - (k + 2)) % 2 = 0 /\ (k + 2) - 1 = k + 1
    OBVIOUS
  <2>2. \A q \in k + 2 .. (k + 2) - 1 : CharAt(q) = "backslash"
    OBVIOUS
  <2> QED BY <1>1, <2>1, <2>2 DEF EvenRun
<1>2. CASE CharAt(k + 1) = "backslash"
  <2>1. PICK p \in from .. k :
          /\ (k - p) % 2 = 0
          /\ CharAt(p - 1) # "backslash"
          /\ \A q \in p .. k - 1 : CharAt(q) = "backslash"
    BY DEF EvenRun
  <2>2. p \in from .. k + 2 /\ ((k + 2) - p) % 2 = 0
    BY <2>1
  <2>3. \A q \in p .. (k + 2) - 1 : q = k + 1 \/ q = k \/ q \in p .. k - 1
    OBVIOUS
  <2>4. \A q \in p .. (k + 2) - 1 : CharAt(q) = "backslash"
    BY <1>2, <2>1, <2>3
  <2> QED BY <2>1, <2>2, <2>4 DEF EvenRun
<1> QED BY <1>1, <1>2

\* Behind a character that is no backslash nothing is escaped.
LEMMA BehindPlain ==
  ASSUME NEW from \in Nat, NEW k \in Nat, CharAt(k) # "backslash", from <= k + 1
  PROVE  EvenRun(from, k + 1)
<1>1. k + 1 \in from .. k + 1 /\ ((k + 1) - (k + 1)) % 2 = 0 /\ (k + 1) - 1 = k
  OBVIOUS
<1>2. \A q \in k + 1 .. (k + 1) - 1 : CharAt(q) = "backslash"
  OBVIOUS
<1> QED BY <1>1, <1>2 DEF EvenRun

\* An iteration of string() stays inside the string.
LEMMA StringGoesOn ==
  ASSUME TypeInv, NEW from \in Nat, InString(from, current_offset), from < current_offset,
         ~AtEnd, Peek # "quote"
  PROVE  InString(from, current_offset + Escaped)
<1>1. /\ current_offset \in Nat /\ Len(source) \in Nat /\ current_offset < Len(source)
      /\ CharAt(current_offset) # "quote" /\ CharAt(from) = "quote"
      /\ \A q \in from + 1 .. current_offset - 1 : ~Closes(from + 1, q)
      /\ EvenRun(from + 1, current_offset)
  BY Reading DEF TypeInv, InString, AtEnd, Peek
<1>2. ~Closes(from + 1, current_offset)
  BY <1>1 DEF Closes
<1>3. CASE CharAt(current_offset) = "backslash" /\ current_offset + 1 < Len(source)
  <2>1. Escaped = 2
    BY <1>3 DEF Escaped, Peek
  <2>2. IsEscaped(from + 1, current_offset + 1) /\ EvenRun(from + 1, current_offset + 2)
    BY <1>1, <1>3, BackslashEscapes, BehindEscape
  <2>3. \A q \in from + 1 .. (current_offset + 2) - 1 :
          q = current_offset + 1 \/ q = current_offset \/ q \in from + 1 .. current_offset - 1
    BY <1>1
  <2>4. \A q \in from + 1 .. (current_offset + 2) - 1 : ~Closes(from + 1, q)
    BY <1>1, <1>2, <2>2, <2>3 DEF Closes
  <2> QED BY <1>1, <2>1, <2>2, <2>4 DEF InString
<1>4. CASE ~(CharAt(current_offset) = "backslash" /\ current_offset + 1 < Len(source))
  <2>1. Escaped = 1
    BY <1>4 DEF Escaped, Peek
  <2>2. \/ current_offset + 1 = Len(source)
        \/ EvenRun(from + 1, current_offset + 1)
    BY <1>1, <1>4, BehindPlain
  <2>3. \A q \in from + 1 .. (current_offset + 1) - 1 :
          q = current_offset \/ q \in from + 1 .. current_offset - 1
    BY <1>1
  <2>4. \A q \in from + 1 .. (current_offset + 1) - 1 : ~Closes(from + 1, q)
    BY <1>1, <1>2, <2>3
  <2> QED BY <1>1, <2>1, <2>2, <2>4 DEF InString
<1> QED BY <1>3, <1>4

\* What has been said of a piece of the source stays true.
LEMMA LongestStays ==
  ASSUME source' = source
  PROVE  /\ \A t : Longest(t)' <=> Longest(t)
         /\ \A a, b : InString(a, b)' <=> InString(a, b)
         /\ \A a, b : InInteger(a, b)' <=> InInteger(a, b)
         /\ \A a, b : InFloat(a, b)' <=> InFloat(a, b)
         /\ \A a, b : InName(a, b)' <=> InName(a, b)
<1>1. \A k : CharAt(k)' = CharAt(k)
  BY BlankStays
<1>2. \A a, b : Slice(a, b)' = Slice(a, b)
  BY DEF Slice
<1>3. \A a, b : IsEscaped(a, b)' <=> IsEscaped(a, b)
  BY <1>1 DEF IsEscaped
<1>4. \A a, b : Closes(a, b)' <=> Closes(a, b)
  BY <1>1, <1>3 DEF Closes
<1>5. \A a, b : EvenRun(a, b)' <=> EvenRun(a, b)
  BY <1>1 DEF EvenRun
<1>6. \A t : LongestOperator(t)' <=> LongestOperator(t)
  BY <1>1, <1>2 DEF LongestOperator, Text
<1>7. \A t, chars : Inside(t, chars)' <=> Inside(t, chars)
  BY <1>1 DEF Inside
<1>8. \A t : LongestInteger(t)' <=> LongestInteger(t)
  BY <1>1, <1>7 DEF LongestInteger
<1>9. \A t : LongestFloat(t)' <=> LongestFloat(t)
  BY <1>1, <1>7 DEF LongestFloat
<1>10. \A t : ClosedString(t)' <=> ClosedString(t)
  BY <1>1, <1>2, <1>4 DEF ClosedString
<1>11. \A t : Unexpected(t)' <=> Unexpected(t)
  BY <1>1, <1>7 DEF Unexpected
<1>12. \A t : LongestName(t)' <=> LongestName(t)
  BY <1>1, <1>7 DEF LongestName
<1>13. \A t : Longest(t)' <=> Longest(t)
  BY <1>1, <1>6, <1>8, <1>9, <1>10, <1>11, <1>12 DEF Longest
<1>14. /\ \A a, b : InString(a, b)' <=> InString(a, b)
       /\ \A a, b : InInteger(a, b)' <=> InInteger(a, b)
       /\ \A a, b : InFloat(a, b)' <=> InFloat(a, b)
       /\ \A a, b : InName(a, b)' <=> InName(a, b)
  BY <1>1, <1>4, <1>5 DEF InString, InInteger, InFloat, InName
<1> QED BY <1>13, <1>14

\* A returned token that is the longest of its kind keeps the invariant.
LEMMA OneLongestMore ==
  ASSUME TypeInv, LongestInv, NEW type \in TokenTypes, NEW from \in Nat, NEW to \in Nat,
         Return(type, from, to),
         \A t \in Token : t.type = type /\ t.from = from /\ t.to = to => Longest(t)
  PROVE  LongestInv'
<1> DEFINE t == [type |-> type, from |-> from, to |-> to, line_num |-> line_num]
<1>1. t \in Token /\ t.type = type /\ t.from = from /\ t.to = to
  BY DEF Token, TypeInv
<1> HIDE DEF t
<1>2. /\ tokens' = Append(tokens, t) /\ source' = source /\ tokens \in Seq(Token)
      /\ pc' = "skip"
  BY DEF Return, t, TypeInv
<1>3. ASSUME NEW k \in DOMAIN tokens' PROVE Longest(tokens'[k])
  <2>1. CASE k \in DOMAIN tokens
    <3>1. tokens'[k] = tokens[k]
      BY <1>2, <2>1
    <3> QED BY <2>1, <3>1 DEF LongestInv
  <2>2. CASE k \notin DOMAIN tokens
    <3>1. tokens'[k] = t
      BY <1>1, <1>2, <1>3, <2>2
    <3> QED BY <1>1, <3>1
  <2> QED BY <2>1, <2>2
<1>4. \A k \in DOMAIN tokens' : Longest(tokens[k])'
  <2> SUFFICES ASSUME NEW k \in DOMAIN tokens' PROVE Longest(tokens[k])'
    OBVIOUS
  <2> DEFINE u == tokens'[k]
  <2>1. Longest(u)
    BY <1>3
  <2> QED BY <1>2, <2>1, LongestStays
<1> QED BY <1>2, <1>4 DEF LongestInv

\* An operator is the longest one.
LEMMA OperatorsAreLongest ==
  ASSUME TypeInv, LongestInv, begin_operator
  PROVE  LongestInv'
<1> DEFINE c1 == Peek2
           c2 == CharAt(current_offset + 2)
           op == Operator(Peek, c1, c2)
<1>1. /\ current_offset \in Nat /\ current_offset < Len(source) /\ Peek \in OperatorStarts
      /\ op.type \in OperatorTypes /\ op.more \in {0, 1, 2}
      /\ current_offset + 1 + op.more <= Len(source) /\ source \in Seq(Characters)
      /\ Len(source) \in Nat
  BY OperatorInside, Reading DEF TypeInv
<1>2. Return(op.type, current_offset, current_offset + 1 + op.more)
  BY DEF begin_operator
<1>3. /\ op.more = 0 => Spelling[op.type] = <<Peek>>
      /\ op.more = 1 => Spelling[op.type] = <<Peek, c1>>
      /\ op.more = 2 => Spelling[op.type] = <<Peek, c1, c2>>
  <2>1. Peek \in OperatorStarts
    BY <1>1
  <2>2. \/ op.more = 0 /\ Spelling[op.type] = <<Peek>>
        \/ op.more = 1 /\ Spelling[op.type] = <<Peek, c1>>
        \/ op.more = 2 /\ Spelling[op.type] = <<Peek, c1, c2>>
    BY <2>1, OperatorReads, Zenon
  <2> HIDE DEF op
  <2> QED BY <2>2
<1>4. \A o \in DOMAIN Spelling :
        Len(Spelling[o]) > 1 + op.more =>
          \E q \in DOMAIN Spelling[o] : <<Peek, c1, c2>>[q] # Spelling[o][q]
  <2> SUFFICES ASSUME NEW o \in DOMAIN Spelling,
                      Len(Spelling[o]) > 1 + Operator(Peek, c1, c2).more
               PROVE  \E q \in DOMAIN Spelling[o] : <<Peek, c1, c2>>[q] # Spelling[o][q]
    OBVIOUS
  <2>1. Peek \in OperatorStarts
    BY <1>1
  <2> HIDE DEF c1, c2, op
  <2> QED BY <2>1, NoLongerOperator
<1>5. /\ Peek = source[current_offset + 1]
      /\ op.more >= 1 => c1 = source[current_offset + 2]
      /\ op.more = 2 => c2 = source[current_offset + 3]
  <2> HIDE DEF op
  <2>1. (current_offset + 1) + 1 = current_offset + 2 /\ (current_offset + 2) + 1 = current_offset + 3
    BY <1>1
  <2> QED BY <1>1, <2>1 DEF Peek, Peek2, CharAt
<1> HIDE DEF op
<1>6. /\ Len(Slice(current_offset, current_offset + 1 + op.more)) = 1 + op.more
      /\ Slice(current_offset, current_offset + 1 + op.more) \in Seq(Characters)
      /\ \A k \in 1 .. 1 + op.more :
           Slice(current_offset, current_offset + 1 + op.more)[k] = source[current_offset + k]
  <2> DEFINE to == current_offset + 1 + op.more
             s == Slice(current_offset, to)
  <2>1. /\ current_offset + 1 \in 1 .. Len(source) + 1 /\ to \in 0 .. Len(source)
        /\ to - (current_offset + 1) + 1 = 1 + op.more
    BY <1>1
  <2>2. Len(s) = 1 + op.more /\ s \in Seq(Characters)
          /\ \A k \in 1 .. 1 + op.more : s[k] = source[(current_offset + 1) + k - 1]
    <3> HIDE DEF to
    <3>1. \A i \in current_offset + 1 .. to : source[i] \in Characters
      BY <1>1, <2>1
    <3>2. current_offset + 1 <= to /\ to \in Int /\ current_offset + 1 \in Int
      BY <1>1, <2>1
    <3> QED BY <2>1, <3>1, <3>2, SubSeqProperties DEF Slice
  <2>3. \A k \in 1 .. 1 + op.more : (current_offset + 1) + k - 1 = current_offset + k
    BY <1>1
  <2> QED BY <2>2, <2>3
<1>7. Slice(current_offset, current_offset + 1 + op.more) = Spelling[op.type]
  <2> DEFINE s == Slice(current_offset, current_offset + 1 + op.more)
  <2>1. Len(s) = 1 + op.more /\ s \in Seq(Characters)
          /\ \A k \in 1 .. 1 + op.more : s[k] = source[current_offset + k]
    BY <1>6
  <2>2. {Peek, c1, c2} \subseteq {Peek, c1, c2} \cup Characters
    OBVIOUS
  <2> HIDE DEF s
  <2>3. CASE op.more = 0
    <3>1. Len(s) = 1 /\ s[1] = Peek
      BY <1>5, <2>1, <2>3
    <3>2. s = <<Peek>>
      BY <2>1, <3>1
    <3> QED BY <1>3, <2>3, <3>2 DEF s
  <2>4. CASE op.more = 1
    <3>1. Len(s) = 2 /\ s[1] = Peek /\ s[2] = c1
      BY <1>5, <2>1, <2>4
    <3>2. s = <<Peek, c1>>
      BY <2>1, <3>1
    <3> QED BY <1>3, <2>4, <3>2 DEF s
  <2>5. CASE op.more = 2
    <3>1. Len(s) = 3 /\ s[1] = Peek /\ s[2] = c1 /\ s[3] = c2
      BY <1>5, <2>1, <2>5
    <3>2. s = <<Peek, c1, c2>>
      BY <2>1, <3>1
    <3> QED BY <1>3, <2>5, <3>2 DEF s
  <2> QED BY <1>1, <2>3, <2>4, <2>5
<1>8. ASSUME NEW t \in Token, t.type = op.type, t.from = current_offset,
             t.to = current_offset + 1 + op.more
      PROVE  Longest(t)
  <2>1. Text(t) = Spelling[op.type] /\ Len(Text(t)) = 1 + op.more
    BY <1>6, <1>7, <1>8 DEF Text
  <2>2. ASSUME NEW o \in DOMAIN Spelling, Len(Spelling[o]) > Len(Text(t))
        PROVE  \E q \in DOMAIN Spelling[o] : CharAt(t.from + q - 1) # Spelling[o][q]
    <3>1. PICK q \in DOMAIN Spelling[o] : <<Peek, c1, c2>>[q] # Spelling[o][q]
      BY <1>4, <2>1, <2>2
    <3>2. DOMAIN Spelling[o] \subseteq {1, 2, 3}
      BY SpellingForms DEF Forms
    <3>3. <<Peek, c1, c2>>[q] = CharAt(current_offset + q - 1)
      <4>1. /\ current_offset + 1 - 1 = current_offset
            /\ current_offset + 2 - 1 = current_offset + 1
            /\ current_offset + 3 - 1 = current_offset + 2
        BY <1>1
      <4> QED BY <3>1, <3>2, <4>1 DEF Peek, Peek2
    <3> QED BY <1>8, <3>1, <3>3
  <2> QED BY <1>1, <1>8, <2>1, <2>2 DEF Longest, LongestOperator
<1>9. op.type \in TokenTypes /\ current_offset + 1 + op.more \in Nat
  BY <1>1 DEF TokenTypes
<1> QED BY <1>1, <1>2, <1>8, <1>9, OneLongestMore

\* A character that starts nothing is an error of its own.
LEMMA UnexpectedIsAlone ==
  ASSUME TypeInv, LongestInv, begin_unexpected
  PROVE  LongestInv'
<1>1. /\ Return("Error", current_offset, current_offset + 1) /\ current_offset \in Nat
      /\ current_offset < Len(source) /\ CharAt(current_offset) \in Characters
      /\ CharAt(current_offset) \notin Blanks
      /\ CharAt(current_offset) \notin OperatorStarts \cup Digits \cup Letters \cup {"quote"}
  BY Reading DEF begin_unexpected, TokenStarts, AtEnd, Peek, TypeInv
<1>2. CharAt(current_offset) \in {"dollar", "backslash", "lead", "cont"}
  <2>1. Characters \subseteq OperatorStarts \cup Digits \cup Letters \cup Blanks
                               \cup {"quote", "dollar", "backslash", "lead", "cont"}
    BY Starts DEF Characters
  <2> QED BY <1>1, <2>1
<1>3. ASSUME NEW t \in Token, t.type = "Error", t.from = current_offset,
             t.to = current_offset + 1
      PROVE  Longest(t)
  <2>1. \A q \in t.from .. t.to - 1 : q = current_offset
    BY <1>1, <1>3
  <2>2. Inside(t, {"dollar", "backslash", "lead", "cont"})
    BY <1>2, <2>1 DEF Inside
  <2>3. CharAt(t.from) # "quote"
    BY <1>2, <1>3
  <2> QED BY <1>3, <2>2, <2>3 DEF Longest, Unexpected
<1>4. "Error" \in TokenTypes
  BY DEF TokenTypes
<1> QED BY <1>1, <1>3, <1>4, OneLongestMore

\* A string ends at its first quote that is not escaped, or not at all.
LEMMA StringsAreLongest ==
  ASSUME TypeInv, LongestInv, unterminated_string \/ string_ends
  PROVE  LongestInv'
<1>1. /\ current_offset \in Nat /\ start_offset \in Nat /\ start_offset < current_offset
      /\ current_offset <= Len(source) /\ Len(source) \in Nat
      /\ InString(start_offset, current_offset)
  BY Reading DEF TypeInv, LongestInv, unterminated_string, string_ends
<1>2. {"String", "Error"} \subseteq TokenTypes
  BY DEF TokenTypes
<1>3. CASE unterminated_string
  <2>1. Return("Error", start_offset, current_offset) /\ current_offset = Len(source)
    BY <1>1, <1>3 DEF unterminated_string, AtEnd
  <2>2. ASSUME NEW t \in Token, t.type = "Error", t.from = start_offset,
               t.to = current_offset
        PROVE  Longest(t)
    <3>1. ClosedString(t)
      BY <1>1, <2>1, <2>2 DEF ClosedString, InString
    <3>2. CharAt(t.from) = "quote"
      BY <1>1, <2>2 DEF InString
    <3> QED BY <2>2, <3>1, <3>2 DEF Longest
  <2> QED BY <1>1, <1>2, <2>1, <2>2, OneLongestMore
<1>4. CASE string_ends
  <2> DEFINE valid == ValidUtf8(Slice(start_offset + 1, current_offset))
  <2>1. PICK type \in {"String", "Error"} :
          /\ Return(type, start_offset, current_offset + 1)
          /\ type = "String" <=> valid
    BY <1>4 DEF string_ends
  <2>2. CharAt(current_offset) = "quote" /\ current_offset # Len(source)
    BY <1>1, <1>4, Reading DEF string_ends, Peek, CharAt
  <2>3. EvenRun(start_offset + 1, current_offset)
    BY <1>1, <2>2 DEF InString
  <2>4. start_offset + 1 \in Nat /\ start_offset + 1 >= 1
    BY <1>1
  <2>5. Closes(start_offset + 1, current_offset)
    BY <1>1, <2>2, <2>3, <2>4, EvenIsPlain DEF Closes
  <2>6. \A q \in start_offset + 1 .. current_offset - 1 : ~Closes(start_offset + 1, q)
    BY <1>1 DEF InString
  <2>7. ASSUME NEW t \in Token, t.type = type, t.from = start_offset,
               t.to = current_offset + 1
        PROVE  Longest(t)
    <3>1. /\ t.to - 1 = current_offset /\ t.to - 2 = current_offset - 1
          /\ t.to - t.from >= 2
      BY <1>1, <2>7
    <3>2. t.type = "String" <=> ValidUtf8(Slice(t.from + 1, t.to - 1))
      BY <2>1, <2>7, <3>1
    <3> HIDE DEF valid
    <3>3. ClosedString(t)
      BY <2>5, <2>6, <2>7, <3>1, <3>2 DEF ClosedString
    <3>4. CharAt(t.from) = "quote" /\ t.type \in {"String", "Error"}
      BY <1>1, <2>1, <2>7 DEF InString
    <3> QED BY <3>3, <3>4 DEF Longest
  <2>8. type \in TokenTypes /\ current_offset + 1 \in Nat
    BY <1>1, <1>2, <2>1
  <2> QED BY <1>1, <2>1, <2>7, <2>8, OneLongestMore
<1> QED BY <1>3, <1>4

\* Digits do not go on behind a number.
LEMMA NumbersAreLongest ==
  ASSUME TypeInv, LongestInv, number_ends
  PROVE  LongestInv'
<1>1. /\ current_offset \in Nat /\ start_offset \in Nat /\ start_offset < current_offset
      /\ CharAt(current_offset) \notin Digits
  BY DEF TypeInv, number_ends, Peek
<1>2. {"Float", "Integer"} \subseteq TokenTypes
  BY DEF TokenTypes
<1>3. CASE found_point
  <2>1. Return("Float", start_offset, current_offset) /\ InFloat(start_offset, current_offset)
    BY <1>3 DEF number_ends, LongestInv
  <2>2. ASSUME NEW t \in Token, t.type = "Float", t.from = start_offset,
               t.to = current_offset
        PROVE  Longest(t)
    BY <1>1, <2>1, <2>2 DEF Longest, LongestFloat, InFloat, Inside
  <2> QED BY <1>1, <1>2, <2>1, <2>2, OneLongestMore
<1>4. CASE ~found_point
  <2>1. /\ Return("Integer", start_offset, current_offset)
        /\ InInteger(start_offset, current_offset) /\ CharAt(current_offset) # "."
    BY <1>4 DEF number_ends, LongestInv, Peek
  <2>2. ASSUME NEW t \in Token, t.type = "Integer", t.from = start_offset,
               t.to = current_offset
        PROVE  Longest(t)
    BY <1>1, <2>1, <2>2 DEF Longest, LongestInteger, InInteger, Inside
  <2> QED BY <1>1, <1>2, <2>1, <2>2, OneLongestMore
<1> QED BY <1>3, <1>4

\* Nor letters and digits behind a name.
LEMMA NamesAreLongest ==
  ASSUME TypeInv, LongestInv, identifier_ends
  PROVE  LongestInv'
<1> DEFINE type == keyword_or_identifier(Slice(start_offset, current_offset))
<1>1. /\ Return(type, start_offset, current_offset) /\ pc = "identifier"
      /\ CharAt(current_offset) \notin Letters \cup Digits
      /\ InName(start_offset, current_offset)
  BY DEF identifier_ends, Peek, LongestInv
<1>2. type \in KeywordTypes \cup {"Identifier"}
  BY <1>1, NameTypes
<1>3. current_offset \in Nat /\ start_offset \in Nat
  BY DEF TypeInv
<1> HIDE DEF type
<1>4. ASSUME NEW t \in Token, t.type = type, t.from = start_offset, t.to = current_offset
      PROVE  Longest(t)
  <2>1. CharAt(t.from) \notin Digits
    BY <1>1, <1>4 DEF InName, Letters, Digits
  <2>2. LongestName(t)
    BY <1>1, <1>4, <2>1 DEF InName, LongestName, Inside
  <2> QED BY <1>2, <1>4, <2>2 DEF Longest
<1>5. type \in TokenTypes
  BY <1>2 DEF TokenTypes
<1> QED BY <1>1, <1>3, <1>4, <1>5, OneLongestMore

\* What is said of the piece that the lexer is in depends on where it starts and
\* how far it has been read.
LEMMA PiecesMove ==
  ASSUME source' = source
  PROVE  /\ InString(start_offset, current_offset)' <=> InString(start_offset', current_offset')
         /\ InInteger(start_offset, current_offset)' <=> InInteger(start_offset', current_offset')
         /\ InFloat(start_offset, current_offset)' <=> InFloat(start_offset', current_offset')
         /\ InName(start_offset, current_offset)' <=> InName(start_offset', current_offset')
<1>1. InString(start_offset, current_offset)' <=> InString(start_offset', current_offset')
  BY DEF InString, EvenRun, Closes, IsEscaped, CharAt
<1>2. /\ InInteger(start_offset, current_offset)' <=> InInteger(start_offset', current_offset')
      /\ InFloat(start_offset, current_offset)' <=> InFloat(start_offset', current_offset')
      /\ InName(start_offset, current_offset)' <=> InName(start_offset', current_offset')
  BY DEF InInteger, InFloat, InName, CharAt
<1> QED BY <1>1, <1>2

\* Every loop goes on with the token it is in.
LEMMA LoopsGoOn ==
  ASSUME TypeInv, LongestInv,
         \/ skip_space \/ skip_comment \/ in_comment \/ after_comment \/ at_end
         \/ begin_string \/ begin_number \/ begin_identifier
         \/ in_string \/ in_number \/ in_identifier
  PROVE  LongestInv'
<1>1. current_offset \in Nat /\ start_offset \in Nat /\ Len(source) \in Nat
        /\ found_point \in BOOLEAN
  BY Reading DEF TypeInv
<1>2. source' = source /\ tokens' = tokens
  BY DEF skip_space, skip_comment, in_comment, after_comment, at_end, begin_string,
         begin_number, begin_identifier, Begin, in_string, in_number, in_identifier, Stay, Goto
<1>3. \A k \in DOMAIN tokens' : Longest(tokens[k])'
  <2> SUFFICES ASSUME NEW k \in DOMAIN tokens' PROVE Longest(tokens[k])'
    OBVIOUS
  <2> DEFINE u == tokens[k]
  <2>1. Longest(u)
    BY <1>2 DEF LongestInv
  <2> QED BY <1>2, <2>1, LongestStays
<1>4. "quote" \notin Digits /\ "quote" \notin Letters /\ "." \notin Digits
        /\ Digits \cap Letters = {}
  BY DEF Digits, Letters
<1> SUFFICES /\ pc' = "string" => InString(start_offset', current_offset')
             /\ pc' = "number" /\ ~found_point' => InInteger(start_offset', current_offset')
             /\ pc' = "number" /\ found_point' => InFloat(start_offset', current_offset')
             /\ pc' = "identifier" => InName(start_offset', current_offset')
  BY <1>2, <1>3, PiecesMove DEF LongestInv
<1>5. CASE skip_space \/ skip_comment \/ in_comment \/ after_comment \/ at_end
  BY <1>5 DEF skip_space, skip_comment, in_comment, after_comment, at_end, Stay, Goto
<1>6. ASSUME begin_string \/ begin_number \/ begin_identifier
      PROVE  /\ start_offset' = current_offset /\ current_offset' = current_offset + 1
             /\ found_point' = FALSE
             /\ \A q \in start_offset' .. current_offset' - 1 : q = current_offset
  BY <1>1, <1>6 DEF begin_string, begin_number, begin_identifier, Begin
<1>7. CASE begin_string
  <2>1. CharAt(current_offset) = "quote" /\ pc' = "string"
    BY <1>7 DEF begin_string, Begin, Peek
  <2>2. \A q \in current_offset + 1 .. (current_offset + 1) - 1 : ~Closes(current_offset + 1, q)
    BY <1>1
  <2>3. EvenRun(current_offset + 1, current_offset + 1)
    BY <1>1, <2>1, BehindPlain
  <2>4. InString(current_offset, current_offset + 1)
    BY <2>1, <2>2, <2>3 DEF InString
  <2> QED BY <1>6, <1>7, <2>1, <2>4
<1>8. CASE begin_number
  <2>1. CharAt(current_offset) \in Digits /\ pc' = "number"
    BY <1>8 DEF begin_number, Begin, Peek
  <2> QED BY <1>6, <1>8, <2>1 DEF InInteger
<1>9. CASE begin_identifier
  <2>1. CharAt(current_offset) \in Letters /\ pc' = "identifier"
    BY <1>9 DEF begin_identifier, Begin, Peek
  <2> QED BY <1>6, <1>9, <2>1 DEF InName
<1>10. CASE in_string
  <2>1. /\ pc = "string" /\ pc' = "string" /\ ~AtEnd /\ Peek # "quote"
        /\ start_offset' = start_offset /\ current_offset' = current_offset + Escaped
    BY <1>10 DEF in_string, Stay, Goto
  <2>2. InString(start_offset, current_offset) /\ start_offset < current_offset
    BY <2>1 DEF LongestInv, TypeInv
  <2>3. InString(start_offset, current_offset + Escaped)
    BY <1>1, <2>1, <2>2, StringGoesOn
  <2> QED BY <2>1, <2>3
<1>11. CASE in_number
  <2>1. /\ pc = "number" /\ pc' = "number" /\ start_offset' = start_offset
        /\ start_offset < current_offset
        /\ ~found_point => InInteger(start_offset, current_offset)
        /\ found_point => InFloat(start_offset, current_offset)
    BY <1>11 DEF in_number, LongestInv, TypeInv
  <2>2. CASE CharAt(current_offset) \in Digits /\ current_offset' = current_offset + 1
               /\ found_point' = found_point
    <3>1. \A q \in start_offset .. (current_offset + 1) - 1 :
            q = current_offset \/ q \in start_offset .. current_offset - 1
      BY <1>1
    <3>2. ASSUME ~found_point PROVE InInteger(start_offset, current_offset + 1)
      BY <2>1, <2>2, <3>1, <3>2 DEF InInteger
    <3>3. ASSUME found_point PROVE InFloat(start_offset, current_offset + 1)
      <4>1. PICK p \in start_offset + 1 .. current_offset - 2 :
              \A q \in start_offset .. current_offset - 1 : CharAt(q) = "." <=> q = p
        BY <2>1, <3>3 DEF InFloat
      <4>2. p \in start_offset + 1 .. (current_offset + 1) - 2 /\ p # current_offset
        BY <1>1, <4>1
      <4>3. \A q \in start_offset .. (current_offset + 1) - 1 : CharAt(q) = "." <=> q = p
        BY <1>4, <2>2, <3>1, <4>1, <4>2
      <4>4. \A q \in start_offset .. (current_offset + 1) - 1 : CharAt(q) \in Digits \cup {"."}
        BY <2>1, <2>2, <3>1, <3>3 DEF InFloat
      <4> QED BY <4>2, <4>3, <4>4 DEF InFloat
    <3> QED BY <2>1, <2>2, <3>2, <3>3
  <2>3. CASE /\ CharAt(current_offset) = "." /\ CharAt(current_offset + 1) \in Digits
             /\ ~found_point /\ current_offset' = current_offset + 2 /\ found_point' = TRUE
    <3>1. \A q \in start_offset .. (current_offset + 2) - 1 :
            \/ q = current_offset + 1 \/ q = current_offset
            \/ q \in start_offset .. current_offset - 1 /\ q # current_offset
      BY <1>1
    <3>2. InInteger(start_offset, current_offset)
      BY <2>1, <2>3
    <3>3. current_offset \in start_offset + 1 .. (current_offset + 2) - 2
            /\ current_offset + 1 # current_offset
      BY <1>1, <2>1
    <3>4. \A q \in start_offset .. (current_offset + 2) - 1 :
            CharAt(q) = "." <=> q = current_offset
      BY <1>4, <2>3, <3>1, <3>2, <3>3 DEF InInteger
    <3>5. \A q \in start_offset .. (current_offset + 2) - 1 : CharAt(q) \in Digits \cup {"."}
      BY <2>3, <3>1, <3>2 DEF InInteger
    <3>6. InFloat(start_offset, current_offset + 2)
      BY <3>3, <3>4, <3>5 DEF InFloat
    <3> QED BY <2>1, <2>3, <3>6
  <2>4. CASE current_offset' = current_offset /\ found_point' = found_point
    BY <2>1, <2>4
  <2> QED BY <1>11, <2>2, <2>3, <2>4 DEF in_number, PointBelongs, Peek, Peek2
<1>12. CASE in_identifier
  <2>1. /\ pc = "identifier" /\ pc' = "identifier" /\ start_offset' = start_offset
        /\ current_offset' = current_offset + 1
        /\ CharAt(current_offset) \in Letters \cup Digits
        /\ InName(start_offset, current_offset)
    BY <1>12 DEF in_identifier, Stay, Goto, Peek, LongestInv
  <2>2. \A q \in start_offset .. (current_offset + 1) - 1 :
          q = current_offset \/ q \in start_offset .. current_offset - 1
    BY <1>1
  <2>3. InName(start_offset, current_offset + 1)
    BY <2>1, <2>2 DEF InName
  <2> QED BY <2>1, <2>3
<1> QED BY <1>5, <1>7, <1>8, <1>9, <1>10, <1>11, <1>12

\* Each token is the longest piece of the source that its kind allows: of
\* operators, numbers and names, and of strings up to their closing quote, in
\* every source.
THEOREM LongestTokens == Spec => []TokensAreLongest
<1>1. Init => LongestInv
  BY DEF Init, LongestInv
<1>2. TypeInv /\ LongestInv /\ [Next]_vars => LongestInv'
  <2> SUFFICES ASSUME TypeInv, LongestInv, [Next]_vars PROVE LongestInv'
    OBVIOUS
  <2>1. CASE UNCHANGED vars
    <3>1. /\ source' = source /\ tokens' = tokens /\ pc' = pc /\ found_point' = found_point
          /\ current_offset' = current_offset /\ start_offset' = start_offset
      BY <2>1 DEF vars, lexer
    <3>2. \A k \in DOMAIN tokens' : Longest(tokens[k])'
      <4> SUFFICES ASSUME NEW k \in DOMAIN tokens' PROVE Longest(tokens[k])'
        OBVIOUS
      <4> DEFINE u == tokens[k]
      <4>1. Longest(u)
        BY <3>1 DEF LongestInv
      <4> QED BY <3>1, <4>1, LongestStays
    <3>3. /\ InString(start_offset, current_offset)' <=> InString(start_offset, current_offset)
          /\ InInteger(start_offset, current_offset)' <=> InInteger(start_offset, current_offset)
          /\ InFloat(start_offset, current_offset)' <=> InFloat(start_offset, current_offset)
          /\ InName(start_offset, current_offset)' <=> InName(start_offset, current_offset)
      BY <3>1, PiecesMove
    <3> QED BY <3>1, <3>2, <3>3 DEF LongestInv
  <2>2. CASE Done
    BY <2>1, <2>2 DEF Done
  <2> QED BY <2>1, <2>2, LoopsGoOn, OperatorsAreLongest, UnexpectedIsAlone,
             StringsAreLongest, NumbersAreLongest, NamesAreLongest DEF Next
<1>3. LongestInv => TokensAreLongest
  BY LongestByKind DEF LongestInv
<1> QED BY <1>1, <1>2, <1>3, TypeHolds, PTL DEF Spec

(***************************************************************************)
(* Keywords are told from names.                                           *)
(***************************************************************************)

\* The type of a name is the keyword that it spells, nil excepted: the code
\* looks for "nii" in its place.
Named(t) ==
  /\ t.type = "Identifier" => \A w \in KeywordTypes \ {"Nil"} : Text(t) # Keywords[w]
  /\ t.type \in KeywordTypes \ {"Nil"} => Text(t) = Keywords[t.type]
  /\ t.type = "Nil" => Text(t) = <<"n", "i", "i">>

NameInv == \A k \in DOMAIN tokens : Named(tokens[k])

\* A returned token keeps the names right if it is right.
LEMMA OneNameMore ==
  ASSUME TypeInv, NameInv, NEW type \in TokenTypes, NEW from \in Nat, NEW to \in Nat,
         Return(type, from, to),
         \A t \in Token : t.type = type /\ t.from = from /\ t.to = to => Named(t)
  PROVE  NameInv'
<1> DEFINE t == [type |-> type, from |-> from, to |-> to, line_num |-> line_num]
<1>1. t \in Token /\ t.type = type /\ t.from = from /\ t.to = to
  BY DEF Token, TypeInv
<1> HIDE DEF t
<1>2. tokens' = Append(tokens, t) /\ source' = source /\ tokens \in Seq(Token)
  BY DEF Return, t, TypeInv
<1>3. ASSUME NEW k \in DOMAIN tokens' PROVE Named(tokens'[k])
  <2>1. CASE k \in DOMAIN tokens
    <3>1. tokens'[k] = tokens[k]
      BY <1>2, <2>1
    <3> QED BY <2>1, <3>1 DEF NameInv
  <2>2. CASE k \notin DOMAIN tokens
    <3>1. tokens'[k] = t
      BY <1>1, <1>2, <1>3, <2>2
    <3> QED BY <1>1, <3>1
  <2> QED BY <2>1, <2>2
<1>4. \A k \in DOMAIN tokens' : Named(tokens[k])'
  BY <1>2, <1>3 DEF Named, Text, Slice
<1> QED BY <1>4 DEF NameInv

\* Every step keeps the names right: what is no name has another type, and a
\* name is typed by its text.
LEMMA NamesStep ==
  ASSUME TypeInv, NameInv, [Next]_vars
  PROVE  NameInv'
<1>1. CASE source' = source /\ tokens' = tokens
  BY <1>1 DEF NameInv, Named, Text, Slice
<1>2. ASSUME NEW type \in TokenTypes, NEW from \in Nat, NEW to \in Nat,
             Return(type, from, to), type \notin KeywordTypes \cup {"Identifier"}
      PROVE  NameInv'
  <2>1. \A t \in Token : t.type = type => Named(t)
    BY <1>2 DEF Named, KeywordTypes
  <2> QED BY <1>2, <2>1, OneNameMore
<1>3. /\ current_offset \in Nat /\ start_offset \in Nat
      /\ OperatorTypes \subseteq TokenTypes /\ KeywordTypes \subseteq TokenTypes
      /\ {"Identifier", "Integer", "Float", "String", "Error"} \subseteq TokenTypes
  BY DEF TypeInv, TokenTypes
<1>4. CASE begin_operator
  <2> DEFINE op == Operator(Peek, Peek2, CharAt(current_offset + 2))
  <2>1. op.type \in OperatorTypes /\ op.more \in {0, 1, 2}
    BY <1>4, OperatorInside
  <2>2. Return(op.type, current_offset, current_offset + 1 + op.more)
    BY <1>4 DEF begin_operator
  <2> HIDE DEF op
  <2>3. op.type \in TokenTypes /\ op.type \notin KeywordTypes \cup {"Identifier"}
          /\ current_offset + 1 + op.more \in Nat
    BY <1>3, <2>1, KindsApart
  <2> QED BY <1>2, <1>3, <2>2, <2>3
<1>5. CASE begin_unexpected \/ unterminated_string \/ string_ends \/ number_ends
  <2>1. PICK type \in {"Integer", "Float", "String", "Error"}, from \in Nat, to \in Nat :
          Return(type, from, to)
    BY <1>3, <1>5 DEF begin_unexpected, unterminated_string, string_ends, number_ends
  <2>2. type \in TokenTypes /\ type \notin KeywordTypes \cup {"Identifier"}
    BY <1>3, <2>1, KindsApart
  <2> QED BY <1>2, <2>1, <2>2
<1>6. CASE identifier_ends
  <2> DEFINE text == Slice(start_offset, current_offset)
             type == keyword_or_identifier(text)
  <2>1. Return(type, start_offset, current_offset) /\ pc = "identifier"
    BY <1>6 DEF identifier_ends
  <2>2. text \in Seq(Characters) /\ Len(text) >= 1 /\ type \in KeywordTypes \cup {"Identifier"}
    BY <2>1, NameTypes
  <2> HIDE DEF text
  <2>3. \/ type = "Identifier"
        \/ type \in KeywordTypes \ {"Nil"} /\ text = Keywords[type]
        \/ type = "Nil" /\ text = <<"n", "i", "i">>
    BY <2>2, KeywordsAreSpelt
  <2>4. \A w \in KeywordTypes \ {"Nil"} : text = Keywords[w] => type = w
    BY <2>2, KeywordsAreFound
  <2>5. "Identifier" \notin KeywordTypes
    BY KindsApart
  <2> HIDE DEF type
  <2>6. ASSUME NEW t \in Token, t.type = type, t.from = start_offset, t.to = current_offset
        PROVE  Named(t)
    <3>1. Text(t) = text
      BY <2>6 DEF Text, text
    <3> QED BY <2>3, <2>4, <2>5, <2>6, <3>1 DEF Named
  <2>7. type \in TokenTypes
    BY <1>3, <2>2
  <2> QED BY <1>3, <2>1, <2>6, <2>7, OneNameMore
<1>7. CASE \/ skip_space \/ skip_comment \/ in_comment \/ after_comment \/ at_end
           \/ begin_string \/ begin_number \/ begin_identifier
           \/ in_string \/ in_number \/ in_identifier \/ Done \/ UNCHANGED vars
  <2>1. source' = source /\ tokens' = tokens
    BY <1>7 DEF skip_space, skip_comment, in_comment, after_comment, at_end, begin_string,
       begin_number, begin_identifier, Begin, in_string, in_number, in_identifier, Stay, Goto,
       Done, vars
  <2> QED BY <1>1, <2>1
<1> QED BY <1>4, <1>5, <1>6, <1>7 DEF Next

\* The names are right.
LEMMA NamesHold == Spec => []NameInv
<1>1. Init => NameInv
  BY DEF Init, NameInv
<1>2. TypeInv /\ NameInv /\ [Next]_vars => NameInv'
  BY NamesStep
<1> QED BY <1>1, <1>2, TypeHolds, PTL DEF Spec

\* A name is taken for a keyword exactly when it is spelt like that keyword, in
\* every source that has no token "nil" or "nii".
THEOREM KeywordsAreRecognised ==
  Spec => [](\/ KeywordsRecognised
             \/ \E k \in DOMAIN tokens :
                  Text(tokens[k]) \in {<<"n", "i", "l">>, <<"n", "i", "i">>})
<1>1. ASSUME NameInv,
             \A k \in DOMAIN tokens : Text(tokens[k]) # <<"n", "i", "l">>
                                        /\ Text(tokens[k]) # <<"n", "i", "i">>
      PROVE  KeywordsRecognised
  <2>1. DOMAIN Keywords = KeywordTypes /\ Keywords["Nil"] = <<"n", "i", "l">>
    BY KeywordTable
  <2> QED BY <1>1, <2>1 DEF NameInv, Named, KeywordsRecognised
<1>2. NameInv => \/ KeywordsRecognised
                 \/ \E k \in DOMAIN tokens :
                      Text(tokens[k]) \in {<<"n", "i", "l">>, <<"n", "i", "i">>}
  BY <1>1
<1> QED BY <1>2, NamesHold, PTL

\* The keyword nil is spelt "nii", and "nil" is a name: what keyword_or_identifier
\* makes of them, in every source.
THEOREM NilIsMisspelt ==
  Spec => [](\A k \in DOMAIN tokens :
               /\ tokens[k].type = "Nil" => Text(tokens[k]) = <<"n", "i", "i">>
               /\ Text(tokens[k]) = <<"n", "i", "l">> => tokens[k].type # "Nil")
<1>1. <<"n", "i", "l">> # <<"n", "i", "i">>
  OBVIOUS
<1>2. NameInv => \A k \in DOMAIN tokens :
                   /\ tokens[k].type = "Nil" => Text(tokens[k]) = <<"n", "i", "i">>
                   /\ Text(tokens[k]) = <<"n", "i", "l">> => tokens[k].type # "Nil"
  BY <1>1 DEF NameInv, Named
<1> QED BY <1>2, NamesHold, PTL

=============================================================================
