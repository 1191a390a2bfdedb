--------------------------- MODULE BytecodeProofs ---------------------------
(***************************************************************************)
(* Proofs that the code generator and the disassembler agree: whatever the *)
(* program, emit() writes a sequence of whole instructions, and            *)
(* chunk_disassemble() reads exactly these; and that these instructions    *)
(* are the program: a stack machine that executes them is left with the    *)
(* values of its statements.                                               *)
(***************************************************************************)
EXTENDS ReplProofs, Preliminaries

(***************************************************************************)
(* Numbers of four bytes.                                                  *)
(***************************************************************************)

\* Quotient and remainder are the only numbers of their kind.
LEMMA DivisionIsUnique ==
  ASSUME NEW n \in Nat, NEW b \in Nat, NEW q \in Nat, NEW r \in 0..(b - 1), n = b * q + r
  PROVE  n \div b = q /\ n % b = r
<1> DEFINE p == n \div b
           s == n % b
<1>1. b > 0
  OBVIOUS
<1>2. p \in Nat /\ s \in 0..(b - 1) /\ n = b * p + s
  BY <1>1, Division
<1> HIDE DEF p, s
<1>3. ~(q > p)
  <2> SUFFICES ASSUME q >= p + 1 PROVE FALSE
    BY <1>2
  <2>1. b * q >= b * (p + 1)
    BY <1>2
  <2>2. b * (p + 1) = b * p + b
    BY <1>2
  <2>3. b * p \in Nat /\ b * q \in Nat
    BY <1>2
  <2> QED BY <1>2, <2>1, <2>2, <2>3
<1>4. ~(p > q)
  <2> SUFFICES ASSUME p >= q + 1 PROVE FALSE
    BY <1>2
  <2>1. b * p >= b * (q + 1)
    BY <1>2
  <2>2. b * (q + 1) = b * q + b
    BY <1>2
  <2>3. b * p \in Nat /\ b * q \in Nat
    BY <1>2
  <2> QED BY <1>2, <2>1, <2>2, <2>3
<1>5. p = q
  BY <1>2, <1>3, <1>4
<1>6. s = r
  <2>1. b * p \in Nat
    BY <1>2
  <2> QED BY <1>2, <1>5, <2>1
<1> QED
  BY <1>5, <1>6 DEF p, s

\* The lower two bytes of a number are those of its remainder.
LEMMA LowerBytes ==
  ASSUME NEW d \in Nat, NEW b \in Nat, b > 0
  PROVE  LET word == d % (b * b)
         IN /\ word \in Nat /\ word < b * b
            /\ d % b = word % b
            /\ (d \div b) % b = (word \div b) % b
<1> DEFINE word == d % (b * b)
           u == d \div (b * b)
           h == word \div b
           l == word % b
<1>1. b * b \in Nat /\ b * b > 0
  BY SMT
<1>2. u \in Nat /\ word \in 0..(b * b - 1) /\ d = (b * b) * u + word
  <2> DEFINE bb == b * b
  <2>1. bb \in Nat /\ bb > 0
    BY <1>1
  <2> HIDE DEF bb
  <2>2. d \div bb \in Nat /\ d % bb \in 0..(bb - 1) /\ d = bb * (d \div bb) + (d % bb)
    BY <2>1, Division
  <2> QED BY <2>2 DEF bb
<1>3. word \in Nat /\ word < b * b
  BY <1>1, <1>2
<1> HIDE DEF word, u
<1>4. h \in Nat /\ l \in 0..(b - 1) /\ word = b * h + l
  BY <1>3, Division
<1>5. h % b = h
  BY <1>3, UpperByte
<1>6. h \in 0..(b - 1)
  BY <1>4, <1>5, Division
<1> HIDE DEF h, l
<1>7. d = b * (b * u + h) + l
  <2>1. (b * b) * u = b * (b * u)
    BY <1>2
  <2>2. b * (b * u + h) = b * (b * u) + b * h
    BY <1>2, <1>4
  <2>3. b * (b * u) \in Nat /\ b * h \in Nat
    BY <1>2, <1>4
  <2> QED BY <1>2, <1>4, <2>1, <2>2, <2>3
<1>8. b * u + h \in Nat
  BY <1>2, <1>4
<1>9. d \div b = b * u + h /\ d % b = l
  BY <1>4, <1>7, <1>8, DivisionIsUnique
<1>10. (b * u + h) % b = h
  BY <1>2, <1>6, <1>8, DivisionIsUnique
<1> QED
  BY <1>3, <1>5, <1>9, <1>10 DEF word, h, l

\* chunk_push_dword() writes the bytes of a number that fits into four of
\* them, and read_u32() of the disassembler reads the number.
THEOREM DoubleWordsAreReadBack ==
  ASSUME NEW dword \in Nat, dword < (Byte * Byte) * (Byte * Byte),
         NEW c, NEW at \in Nat,
         \A k \in 1..4 : ByteAt(c, at + (k - 1)) = chunk_push_dword(dword)[k]
  PROVE  read_u32(c, at) = dword
<1> DEFINE square == Byte * Byte
           upper == dword \div square
           lower == dword % square
<1>1. Byte \in Nat /\ Byte > 0
  BY ByteAssumption
<1>2. square \in Nat /\ square > 0
  BY <1>1
<1>3. /\ ByteAt(c, at) = dword % Byte
      /\ ByteAt(c, at + 1) = (dword \div Byte) % Byte
      /\ ByteAt(c, at + 2) = upper % Byte
      /\ ByteAt(c, at + 2 + 1) = (upper \div Byte) % Byte
  <2>1. /\ at + (1 - 1) = at /\ at + (2 - 1) = at + 1
        /\ at + (3 - 1) = at + 2 /\ at + (4 - 1) = at + 2 + 1
    OBVIOUS
  <2>2. /\ chunk_push_dword(dword)[1] = dword % Byte
        /\ chunk_push_dword(dword)[2] = (dword \div Byte) % Byte
        /\ chunk_push_dword(dword)[3] = upper % Byte
        /\ chunk_push_dword(dword)[4] = (upper \div Byte) % Byte
    BY DEF chunk_push_dword
  <2> QED BY <2>1, <2>2
<1> HIDE DEF square
<1>4. upper \in Nat /\ lower \in Nat /\ dword = square * upper + lower
  BY <1>2, Division
<1>5. upper < square
  <2>1. (dword \div square) % square = dword \div square
    BY <1>2, UpperByte DEF square
  <2>2. upper % square \in 0..(square - 1)
    BY <1>2, <1>4, Division
  <2> QED BY <1>2, <2>1, <2>2
<1>6. /\ lower < square
      /\ dword % Byte = lower % Byte
      /\ (dword \div Byte) % Byte = (lower \div Byte) % Byte
  BY <1>1, LowerBytes DEF square
<1> HIDE DEF upper, lower
<1>7. read_u16(c, at) = lower
  BY <1>3, <1>4, <1>6, WordsAreReadBack DEF chunk_push_word, square
<1>8. read_u16(c, at + 2) = upper
  <2>1. at + 2 \in Nat
    OBVIOUS
  <2> QED BY <1>3, <1>4, <1>5, <2>1, WordsAreReadBack DEF chunk_push_word, square
<1>9. read_u32(c, at) = lower + square * upper
  BY <1>7, <1>8 DEF read_u32, square
<1>10. square * upper \in Nat
  BY <1>2, <1>4
<1> QED
  BY <1>4, <1>9, <1>10

(***************************************************************************)
(* Opcodes.                                                                *)
(***************************************************************************)

Names == {OpCodes[op] : op \in DOMAIN OpCodes}
Literals == {"Nil", "True", "False"}
Constants == {"Const1B", "Const2B", "Const4B"}

\* The names of the instructions.
LEMMA NamesAre ==
  /\ DOMAIN OpCodes = 1..25 /\ DOMAIN OpCodes \subseteq Nat
  /\ Operators \subseteq Names /\ Literals \subseteq Names /\ Constants \subseteq Names
  /\ Operators \cap Constants = {} /\ Literals \cap Constants = {}
<1>1. Len(OpCodes) = 25 /\ DOMAIN OpCodes = 1..25
  BY DEF OpCodes
<1>2. OpCodes[1] = "Nil" /\ OpCodes[2] = "True" /\ OpCodes[3] = "False"
  BY DEF OpCodes
<1>3. OpCodes[4] = "Const1B" /\ OpCodes[5] = "Const2B" /\ OpCodes[6] = "Const4B"
  BY DEF OpCodes
<1>4. \A op \in 7..25 : OpCodes[op] \notin Constants
  BY DEF OpCodes, Constants
<1>5. Operators = {OpCodes[op] : op \in 7..25}
  BY <1>1 DEF Operators
<1>6. Operators \subseteq Names
  BY <1>1, <1>5 DEF Names
<1>7. Literals \subseteq Names
  BY <1>1, <1>2 DEF Names, Literals
<1>8. Constants \subseteq Names
  BY <1>1, <1>3 DEF Names, Constants
<1>9. Operators \cap Constants = {}
  BY <1>4, <1>5
<1>10. Literals \cap Constants = {}
  BY DEF Literals, Constants
<1> QED
  BY <1>1, <1>6, <1>7, <1>8, <1>9, <1>10

\* OP() gives an opcode of the name, so different names different opcodes.
LEMMA OpcodeOf ==
  ASSUME NEW name \in Names
  PROVE  OP(name) \in DOMAIN OpCodes /\ OpCodes[OP(name)] = name
<1>1. \E op \in DOMAIN OpCodes : OpCodes[op] = name
  BY DEF Names
<1> QED
  BY <1>1 DEF OP

(***************************************************************************)
(* The statements of a program are trees the generator is made for.        *)
(***************************************************************************)

\* The trees of the front part of a source, as Program() collects them.
Collected(source, m, front) ==
  front = [n \in 0..m |->
             CASE n = 0 -> <<>>
               [] n > 0 /\ source[n] \in DOMAIN Statements -> Append(front[n - 1], Statements[source[n]])
               [] OTHER -> front[n - 1]]

\* A function that is so collected exists.
LEMMA CollectedExists ==
  ASSUME NEW source, NEW m \in Nat
  PROVE  \E front : Collected(source, m, front)
<1> DEFINE Missing == {n \in Nat : ~\E front : Collected(source, n, front)}
<1>1. 0 \notin Missing
  <2> DEFINE front == [n \in 0..0 |-> <<>>]
  <2>1. Collected(source, 0, front)
    BY DEF Collected
  <2> QED BY <2>1
<1>2. Missing \subseteq Nat
  OBVIOUS
<1>3. ASSUME Missing # {} PROVE FALSE
  <2>1. PICK n \in Missing : \A j \in Missing : ~(<<j, n>> \in OpToRel(<, Nat))
    <3> HIDE DEF Missing
    <3> QED BY <1>2, <1>3, NatLessThanWellFounded, WFMin
  <2>2. n \in Nat /\ n # 0 /\ n - 1 \in Nat
    <3>1. n \in Nat /\ n # 0
      <4> HIDE DEF Missing
      <4> QED BY <1>1, <1>2, <2>1
    <3> QED BY <3>1
  <2>3. <<n - 1, n>> \in OpToRel(<, Nat)
    BY <2>2 DEF OpToRel
  <2>4. n - 1 \notin Missing
    <3> HIDE DEF Missing
    <3> QED BY <2>1, <2>3
  <2>5. PICK before : Collected(source, n - 1, before)
    BY <2>2, <2>4
  <2> DEFINE front == [i \in 0..n |->
                        CASE i = 0 -> <<>>
                          [] i > 0 /\ source[i] \in DOMAIN Statements ->
                               Append(before[i - 1], Statements[source[i]])
                          [] OTHER -> before[i - 1]]
  <2>6. \A i \in 0..(n - 1) : front[i] = before[i]
    <3> TAKE i \in 0..(n - 1)
    <3>1. i \in 0..n
      BY <2>2
    <3>2. front[i] = CASE i = 0 -> <<>>
                       [] i > 0 /\ source[i] \in DOMAIN Statements ->
                            Append(before[i - 1], Statements[source[i]])
                       [] OTHER -> before[i - 1]
      BY <3>1
    <3>3. before[i] = CASE i = 0 -> <<>>
                        [] i > 0 /\ source[i] \in DOMAIN Statements ->
                             Append(before[i - 1], Statements[source[i]])
                        [] OTHER -> before[i - 1]
      BY <2>5 DEF Collected
    <3> HIDE DEF front
    <3> QED BY <3>2, <3>3
  <2>7. \A i \in 0..n : front[i] = CASE i = 0 -> <<>>
                          [] i > 0 /\ source[i] \in DOMAIN Statements ->
                               Append(front[i - 1], Statements[source[i]])
                          [] OTHER -> front[i - 1]
    <3> TAKE i \in 0..n
    <3>1. CASE i = 0
      BY <3>1
    <3>2. CASE i > 0
      <4>1. front[i - 1] = before[i - 1]
        <5>1. i - 1 \in 0..(n - 1)
          BY <2>2, <3>2
        <5> HIDE DEF front
        <5> QED BY <2>6, <5>1
      <4> QED BY <3>2, <4>1
    <3> QED BY <2>2, <3>1, <3>2
  <2>8. front = [i \in 0..n |->
                        CASE i = 0 -> <<>>
                          [] i > 0 /\ source[i] \in DOMAIN Statements ->
                               Append(front[i - 1], Statements[source[i]])
                          [] OTHER -> front[i - 1]]
    <3> HIDE DEF front
    <3>1. front = [i \in 0..n |-> front[i]]
      BY DEF front
    <3> QED BY <2>7, <3>1
  <2>9. Collected(source, n, front)
    <3> HIDE DEF front
    <3> QED BY <2>8 DEF Collected
  <2> QED BY <2>1, <2>9
<1> QED
  BY <1>3

\* The program a source stands for is a sequence of trees.
LEMMA ProgramsAreTrees ==
  ASSUME NEW source \in Seq(STRING)
  PROVE  Program(source) \in Seq(Trees)
<1> DEFINE m == Len(source)
           F == CHOOSE front : Collected(source, m, front)
<1>1. m \in Nat
  OBVIOUS
<1>2. Collected(source, m, F)
  <2> HIDE DEF m
  <2>1. \E front : Collected(source, m, front)
    BY <1>1, CollectedExists
  <2> QED BY <2>1
<1>3. Program(source) = F[m]
  BY DEF Program, Collected
<1> HIDE DEF F, m
<1> DEFINE Wrong == {n \in 0..m : F[n] \notin Seq(Trees)}
<1>4. ASSUME Wrong # {} PROVE FALSE
  <2>1. PICK n \in Wrong : \A j \in Wrong : ~(<<j, n>> \in OpToRel(<, Nat))
    <3>1. Wrong \subseteq Nat
      BY <1>1
    <3> HIDE DEF Wrong
    <3> QED BY <1>4, <3>1, NatLessThanWellFounded, WFMin
  <2>2. n \in 0..m /\ F[n] \notin Seq(Trees)
    BY <2>1
  <2>3. F[n] = CASE n = 0 -> <<>>
                 [] n > 0 /\ source[n] \in DOMAIN Statements -> Append(F[n - 1], Statements[source[n]])
                 [] OTHER -> F[n - 1]
    BY <1>2, <2>2 DEF Collected
  <2>4. n # 0
    BY <2>2, <2>3
  <2>5. n - 1 \in 0..m /\ n - 1 \in Nat /\ n \in Nat /\ n > 0
    BY <1>1, <2>2, <2>4
  <2>6. <<n - 1, n>> \in OpToRel(<, Nat)
    BY <2>5 DEF OpToRel
  <2>7. n - 1 \notin Wrong
    <3> HIDE DEF Wrong
    <3> QED BY <2>1, <2>6
  <2>8. F[n - 1] \in Seq(Trees)
    BY <2>5, <2>7
  <2>9. CASE source[n] \in DOMAIN Statements
    <3>1. F[n] = Append(F[n - 1], Statements[source[n]])
      BY <2>3, <2>5, <2>9
    <3>2. Statements[source[n]] \in Trees
      BY <2>9, StatementsAssumption
    <3>3. F[n] \in Seq(Trees)
      BY <2>8, <3>1, <3>2, AppendProperties
    <3> QED BY <2>2, <3>3
  <2>10. CASE source[n] \notin DOMAIN Statements
    <3>1. F[n] = F[n - 1]
      BY <2>3, <2>5, <2>10
    <3> QED BY <2>2, <2>8, <3>1
  <2> QED BY <2>9, <2>10
<1>5. F[m] \in Seq(Trees)
  BY <1>1, <1>4
<1> QED
  BY <1>3, <1>5

(***************************************************************************)
(* What a listing means, line by line.                                     *)
(***************************************************************************)

\* The stacks in front of each of the first m lines, and behind them.
Stacks(lines, m, stack) ==
  stack = [n \in 0..m |-> IF n = 0 THEN <<>> ELSE Executed(stack[n - 1], lines[n])]

\* There are such stacks.
LEMMA StacksExist ==
  ASSUME NEW lines, NEW m \in Nat
  PROVE  \E stack : Stacks(lines, m, stack)
<1> DEFINE Good == {n \in Nat : \E stack : Stacks(lines, n, stack)}
<1>1. 0 \in Good
  <2> DEFINE stack == [n \in 0..0 |-> <<>>]
  <2>1. Stacks(lines, 0, stack)
    BY DEF Stacks
  <2> QED BY <2>1
<1>2. ASSUME NEW n \in Nat, n \in Good PROVE n + 1 \in Good
  <2>1. PICK before : Stacks(lines, n, before)
    BY <1>2
  <2> DEFINE m1 == n + 1
             after == [k \in 0..m1 |-> IF k = 0 THEN <<>> ELSE Executed(before[k - 1], lines[k])]
  <2>2. m1 \in Nat /\ m1 > n
    OBVIOUS
  <2>3. \A k \in 0..n : after[k] = before[k]
    <3> TAKE k \in 0..n
    <3>1. k \in 0..m1
      BY <2>2
    <3>2. after[k] = IF k = 0 THEN <<>> ELSE Executed(before[k - 1], lines[k])
      BY <3>1
    <3>3. before[k] = IF k = 0 THEN <<>> ELSE Executed(before[k - 1], lines[k])
      BY <2>1 DEF Stacks
    <3> HIDE DEF after
    <3> QED BY <3>2, <3>3
  <2>4. \A k \in 0..m1 : after[k] = IF k = 0 THEN <<>> ELSE Executed(after[k - 1], lines[k])
    <3> TAKE k \in 0..m1
    <3>1. k # 0 => after[k - 1] = before[k - 1]
      <4>1. k # 0 => k - 1 \in 0..n
        BY <2>2
      <4> HIDE DEF after
      <4> QED BY <2>3, <4>1
    <3>2. after[k] = IF k = 0 THEN <<>> ELSE Executed(before[k - 1], lines[k])
      OBVIOUS
    <3> HIDE DEF after
    <3> QED BY <3>1, <3>2
  <2>5. after = [k \in 0..m1 |-> IF k = 0 THEN <<>> ELSE Executed(after[k - 1], lines[k])]
    <3> HIDE DEF m1
    <3>1. after = [k \in 0..m1 |-> after[k]]
      BY DEF after
    <3> HIDE DEF after
    <3> QED BY <2>4, <3>1
  <2>6. Stacks(lines, m1, after)
    <3> HIDE DEF after, m1
    <3> QED BY <2>5 DEF Stacks
  <2> QED BY <2>2, <2>6
<1>3. Nat \subseteq Good
  <2> HIDE DEF Good
  <2> QED BY <1>1, <1>2, InductionOnNat
<1> QED
  BY <1>3

\* Lines that begin alike.
BeginAlike(lines, others, n) == \A j \in 1..n : lines[j] = others[j]

\* Lines that begin alike have the same stacks there.
LEMMA StacksAgree ==
  ASSUME NEW lines, NEW others, NEW m \in Nat, NEW k \in Nat, NEW n \in Nat, n =< m, n =< k,
         BeginAlike(lines, others, n),
         NEW stack, Stacks(lines, m, stack), NEW other, Stacks(others, k, other)
  PROVE  stack[n] = other[n]
<1> DEFINE Same == {j \in Nat : stack[j] = other[j]}
<1>1. 0 \in Same
  <2>1. 0 \in 0..m /\ 0 \in 0..k
    OBVIOUS
  <2>2. stack[0] = <<>> /\ other[0] = <<>>
    BY <2>1 DEF Stacks
  <2> QED BY <2>2
<1>2. ASSUME NEW j \in 0..(n - 1), j \in Same PROVE j + 1 \in Same
  <2>1. j + 1 \in 0..m /\ j + 1 \in 0..k /\ j + 1 \in 1..n /\ j + 1 # 0 /\ (j + 1) - 1 = j
    OBVIOUS
  <2> DEFINE i == j + 1
  <2>2. i \in 0..m /\ i \in 0..k /\ i \in 1..n /\ i # 0 /\ i - 1 = j /\ i \in Nat
    BY <2>1
  <2> HIDE DEF i
  <2>3. stack[i] = Executed(stack[i - 1], lines[i]) /\ other[i] = Executed(other[i - 1], others[i])
    BY <2>2 DEF Stacks
  <2>4. lines[i] = others[i] /\ stack[i - 1] = other[i - 1]
    BY <1>2, <2>2 DEF BeginAlike
  <2>5. i \in Same
    BY <2>2, <2>3, <2>4
  <2> QED BY <2>5 DEF i
<1>3. 0..n \subseteq Same
  <2> HIDE DEF Same
  <2> QED BY <1>1, <1>2, InductionUpTo
<1> QED
  BY <1>3

\* The meaning of lines is the last of their stacks.
LEMMA MeaningIsLast ==
  ASSUME NEW lines, Len(lines) \in Nat
  PROVE  \E stack : Stacks(lines, Len(lines), stack) /\ Meaning(lines) = stack[Len(lines)]
<1> DEFINE m == Len(lines)
           F == CHOOSE stack : Stacks(lines, m, stack)
<1>1. m \in Nat
  OBVIOUS
<1>2. Stacks(lines, m, F)
  <2> HIDE DEF m
  <2>1. \E stack : Stacks(lines, m, stack)
    BY <1>1, StacksExist
  <2> QED BY <2>1
<1>3. Meaning(lines) = F[m]
  BY DEF Meaning, Stacks
<1> HIDE DEF F, m
<1>4. \E stack : Stacks(lines, m, stack) /\ Meaning(lines) = stack[m]
  BY <1>2, <1>3
<1> QED
  BY <1>4 DEF m

\* No lines mean no trees.
LEMMA MeaningOfNothing == Meaning(<<>>) = <<>>
<1> DEFINE none == <<>>
<1>1. Len(none) = 0
  OBVIOUS
<1> HIDE DEF none
<1>2. PICK stack : Stacks(none, Len(none), stack) /\ Meaning(none) = stack[Len(none)]
  BY <1>1, MeaningIsLast
<1>3. stack[0] = <<>>
  BY <1>1, <1>2 DEF Stacks
<1> QED
  BY <1>1, <1>2, <1>3 DEF none

\* One more line executes one more instruction.
LEMMA MeaningOfMore ==
  ASSUME NEW S, NEW lines \in Seq(S), NEW line \in S
  PROVE  Meaning(Append(lines, line)) = Executed(Meaning(lines), line)
<1> DEFINE more == Append(lines, line)
           n == Len(lines)
<1>1. /\ more \in Seq(S) /\ Len(more) = n + 1 /\ n \in Nat
      /\ \A j \in 1..n : more[j] = lines[j]
      /\ more[n + 1] = line
  BY AppendProperties
<1>2. PICK stack : Stacks(lines, n, stack) /\ Meaning(lines) = stack[n]
  BY <1>1, MeaningIsLast
<1> DEFINE m == n + 1
<1> HIDE DEF more, n
<1>3. m \in Nat /\ n =< m /\ n =< n /\ m \in 0..m /\ m # 0 /\ m - 1 = n
  BY <1>1
<1>4. Len(more) = m /\ more[m] = line
  BY <1>1
<1> HIDE DEF m
<1>5. PICK longer : Stacks(more, m, longer) /\ Meaning(more) = longer[m]
  BY <1>3, <1>4, MeaningIsLast
<1>6. longer[n] = stack[n]
  <2>1. BeginAlike(more, lines, n)
    BY <1>1 DEF BeginAlike
  <2>2. n \in Nat /\ Stacks(lines, n, stack) /\ Stacks(more, m, longer)
    BY <1>1, <1>2, <1>5
  <2> QED BY <1>3, <2>1, <2>2, StacksAgree
<1>7. longer[m] = Executed(longer[m - 1], more[m])
  BY <1>3, <1>5 DEF Stacks
<1> QED
  BY <1>2, <1>3, <1>4, <1>5, <1>6, <1>7 DEF more

(***************************************************************************)
(* What instructions do to a stack of trees.                               *)
(***************************************************************************)

\* Operators are no literals.
LEMMA OperatorsAreNoLiterals == (Operators \cup ShortCircuit \cup UnaryOperators) \cap Literals = {}
<1>1. \A op \in 7..25 : OpCodes[op] \notin Literals
  BY DEF OpCodes, Literals
<1>2. Operators = {OpCodes[op] : op \in 7..25}
  BY NamesAre DEF Operators, OpCodes
<1>3. (ShortCircuit \cup UnaryOperators) \cap Literals = {}
  BY DEF ShortCircuit, UnaryOperators, Literals
<1>4. Operators \cap Literals = {}
  BY <1>1, <1>2
<1> QED
  BY <1>3, <1>4

\* A tree is its fields.
LEMMA TreeIs ==
  ASSUME NEW tree \in Trees
  PROVE  /\ tree = Ast(tree.type, tree.data, tree.parts)
         /\ tree.parts \in Seq(Trees) /\ tree.type \in STRING /\ tree.data \in STRING
<1>1. tree \in [type : STRING, data : STRING, parts : Seq(Trees)]
  BY TreesAssumption
<1> QED
  BY <1>1 DEF Ast

\* The two ends of a sequence put together of two.
LEMMA EndsOfConcat ==
  ASSUME NEW S, NEW s \in Seq(S), NEW t \in Seq(S)
  PROVE  LET long == s \o t
             n == Len(t)
         IN /\ SubSeq(long, 1, Len(long) - n) = s
            /\ SubSeq(long, Len(long) - n + 1, Len(long)) = t
<1> DEFINE long == s \o t
           n == Len(t)
           m == Len(s)
           front == SubSeq(long, 1, Len(long) - n)
           back == SubSeq(long, Len(long) - n + 1, Len(long))
<1>1. n \in Nat /\ m \in Nat
  BY LenProperties
<1>2. /\ long \in Seq(S) /\ Len(long) = m + n
      /\ \A k \in 1..m + n : long[k] = IF k =< m THEN s[k] ELSE t[k - m]
  BY ConcatProperties
<1> HIDE DEF long, n, m
<1>3. Len(long) - n = m /\ Len(long) - n + 1 = m + 1 /\ Len(long) = m + n
  BY <1>1, <1>2
<1>4. \A k \in 1..m + n : long[k] \in S
  BY <1>2, ElementOfSeq
<1>5. front = s
  <2> DEFINE f == SubSeq(long, 1, m)
  <2>1. \A k \in 1..m : long[k] \in S
    BY <1>1, <1>4
  <2>2. /\ f \in Seq(S) /\ Len(f) = IF 1 =< m THEN m - 1 + 1 ELSE 0
        /\ \A k \in 1..m - 1 + 1 : f[k] = long[1 + k - 1]
    BY <1>1, <2>1, SubSeqProperties
  <2> HIDE DEF f
  <2>3. Len(f) = m
    BY <1>1, <2>2
  <2>4. \A k \in 1..m : f[k] = s[k]
    <3> TAKE k \in 1..m
    <3>1. k \in 1..m - 1 + 1 /\ 1 + k - 1 = k /\ k \in 1..m + n /\ k =< m
      BY <1>1
    <3> QED BY <1>2, <2>2, <3>1
  <2>5. s \in Seq(S) /\ Len(s) = m
    BY DEF m
  <2>6. f = s
    BY <2>2, <2>3, <2>4, <2>5, SeqEqual
  <2> QED BY <1>3, <2>6 DEF f
<1>6. back = t
  <2> DEFINE b == SubSeq(long, m + 1, m + n)
  <2>1. \A k \in m + 1..m + n : long[k] \in S
    BY <1>1, <1>4
  <2>2. m + 1 \in Int /\ m + n \in Int
    BY <1>1
  <2>3. /\ b \in Seq(S) /\ Len(b) = IF m + 1 =< m + n THEN (m + n) - (m + 1) + 1 ELSE 0
        /\ \A k \in 1..(m + n) - (m + 1) + 1 : b[k] = long[(m + 1) + k - 1]
    BY <2>1, <2>2, SubSeqProperties
  <2> HIDE DEF b
  <2>4. Len(b) = n
    BY <1>1, <2>3
  <2>5. \A k \in 1..n : b[k] = t[k]
    <3> TAKE k \in 1..n
    <3>1. /\ k \in 1..(m + n) - (m + 1) + 1 /\ (m + 1) + k - 1 = m + k
          /\ m + k \in 1..m + n /\ ~(m + k =< m) /\ (m + k) - m = k
      BY <1>1
    <3> QED BY <1>2, <2>3, <3>1
  <2>6. t \in Seq(S) /\ Len(t) = n
    BY DEF n
  <2>7. b = t
    BY <2>3, <2>4, <2>5, <2>6, SeqEqual
  <2> QED BY <1>3, <2>7 DEF b
<1> QED
  BY <1>5, <1>6 DEF long, n

\* An instruction without constant.
Plain(name) == [name |-> name, constant |-> <<>>]

\* An operation puts the tree over its parts.
LEMMA OperationExecuted ==
  ASSUME NEW tree \in Trees, tree.type \in {"Binary", "Unary"}, NEW stack \in Seq(Trees)
  PROVE  Executed(stack \o tree.parts, Plain(tree.data)) = Append(stack, tree)
<1> DEFINE long == stack \o tree.parts
           line == Plain(tree.data)
<1>1. tree = Ast(tree.type, tree.data, tree.parts) /\ tree.parts \in Seq(Trees)
  BY TreeIs
<1>2. line.name = tree.data /\ line.constant = <<>>
  BY DEF Plain
<1>3. tree.data \notin Literals
  BY TreesAssumption, OperatorsAreNoLiterals
<1>4. /\ SubSeq(long, 1, Len(long) - Len(tree.parts)) = stack
      /\ SubSeq(long, Len(long) - Len(tree.parts) + 1, Len(long)) = tree.parts
  BY <1>1, EndsOfConcat
<1> HIDE DEF long, line
<1>5. tree.data # "Nil" /\ tree.data # "True" /\ tree.data # "False"
  BY <1>3 DEF Literals
<1>6. CASE tree.type = "Unary"
  <2>1. tree.data \in UnaryOperators /\ Len(tree.parts) = 1
    BY <1>6, TreesAssumption
  <2>2. Executed(long, line) =
          Append(SubSeq(long, 1, Len(long) - 1),
                 Ast("Unary", tree.data, SubSeq(long, Len(long) - 1 + 1, Len(long))))
    BY <1>2, <1>5, <2>1 DEF Executed
  <2> QED BY <1>1, <1>4, <1>6, <2>1, <2>2 DEF long, line
<1>7. CASE tree.type = "Binary"
  <2>1. tree.data \notin UnaryOperators /\ Len(tree.parts) = 2
    <3>1. tree.data \in (Operators \ UnaryOperators) \cup ShortCircuit /\ Len(tree.parts) = 2
      BY <1>7, TreesAssumption
    <3>2. ShortCircuit \cap UnaryOperators = {}
      BY DEF ShortCircuit, UnaryOperators
    <3> QED BY <3>1, <3>2
  <2>2. Executed(long, line) =
          Append(SubSeq(long, 1, Len(long) - 2),
                 Ast("Binary", tree.data, SubSeq(long, Len(long) - 2 + 1, Len(long))))
    BY <1>2, <1>5, <2>1 DEF Executed
  <2> QED BY <1>1, <1>4, <1>7, <2>1, <2>2 DEF long, line
<1> QED
  BY <1>6, <1>7

\* A literal is put on the stack.
LEMMA LiteralExecuted ==
  ASSUME NEW tree \in Trees, NEW stack, NEW name,
         \/ tree.type = "Nil" /\ name = "Nil"
         \/ tree.type = "Boolean" /\ tree.data = "true" /\ name = "True"
         \/ tree.type = "Boolean" /\ tree.data = "false" /\ name = "False"
  PROVE  Executed(stack, Plain(name)) = Append(stack, tree)
<1>1. tree = Ast(tree.type, tree.data, tree.parts)
  BY TreeIs
<1>2. tree.parts = <<>> /\ (tree.type = "Nil" => tree.data = "")
  BY TreesAssumption
<1>3. Plain(name).name = name /\ Plain(name).constant = <<>>
  BY DEF Plain
<1>4. name \notin UnaryOperators
  BY DEF UnaryOperators
<1>5. CASE name = "Nil"
  BY <1>1, <1>2, <1>3, <1>4, <1>5 DEF Executed
<1>6. CASE name = "True"
  BY <1>1, <1>2, <1>3, <1>4, <1>6 DEF Executed
<1>7. CASE name = "False"
  BY <1>1, <1>2, <1>3, <1>4, <1>7 DEF Executed
<1> QED
  BY <1>5, <1>6, <1>7

\* A number is put on the stack.
LEMMA NumberExecuted ==
  ASSUME NEW tree \in Trees, tree.type \in {"Float", "Integer"}, NEW stack, NEW name \in Constants
  PROVE  Executed(stack, [name |-> name, constant |-> <<[type |-> tree.type, value |-> tree.data]>>])
            = Append(stack, tree)
<1> DEFINE line == [name |-> name, constant |-> <<[type |-> tree.type, value |-> tree.data]>>]
<1>1. tree = Ast(tree.type, tree.data, <<>>)
  BY TreeIs, TreesAssumption
<1>2. /\ line.name = name /\ line.constant # <<>>
      /\ line.constant[1].type = tree.type /\ line.constant[1].value = tree.data
  OBVIOUS
<1>3. name # "Nil" /\ name # "True" /\ name # "False" /\ name \notin UnaryOperators
  BY DEF Constants, UnaryOperators
<1> HIDE DEF line
<1>4. Executed(stack, line) = Append(stack, Ast(line.constant[1].type, line.constant[1].value, <<>>))
  BY <1>2, <1>3 DEF Executed
<1> QED
  BY <1>1, <1>2, <1>4 DEF line

(***************************************************************************)
(* Code that can be read.                                                  *)
(***************************************************************************)

Bytes == DOMAIN OpCodes \cup 0..(Byte - 1)
Values == [type : STRING, value : STRING]

\* The lines of a listing.
Lines == [name : Names, constant : Seq(Values)]

\* Code of whole instructions: at are the offsets where they begin, and the
\* end.  Each passes the checks of the disassembler, which prints these lines.
Readable(c, lines, at) ==
    /\ lines \in Seq(Lines) /\ at \in Seq(Nat) /\ Len(at) = Len(lines) + 1
    /\ at[1] = 0 /\ at[Len(lines) + 1] = Len(c.code.items)
    /\ \A k \in 1..Len(lines) :
         /\ at[k] < Len(c.code.items)
         /\ ChecksPass(c, at[k]) /\ Line(c, at[k]) = lines[k]
         /\ at[k + 1] = at[k] + 1 + OperandSize(c, at[k])

\* A chunk goes on where another ends: behind its code is more code, behind its
\* constants are more constants.
GoesOn(c, d) ==
    /\ c.code.items \in Seq(Bytes) /\ d.code.items \in Seq(Bytes)
    /\ Len(c.code.items) =< Len(d.code.items)
    /\ \A k \in 1..Len(c.code.items) : d.code.items[k] = c.code.items[k]
    /\ Len(c.values.items) \in Nat /\ Len(d.values.items) \in Nat
    /\ Len(c.values.items) =< Len(d.values.items)
    /\ \A k \in 1..Len(c.values.items) : d.values.items[k] = c.values.items[k]

\* Bytes are numbers.
LEMMA BytesAreNumbers == Bytes \subseteq Nat
<1>1. Byte \in Nat /\ DOMAIN OpCodes \subseteq Nat
  BY ByteAssumption, NamesAre
<1> QED
  BY <1>1 DEF Bytes

\* How many operand bytes there can be.
LEMMA OperandSizes ==
  ASSUME NEW c, NEW s
  PROVE  OperandSize(c, s) \in {0, 1, 2, 4}
BY DEF OperandSize

\* What two bytes are read as is a number.
LEMMA WordsAreNumbers ==
  ASSUME NEW c, NEW at, ByteAt(c, at) \in Nat, ByteAt(c, at + 1) \in Nat
  PROVE  read_u16(c, at) \in Nat
<1> DEFINE low == ByteAt(c, at)
           high == ByteAt(c, at + 1)
<1>1. low \in Nat /\ high \in Nat /\ Byte \in Nat
  BY ByteAssumption
<1>2. read_u16(c, at) = low + Byte * high
  BY DEF read_u16
<1> HIDE DEF low, high
<1>3. Byte * high \in Nat
  BY <1>1
<1> QED
  BY <1>1, <1>2, <1>3

\* More code and more constants do not change how an instruction is read.
LEMMA SameInstruction ==
  ASSUME NEW c, NEW d, GoesOn(c, d), NEW s \in Nat, s < Len(c.code.items), ChecksPass(c, s)
  PROVE  OperandSize(d, s) = OperandSize(c, s) /\ ChecksPass(d, s) /\ Line(d, s) = Line(c, s)
<1> DEFINE size == OperandSize(c, s)
<1>1. \A k \in Nat : k < Len(c.code.items) => ByteAt(d, k) = ByteAt(c, k)
  <2> TAKE k \in Nat
  <2> HAVE k < Len(c.code.items)
  <2>1. k + 1 \in 1..Len(c.code.items)
    BY DEF GoesOn
  <2> QED BY <2>1 DEF GoesOn, ByteAt
<1>2. ByteAt(d, s) = ByteAt(c, s)
  BY <1>1
<1>3. OperandSize(d, s) = size
  BY <1>2 DEF OperandSize
<1>4. ByteAt(d, s) \in DOMAIN OpCodes
  BY <1>2 DEF ChecksPass
<1>5. size \in {0, 1, 2, 4}
  BY OperandSizes
<1>6. size > 0 => s + size < Len(c.code.items) /\ Index(c, s) < Len(c.values.items)
  BY DEF ChecksPass
<1> HIDE DEF size
<1>7. ASSUME size > 0
      PROVE  /\ s + size < Len(d.code.items) /\ Index(d, s) < Len(d.values.items)
             /\ Index(d, s) = Index(c, s) /\ d.values.items[Index(c, s) + 1] = c.values.items[Index(c, s) + 1]
  <2>1. Len(c.code.items) \in Nat /\ Len(d.code.items) \in Nat
    BY DEF GoesOn
  <2>2. \A k \in 1..size : s + k \in Nat /\ s + k < Len(c.code.items)
    BY <1>5, <1>6, <1>7, <2>1
  <2>3. \A k \in 1..size : ByteAt(d, s + k) = ByteAt(c, s + k)
    BY <1>1, <2>2
  <2>4. s + 1 + 1 = s + 2 /\ s + 1 + 2 = s + 3 /\ s + 1 + 2 + 1 = s + 4
    OBVIOUS
  <2>5. \A k \in 1..size : ByteAt(c, s + k) \in Nat
    <3> TAKE k \in 1..size
    <3>1. s + k + 1 \in 1..Len(c.code.items)
      BY <1>5, <2>1, <2>2
    <3>2. c.code.items[s + k + 1] \in Bytes
      BY <3>1 DEF GoesOn
    <3>3. c.code.items[s + k + 1] \in Nat
      BY <3>2, BytesAreNumbers
    <3> QED BY <3>3 DEF ByteAt
  <2>6. Byte \in Nat
    BY ByteAssumption
  <2>7. Index(d, s) = Index(c, s) /\ Index(c, s) \in Nat
    <3>1. CASE size = 1
      <4>1. ByteAt(d, s + 1) = ByteAt(c, s + 1)
        BY <2>3, <3>1
      <4>2. Index(d, s) = ByteAt(d, s + 1) /\ Index(c, s) = ByteAt(c, s + 1)
        BY <1>3, <3>1 DEF Index, size
      <4> QED BY <3>1, <2>5, <4>1, <4>2
    <3>2. CASE size = 2
      <4>1. ByteAt(d, s + 1) = ByteAt(c, s + 1) /\ ByteAt(d, s + 2) = ByteAt(c, s + 2)
        BY <2>3, <3>2
      <4>2. read_u16(d, s + 1) = read_u16(c, s + 1)
        BY <2>4, <4>1 DEF read_u16
      <4>3. Index(d, s) = read_u16(d, s + 1) /\ Index(c, s) = read_u16(c, s + 1)
        BY <1>3, <3>2 DEF Index, size
      <4>4. ByteAt(c, s + 1) \in Nat /\ ByteAt(c, s + 1 + 1) \in Nat
        BY <2>4, <3>2, <2>5
      <4>5. read_u16(c, s + 1) \in Nat
        BY <4>4, WordsAreNumbers
      <4> QED BY <4>2, <4>3, <4>5
    <3>3. CASE size = 4
      <4>1. /\ ByteAt(d, s + 1) = ByteAt(c, s + 1) /\ ByteAt(d, s + 2) = ByteAt(c, s + 2)
            /\ ByteAt(d, s + 3) = ByteAt(c, s + 3) /\ ByteAt(d, s + 4) = ByteAt(c, s + 4)
        BY <2>3, <3>3
      <4>2. read_u16(d, s + 1) = read_u16(c, s + 1)
        BY <2>4, <4>1 DEF read_u16
      <4>3. read_u16(d, s + 1 + 2) = read_u16(c, s + 1 + 2)
        BY <2>4, <4>1 DEF read_u16
      <4>4. read_u32(d, s + 1) = read_u32(c, s + 1)
        BY <4>2, <4>3 DEF read_u32
      <4>5. Index(d, s) = read_u32(d, s + 1) /\ Index(c, s) = read_u32(c, s + 1)
        BY <1>3, <3>3 DEF Index, size
      <4>6. /\ ByteAt(c, s + 1) \in Nat /\ ByteAt(c, s + 1 + 1) \in Nat
            /\ ByteAt(c, s + 1 + 2) \in Nat /\ ByteAt(c, s + 1 + 2 + 1) \in Nat
        BY <2>4, <3>3, <2>5
      <4>7. read_u16(c, s + 1) \in Nat /\ read_u16(c, s + 1 + 2) \in Nat
        BY <4>6, WordsAreNumbers
      <4>8. Byte * Byte \in Nat
        BY <2>6
      <4>9. read_u32(c, s + 1) \in Nat
        <5> DEFINE square == Byte * Byte
        <5>1. square \in Nat
          BY <4>8
        <5> HIDE DEF square
        <5>2. read_u32(c, s + 1) = read_u16(c, s + 1) + square * read_u16(c, s + 1 + 2)
          BY DEF read_u32, square
        <5> QED BY <4>7, <5>1, <5>2
      <4> QED BY <4>4, <4>5, <4>9
    <3> QED BY <1>5, <1>7, <3>1, <3>2, <3>3
  <2>8. Index(c, s) < Len(c.values.items) /\ Len(c.values.items) =< Len(d.values.items)
    BY <1>6, <1>7 DEF GoesOn
  <2>9. s + size < Len(c.code.items) /\ Len(c.code.items) =< Len(d.code.items)
    BY <1>6, <1>7 DEF GoesOn
  <2>10. Len(c.values.items) \in Nat /\ Len(d.values.items) \in Nat /\ s + size \in Nat
    BY <1>5 DEF GoesOn
  <2>11. d.values.items[Index(c, s) + 1] = c.values.items[Index(c, s) + 1]
    <3>1. Index(c, s) + 1 \in 1..Len(c.values.items)
      BY <2>7, <2>8, <2>10
    <3> QED BY <3>1 DEF GoesOn
  <2>12. s + size < Len(d.code.items)
    <3>1. Len(c.code.items) \in Nat /\ Len(d.code.items) \in Nat
      BY DEF GoesOn
    <3> HIDE DEF size
    <3> QED BY <2>9, <2>10, <3>1
  <2>13. Index(d, s) < Len(d.values.items)
    BY <2>7, <2>8, <2>10
  <2> QED BY <2>7, <2>11, <2>12, <2>13
<1>8. ChecksPass(d, s)
  BY <1>3, <1>4, <1>7 DEF ChecksPass
<1>9. Line(d, s) = Line(c, s)
  <2>1. CASE size = 0
    BY <1>2, <1>3, <2>1 DEF Line, size
  <2>2. CASE size # 0
    <3>1. size > 0
      BY <1>5, <2>2
    <3> QED BY <1>2, <1>3, <1>7, <2>2, <3>1 DEF Line, size
  <2> QED BY <2>1, <2>2
<1> QED
  BY <1>3, <1>8, <1>9 DEF size

\* An instruction put behind code that can be read.
LEMMA InstructionAppended ==
  ASSUME NEW c, NEW d, GoesOn(c, d), NEW lines, NEW at, Readable(c, lines, at),
         Len(c.code.items) < Len(d.code.items),
         ChecksPass(d, Len(c.code.items)),
         Len(c.code.items) + 1 + OperandSize(d, Len(c.code.items)) = Len(d.code.items),
         NEW line \in Lines, Line(d, Len(c.code.items)) = line
  PROVE  Readable(d, Append(lines, line), Append(at, Len(d.code.items)))
<1> DEFINE old == Len(c.code.items)
           new == Len(d.code.items)
           more == Append(lines, line)
           offsets == Append(at, new)
           n == Len(lines)
<1>1. old \in Nat /\ new \in Nat /\ old < new
  BY DEF GoesOn
<1>2. /\ lines \in Seq(Lines) /\ at \in Seq(Nat) /\ Len(at) = n + 1 /\ at[1] = 0 /\ at[n + 1] = old
      /\ \A k \in 1..n : /\ at[k] < old /\ ChecksPass(c, at[k]) /\ Line(c, at[k]) = lines[k]
                         /\ at[k + 1] = at[k] + 1 + OperandSize(c, at[k])
  BY DEF Readable
<1>3. n \in Nat
  BY <1>2, LenProperties
<1>4. /\ more \in Seq(Lines) /\ Len(more) = n + 1 /\ more[n + 1] = line
      /\ \A k \in 1..n : more[k] = lines[k]
  BY <1>2, AppendProperties
<1>5. /\ offsets \in Seq(Nat) /\ Len(offsets) = (n + 1) + 1 /\ offsets[(n + 1) + 1] = new
      /\ \A k \in 1..(n + 1) : offsets[k] = at[k]
  BY <1>1, <1>2, AppendProperties
<1>6. /\ ChecksPass(d, old) /\ old + 1 + OperandSize(d, old) = new /\ Line(d, old) = line
  OBVIOUS
<1> HIDE DEF old, new, more, offsets, n
<1>7. \A k \in 1..n + 1 :
        /\ offsets[k] < new /\ ChecksPass(d, offsets[k]) /\ Line(d, offsets[k]) = more[k]
        /\ offsets[k + 1] = offsets[k] + 1 + OperandSize(d, offsets[k])
  <2> TAKE k \in 1..n + 1
  <2>1. CASE k = n + 1
    <3>1. offsets[k] = old /\ offsets[k + 1] = new /\ more[k] = line
      BY <1>2, <1>4, <1>5, <2>1
    <3> QED BY <1>1, <1>6, <3>1
  <2>2. CASE k # n + 1
    <3>1. k \in 1..n /\ k + 1 \in 1..n + 1
      BY <1>3, <2>2
    <3>2. offsets[k] = at[k] /\ offsets[k + 1] = at[k + 1] /\ more[k] = lines[k]
      BY <1>4, <1>5, <3>1
    <3> DEFINE s == at[k]
    <3>3. s \in Nat
      BY <1>2, <3>1, ElementOfSeq
    <3>4. s < old /\ ChecksPass(c, s) /\ Line(c, s) = lines[k] /\ at[k + 1] = s + 1 + OperandSize(c, s)
      BY <1>2, <3>1
    <3> HIDE DEF s
    <3>5. s < Len(c.code.items)
      BY <3>4 DEF old
    <3>6. OperandSize(d, s) = OperandSize(c, s) /\ ChecksPass(d, s) /\ Line(d, s) = Line(c, s)
      BY <3>3, <3>4, <3>5, SameInstruction
    <3>7. s < new
      BY <1>1, <3>3, <3>4
    <3> QED BY <3>2, <3>4, <3>6, <3>7 DEF s
  <2> QED BY <2>1, <2>2
<1>8. offsets[1] = 0
  BY <1>2, <1>3, <1>5
<1>9. Readable(d, more, offsets)
  BY <1>4, <1>5, <1>7, <1>8 DEF Readable, new
<1> QED
  BY <1>9 DEF more, offsets, new

\* An instruction without operand.
LEMMA SimpleInstruction ==
  ASSUME NEW d, NEW s, NEW name \in Operators \cup Literals, ByteAt(d, s) = OP(name)
  PROVE  OperandSize(d, s) = 0 /\ ChecksPass(d, s) /\ Line(d, s) = Plain(name)
<1>1. name \in Names /\ name \notin Constants
  BY NamesAre
<1>2. OP(name) \in DOMAIN OpCodes /\ OpCodes[OP(name)] = name
  BY <1>1, OpcodeOf
<1>3. /\ OpCodes[OP("Const1B")] = "Const1B"
      /\ OpCodes[OP("Const2B")] = "Const2B"
      /\ OpCodes[OP("Const4B")] = "Const4B"
  <2>1. "Const1B" \in Names /\ "Const2B" \in Names /\ "Const4B" \in Names
    BY NamesAre DEF Constants
  <2> QED BY <2>1, OpcodeOf
<1>4. OP(name) # OP("Const1B") /\ OP(name) # OP("Const2B") /\ OP(name) # OP("Const4B")
  <2>1. name # "Const1B" /\ name # "Const2B" /\ name # "Const4B"
    BY <1>1 DEF Constants
  <2> QED BY <1>2, <1>3, <2>1
<1>5. OperandSize(d, s) = 0
  BY <1>4 DEF OperandSize
<1>6. Line(d, s) = Plain(name)
  BY <1>2, <1>5 DEF Line, Plain
<1> QED
  BY <1>2, <1>5, <1>6 DEF ChecksPass

\* The opcodes of the constants.
LEMMA ConstantOpcodes ==
  /\ OP("Const1B") \in DOMAIN OpCodes /\ OP("Const2B") \in DOMAIN OpCodes /\ OP("Const4B") \in DOMAIN OpCodes
  /\ OP("Const1B") # OP("Const2B") /\ OP("Const1B") # OP("Const4B") /\ OP("Const2B") # OP("Const4B")
<1>1. "Const1B" \in Names /\ "Const2B" \in Names /\ "Const4B" \in Names
  BY NamesAre DEF Constants
<1>2. /\ OP("Const1B") \in DOMAIN OpCodes /\ OpCodes[OP("Const1B")] = "Const1B"
      /\ OP("Const2B") \in DOMAIN OpCodes /\ OpCodes[OP("Const2B")] = "Const2B"
      /\ OP("Const4B") \in DOMAIN OpCodes /\ OpCodes[OP("Const4B")] = "Const4B"
  BY <1>1, OpcodeOf
<1>3. "Const1B" # "Const2B" /\ "Const1B" # "Const4B" /\ "Const2B" # "Const4B"
  OBVIOUS
<1> QED
  BY <1>2, <1>3

\* What emit_const() writes for an index that it has an instruction for.
LEMMA ConstantBytes ==
  ASSUME NEW index \in Nat, index < (Byte * Byte) * (Byte * Byte)
  PROVE  \/ /\ index < Byte
            /\ emit_const(index) = <<OP("Const1B"), index>>
         \/ /\ index < Byte * Byte
            /\ emit_const(index) = <<OP("Const2B"), chunk_push_word(index)[1], chunk_push_word(index)[2]>>
         \/ emit_const(index) = <<OP("Const4B"), chunk_push_dword(index)[1], chunk_push_dword(index)[2],
                                  chunk_push_dword(index)[3], chunk_push_dword(index)[4]>>
<1>1. Byte \in Nat
  BY ByteAssumption
<1>2. ASSUME NEW a, NEW p, NEW q PROVE <<a>> \o <<p, q>> = <<a, p, q>>
  <2> DEFINE S == {a, p, q}
             long == <<a>> \o <<p, q>>
  <2>1. <<a>> \in Seq(S) /\ <<p, q>> \in Seq(S) /\ <<a, p, q>> \in Seq(S)
    OBVIOUS
  <2>2. Len(<<a>>) = 1 /\ Len(<<p, q>>) = 2 /\ Len(<<a, p, q>>) = 3
    OBVIOUS
  <2>3. /\ long \in Seq(S) /\ Len(long) = 3
        /\ \A i \in 1..3 : long[i] = IF i =< 1 THEN <<a>>[i] ELSE <<p, q>>[i - 1]
    <3> HIDE DEF S
    <3>1. /\ long \in Seq(S) /\ Len(long) = Len(<<a>>) + Len(<<p, q>>)
          /\ \A i \in 1..Len(<<a>>) + Len(<<p, q>>) :
               long[i] = IF i =< Len(<<a>>) THEN <<a>>[i] ELSE <<p, q>>[i - Len(<<a>>)]
      BY <2>1, ConcatProperties
    <3> HIDE DEF long
    <3> QED BY <2>2, <3>1
  <2> HIDE DEF long, S
  <2>4. \A i \in 1..3 : long[i] = <<a, p, q>>[i]
    BY <2>3
  <2> QED BY <2>1, <2>2, <2>3, <2>4, SeqEqual DEF long
<1>3. ASSUME NEW a, NEW p, NEW q, NEW r, NEW s PROVE <<a>> \o <<p, q, r, s>> = <<a, p, q, r, s>>
  <2> DEFINE S == {a, p, q, r, s}
             long == <<a>> \o <<p, q, r, s>>
  <2>1. <<a>> \in Seq(S) /\ <<p, q, r, s>> \in Seq(S) /\ <<a, p, q, r, s>> \in Seq(S)
    OBVIOUS
  <2>2. Len(<<a>>) = 1 /\ Len(<<p, q, r, s>>) = 4 /\ Len(<<a, p, q, r, s>>) = 5
    OBVIOUS
  <2>3. /\ long \in Seq(S) /\ Len(long) = 5
        /\ \A i \in 1..5 : long[i] = IF i =< 1 THEN <<a>>[i] ELSE <<p, q, r, s>>[i - 1]
    <3> HIDE DEF S
    <3>1. /\ long \in Seq(S) /\ Len(long) = Len(<<a>>) + Len(<<p, q, r, s>>)
          /\ \A i \in 1..Len(<<a>>) + Len(<<p, q, r, s>>) :
               long[i] = IF i =< Len(<<a>>) THEN <<a>>[i] ELSE <<p, q, r, s>>[i - Len(<<a>>)]
      BY <2>1, ConcatProperties
    <3> HIDE DEF long
    <3> QED BY <2>2, <3>1
  <2> HIDE DEF long, S
  <2>4. \A i \in 1..5 : long[i] = <<a, p, q, r, s>>[i]
    BY <2>3
  <2> QED BY <2>1, <2>2, <2>3, <2>4, SeqEqual DEF long
<1> DEFINE word == chunk_push_word(index)
           dword == chunk_push_dword(index)
<1>4. word = <<word[1], word[2]>>
  BY DEF chunk_push_word
<1>5. dword = <<dword[1], dword[2], dword[3], dword[4]>>
  BY DEF chunk_push_dword
<1>6. <<OP("Const2B")>> \o word = <<OP("Const2B"), word[1], word[2]>>
  <2> HIDE DEF word
  <2> QED BY <1>2, <1>4
<1>7. <<OP("Const4B")>> \o dword = <<OP("Const4B"), dword[1], dword[2], dword[3], dword[4]>>
  <2> HIDE DEF dword
  <2> QED BY <1>3, <1>5
<1> HIDE DEF word, dword
<1>8. CASE index < Byte
  <2>1. emit_const(index) = <<OP("Const1B"), index>>
    BY <1>1, <1>8 DEF emit_const
  <2> QED BY <1>8, <2>1
<1>9. CASE Byte =< index /\ index < Byte * Byte
  <2>1. emit_const(index) = <<OP("Const2B")>> \o word
    BY <1>1, <1>9 DEF emit_const, word
  <2> QED BY <1>6, <1>9, <2>1 DEF word
<1>10. CASE ~(index < Byte) /\ ~(Byte =< index /\ index < Byte * Byte)
  <2>1. emit_const(index) = <<OP("Const4B")>> \o dword
    BY <1>10 DEF emit_const, dword
  <2> QED BY <1>7, <2>1 DEF dword
<1> QED
  BY <1>8, <1>9, <1>10

\* The bytes of numbers are bytes.
LEMMA NumbersAreBytes ==
  ASSUME NEW index \in Nat
  PROVE  /\ \A k \in 1..2 : chunk_push_word(index)[k] \in Bytes
         /\ \A k \in 1..4 : chunk_push_dword(index)[k] \in Bytes
<1>1. Byte \in Nat /\ Byte > 0
  BY ByteAssumption
<1>2. \A n \in Nat : n % Byte \in Bytes /\ n \div Byte \in Nat
  <2> TAKE n \in Nat
  <2>1. n \div Byte \in Nat /\ n % Byte \in 0..(Byte - 1)
    BY <1>1, Division
  <2> QED BY <2>1 DEF Bytes
<1> DEFINE upper == index \div (Byte * Byte)
<1>3. upper \in Nat
  <2> DEFINE square == Byte * Byte
  <2>1. square \in Nat /\ square > 0
    BY <1>1
  <2> HIDE DEF square
  <2>2. index \div square \in Nat
    BY <2>1, Division
  <2> QED BY <2>2 DEF square
<1>4. /\ chunk_push_word(index)[1] \in Bytes /\ chunk_push_word(index)[2] \in Bytes
  BY <1>2 DEF chunk_push_word
<1>5. /\ chunk_push_dword(index)[1] = index % Byte
      /\ chunk_push_dword(index)[2] = (index \div Byte) % Byte
      /\ chunk_push_dword(index)[3] = upper % Byte
      /\ chunk_push_dword(index)[4] = (upper \div Byte) % Byte
  BY DEF chunk_push_dword
<1> HIDE DEF upper
<1>6. /\ chunk_push_dword(index)[1] \in Bytes /\ chunk_push_dword(index)[2] \in Bytes
      /\ chunk_push_dword(index)[3] \in Bytes /\ chunk_push_dword(index)[4] \in Bytes
  BY <1>2, <1>3, <1>5
<1> QED
  BY <1>4, <1>6

\* The line of an instruction with a constant.
Refers(line, value) == line.name \in Constants /\ line = [name |-> line.name, constant |-> <<value>>]

\* The instruction of a constant is read with its index, and its line shows the
\* constant.
LEMMA ConstantInstruction ==
  ASSUME NEW index \in Nat, index < (Byte * Byte) * (Byte * Byte),
         NEW d, NEW s \in Nat,
         \A k \in 1..Len(emit_const(index)) : ByteAt(d, s + (k - 1)) = emit_const(index)[k],
         Len(d.code.items) = s + Len(emit_const(index)),
         index < Len(d.values.items)
  PROVE  /\ emit_const(index) \in Seq(Bytes) /\ Len(emit_const(index)) > 0
         /\ s + 1 + OperandSize(d, s) = Len(d.code.items)
         /\ ChecksPass(d, s) /\ Refers(Line(d, s), d.values.items[index + 1])
<1> DEFINE bytes == emit_const(index)
<1>1. /\ s + (1 - 1) = s /\ s + (2 - 1) = s + 1 /\ s + (3 - 1) = s + 2
      /\ s + (4 - 1) = s + 3 /\ s + (5 - 1) = s + 4
      /\ s + 1 + 1 = s + 2 /\ s + 1 + 2 = s + 3 /\ s + 1 + 2 + 1 = s + 4 /\ s + 1 + 3 = s + 4
  OBVIOUS
<1>2. /\ OP("Const1B") \in Bytes /\ OP("Const2B") \in Bytes /\ OP("Const4B") \in Bytes
  BY ConstantOpcodes DEF Bytes
<1>6. ASSUME NEW name \in Constants, ByteAt(d, s) = OP(name), OperandSize(d, s) # 0, Index(d, s) = index
      PROVE  Refers(Line(d, s), d.values.items[index + 1])
  <2>1. OpCodes[OP(name)] = name
    <3>1. name \in Names
      BY NamesAre
    <3> QED BY <3>1, OpcodeOf
  <2>2. Line(d, s) = [name |-> name, constant |-> <<d.values.items[index + 1]>>]
    BY <1>6, <2>1 DEF Line
  <2> QED BY <2>2 DEF Refers
<1>3. CASE index < Byte /\ bytes = <<OP("Const1B"), index>>
  <2>1. Len(bytes) = 2 /\ bytes[1] = OP("Const1B") /\ bytes[2] = index
    BY <1>3
  <2>2. index \in Bytes
    BY <1>3, ByteAssumption DEF Bytes
  <2>3. bytes \in Seq(Bytes)
    BY <1>2, <1>3, <2>2
  <2>4. ByteAt(d, s) = OP("Const1B") /\ ByteAt(d, s + 1) = index
    BY <1>1, <2>1
  <2>5. OperandSize(d, s) = 1
    BY <2>4, ConstantOpcodes DEF OperandSize
  <2>6. Index(d, s) = index
    BY <2>4, <2>5 DEF Index
  <2>7. s + 1 < Len(d.code.items) /\ s + 1 + 1 = Len(d.code.items)
    BY <1>1, <2>1
  <2>8. Refers(Line(d, s), d.values.items[index + 1])
    <3>1. "Const1B" \in Constants
      BY DEF Constants
    <3> QED BY <1>6, <2>4, <2>5, <2>6, <3>1
  <2> QED BY <2>1, <2>3, <2>4, <2>5, <2>6, <2>7, <2>8, ConstantOpcodes DEF ChecksPass
<1>4. CASE /\ index < Byte * Byte
           /\ bytes = <<OP("Const2B"), chunk_push_word(index)[1], chunk_push_word(index)[2]>>
  <2>1. /\ Len(bytes) = 3 /\ bytes[1] = OP("Const2B")
        /\ bytes[2] = chunk_push_word(index)[1] /\ bytes[3] = chunk_push_word(index)[2]
    BY <1>4
  <2>2. chunk_push_word(index)[1] \in Bytes /\ chunk_push_word(index)[2] \in Bytes
    BY NumbersAreBytes
  <2>3. bytes \in Seq(Bytes)
    BY <1>2, <1>4, <2>2
  <2>4. /\ ByteAt(d, s) = OP("Const2B")
        /\ ByteAt(d, s + 1) = chunk_push_word(index)[1]
        /\ ByteAt(d, s + 1 + 1) = chunk_push_word(index)[2]
    BY <1>1, <2>1
  <2>5. OperandSize(d, s) = 2
    BY <2>4, ConstantOpcodes DEF OperandSize
  <2>6. Index(d, s) = index
    <3>1. s + 1 \in Nat
      OBVIOUS
    <3>2. read_u16(d, s + 1) = index
      BY <1>4, <2>4, <3>1, WordsAreReadBack
    <3> QED BY <2>5, <3>2 DEF Index
  <2>7. s + 2 < Len(d.code.items) /\ s + 1 + 2 = Len(d.code.items)
    BY <2>1
  <2>8. Refers(Line(d, s), d.values.items[index + 1])
    <3>1. "Const2B" \in Constants
      BY DEF Constants
    <3> QED BY <1>6, <2>4, <2>5, <2>6, <3>1
  <2> QED BY <2>1, <2>3, <2>4, <2>5, <2>6, <2>7, <2>8, ConstantOpcodes DEF ChecksPass
<1>5. CASE bytes = <<OP("Const4B"), chunk_push_dword(index)[1], chunk_push_dword(index)[2],
                     chunk_push_dword(index)[3], chunk_push_dword(index)[4]>>
  <2>1. /\ Len(bytes) = 5 /\ bytes[1] = OP("Const4B")
        /\ bytes[2] = chunk_push_dword(index)[1] /\ bytes[3] = chunk_push_dword(index)[2]
        /\ bytes[4] = chunk_push_dword(index)[3] /\ bytes[5] = chunk_push_dword(index)[4]
    BY <1>5
  <2>2. /\ chunk_push_dword(index)[1] \in Bytes /\ chunk_push_dword(index)[2] \in Bytes
        /\ chunk_push_dword(index)[3] \in Bytes /\ chunk_push_dword(index)[4] \in Bytes
    BY NumbersAreBytes
  <2>3. bytes \in Seq(Bytes)
    BY <1>2, <1>5, <2>2
  <2>4. /\ ByteAt(d, s) = OP("Const4B")
        /\ ByteAt(d, s + 1) = chunk_push_dword(index)[1]
        /\ ByteAt(d, s + 2) = chunk_push_dword(index)[2]
        /\ ByteAt(d, s + 3) = chunk_push_dword(index)[3]
        /\ ByteAt(d, s + 4) = chunk_push_dword(index)[4]
    BY <1>1, <2>1
  <2>5. OperandSize(d, s) = 4
    BY <2>4, ConstantOpcodes DEF OperandSize
  <2>6. Index(d, s) = index
    <3>1. \A k \in 1..4 : ByteAt(d, (s + 1) + (k - 1)) = chunk_push_dword(index)[k]
      <4>1. /\ (s + 1) + (1 - 1) = s + 1 /\ (s + 1) + (2 - 1) = s + 2
            /\ (s + 1) + (3 - 1) = s + 3 /\ (s + 1) + (4 - 1) = s + 4
        OBVIOUS
      <4> QED BY <2>4, <4>1
    <3>2. s + 1 \in Nat
      OBVIOUS
    <3>3. read_u32(d, s + 1) = index
      BY <3>1, <3>2, DoubleWordsAreReadBack
    <3> QED BY <2>5, <3>3 DEF Index
  <2>7. s + 4 < Len(d.code.items) /\ s + 1 + 4 = Len(d.code.items)
    BY <2>1
  <2>8. Refers(Line(d, s), d.values.items[index + 1])
    <3>1. "Const4B" \in Constants
      BY DEF Constants
    <3> QED BY <1>6, <2>4, <2>5, <2>6, <3>1
  <2> QED BY <2>1, <2>3, <2>4, <2>5, <2>6, <2>7, <2>8, ConstantOpcodes DEF ChecksPass
<1> QED
  BY <1>3, <1>4, <1>5, ConstantBytes

\* Head and tail of a concatenation.
LEMMA HeadTailOfConcat ==
  ASSUME NEW S, NEW s \in Seq(S), NEW t \in Seq(S), s # <<>>
  PROVE  Head(s \o t) = s[1] /\ Tail(s \o t) = Tail(s) \o t
<1> DEFINE long == s \o t
           rest == Tail(s)
<1>1. Len(s) \in Nat /\ Len(s) >= 1 /\ Len(t) \in Nat
  OBVIOUS
<1>2. /\ long \in Seq(S) /\ Len(long) = Len(s) + Len(t)
      /\ \A i \in 1..Len(s) + Len(t) : long[i] = IF i =< Len(s) THEN s[i] ELSE t[i - Len(s)]
  BY ConcatProperties
<1>3. /\ rest \in Seq(S) /\ Len(rest) = Len(s) - 1
      /\ \A i \in 1..Len(s) - 1 : rest[i] = s[i + 1]
  BY <1>1
<1>4. /\ rest \o t \in Seq(S) /\ Len(rest \o t) = Len(rest) + Len(t)
      /\ \A i \in 1..Len(rest) + Len(t) :
           (rest \o t)[i] = IF i =< Len(rest) THEN rest[i] ELSE t[i - Len(rest)]
  <2> HIDE DEF rest
  <2> QED BY <1>3, ConcatProperties
<1> DEFINE short == rest \o t
<1> HIDE DEF long, rest, short
<1>5. /\ Tail(long) \in Seq(S) /\ Len(Tail(long)) = Len(s) + Len(t) - 1
      /\ \A i \in 1..Len(s) + Len(t) - 1 : Tail(long)[i] = long[i + 1]
      /\ Head(long) = s[1]
  BY <1>1, <1>2
<1>6. short \in Seq(S) /\ Len(short) = Len(s) + Len(t) - 1
  BY <1>1, <1>3, <1>4 DEF short
<1>7. \A i \in 1..Len(s) + Len(t) - 1 : Tail(long)[i] = short[i]
  <2> TAKE i \in 1..Len(s) + Len(t) - 1
  <2>1. Tail(long)[i] = IF i + 1 =< Len(s) THEN s[i + 1] ELSE t[(i + 1) - Len(s)]
    <3>1. i + 1 \in 1..Len(s) + Len(t)
      BY <1>1
    <3> QED BY <1>2, <1>5, <3>1
  <2>2. short[i] = IF i =< Len(s) - 1 THEN rest[i] ELSE t[i - (Len(s) - 1)]
    <3>1. i \in 1..Len(rest) + Len(t)
      BY <1>1, <1>3
    <3> QED BY <1>3, <1>4, <3>1 DEF short
  <2>3. CASE i =< Len(s) - 1
    <3>1. i \in 1..Len(s) - 1 /\ i + 1 =< Len(s)
      BY <1>1, <2>3
    <3> QED BY <1>3, <2>1, <2>2, <2>3, <3>1
  <2>4. CASE ~(i =< Len(s) - 1)
    <3>1. ~(i + 1 =< Len(s)) /\ (i + 1) - Len(s) = i - (Len(s) - 1)
      BY <1>1, <2>4
    <3> QED BY <2>1, <2>2, <2>4, <3>1
  <2> QED BY <2>3, <2>4
<1>8. Tail(long) = short
  BY <1>1, <1>5, <1>6, <1>7, SeqEqual
<1> QED
  BY <1>5, <1>8 DEF long, short, rest

(***************************************************************************)
(* What emit() has still to do.                                            *)
(***************************************************************************)

Programs == [type : {"Program"}, data : {""}, parts : Seq(Trees)]
Pushes == [what : {"push"}, byte : Bytes]
Calls == [what : {"emit"}, tree : Trees \cup Programs]
         \cup [what : {"operate"}, op : Operators \cup ShortCircuit]

\* Calls for a sequence of trees are calls.
LEMMA EmitAllCalls ==
  ASSUME NEW trees \in Seq(Trees)
  PROVE  EmitAll(trees) \in Seq(Calls)
<1>1. DOMAIN trees = 1..Len(trees) /\ Len(trees) \in Nat
  OBVIOUS
<1>2. EmitAll(trees) = [k \in 1..Len(trees) |-> [what |-> "emit", tree |-> trees[k]]]
  BY <1>1 DEF EmitAll, Emit
<1>3. \A k \in 1..Len(trees) : [what |-> "emit", tree |-> trees[k]] \in Calls
  BY DEF Calls
<1> QED
  BY <1>1, <1>2, <1>3

(***************************************************************************)
(* What pending calls of emit() will leave on the stack.                   *)
(***************************************************************************)

\* What the code that a call writes does to the stack.
Effect(stack, call) ==
    CASE call.what = "operate" -> Executed(stack, Plain(call.op))
      [] call.what = "emit" /\ call.tree.type = "Program" -> stack \o call.tree.parts
      [] call.what = "emit" /\ call.tree.type # "Program" -> Append(stack, call.tree)

\* The stacks in front of each call, and behind the last.
Passes(after, stack, calls, trees) ==
    /\ after \in Seq(Seq(Trees)) /\ Len(after) = Len(calls) + 1
    /\ after[1] = stack /\ after[Len(calls) + 1] = trees
    /\ \A k \in 1..Len(calls) : after[k + 1] = Effect(after[k], calls[k])

\* The code of all these calls makes one stack of the other.
Yields(stack, calls, trees) == \E after : Passes(after, stack, calls, trees)

\* Without calls the stack stays what it is.
LEMMA YieldsNothing ==
  ASSUME NEW stack, NEW trees, Yields(stack, <<>>, trees)
  PROVE  trees = stack
<1> DEFINE none == <<>>
<1>1. Len(none) = 0
  OBVIOUS
<1> HIDE DEF none
<1>2. PICK after : Passes(after, stack, none, trees)
  BY DEF Yields, none
<1>3. after[1] = stack /\ after[0 + 1] = trees
  BY <1>1, <1>2 DEF Passes
<1>4. 0 + 1 = 1
  OBVIOUS
<1> QED
  BY <1>3, <1>4

\* The first call has its effect, the others theirs behind it.
LEMMA YieldsFirst ==
  ASSUME NEW stack, NEW calls \in Seq(Calls), calls # <<>>, NEW trees, Yields(stack, calls, trees)
  PROVE  /\ stack \in Seq(Trees)
         /\ Yields(Effect(stack, Head(calls)), Tail(calls), trees)
<1>1. PICK after : Passes(after, stack, calls, trees)
  BY DEF Yields
<1> DEFINE n == Len(calls)
           rest == Tail(calls)
           behind == Tail(after)
<1>2. n \in Nat /\ n >= 1 /\ Head(calls) = calls[1]
  OBVIOUS
<1>3. rest \in Seq(Calls) /\ Len(rest) = n - 1 /\ \A k \in 1..n - 1 : rest[k] = calls[k + 1]
  BY HeadTailProperties
<1>4. /\ after \in Seq(Seq(Trees)) /\ Len(after) = n + 1 /\ after # <<>>
      /\ after[1] = stack /\ after[n + 1] = trees
      /\ \A k \in 1..n : after[k + 1] = Effect(after[k], calls[k])
  BY <1>1, <1>2 DEF Passes
<1> DEFINE Stack == Seq(Trees)
<1>5. after \in Seq(Stack)
  BY <1>4
<1> HIDE DEF n, rest, Stack
<1>6. behind \in Seq(Stack) /\ Len(behind) = n /\ \A k \in 1..n : behind[k] = after[k + 1]
  <2>1. behind \in Seq(Stack) /\ Len(behind) = (n + 1) - 1
        /\ \A k \in 1..Len(behind) : behind[k] = after[k + 1]
    BY <1>4, <1>5, HeadTailProperties
  <2> HIDE DEF behind
  <2>2. (n + 1) - 1 = n
    BY <1>2
  <2> QED BY <2>1, <2>2
<1> HIDE DEF behind
<1>7. stack \in Stack
  <2>1. 1 \in 1..Len(after)
    BY <1>2, <1>4
  <2> QED BY <1>4, <1>5, <2>1, ElementOfSeq
<1>8. Passes(behind, Effect(stack, Head(calls)), rest, trees)
  <2>1. Len(behind) = Len(rest) + 1 /\ Len(rest) + 1 = n
    BY <1>2, <1>3, <1>6
  <2>2. behind[1] = Effect(stack, Head(calls))
    <3>1. 1 \in 1..n /\ 1 + 1 = 2
      BY <1>2
    <3>2. behind[1] = after[1 + 1] /\ after[1 + 1] = Effect(after[1], calls[1])
      BY <1>4, <1>6, <3>1
    <3> QED BY <1>2, <1>4, <3>2
  <2>3. behind[Len(rest) + 1] = trees
    <3>1. n \in 1..n
      BY <1>2
    <3> QED BY <1>4, <1>6, <2>1, <3>1
  <2>4. \A k \in 1..Len(rest) : behind[k + 1] = Effect(behind[k], rest[k])
    <3> TAKE k \in 1..Len(rest)
    <3> DEFINE j == k + 1
    <3>1. k \in 1..n - 1 /\ k \in 1..n /\ j \in 1..n
      BY <1>2, <1>3
    <3>2. behind[k] = after[j] /\ rest[k] = calls[j]
      BY <1>3, <1>6, <3>1
    <3> HIDE DEF j
    <3>3. behind[j] = after[j + 1] /\ after[j + 1] = Effect(after[j], calls[j])
      BY <1>4, <1>6, <3>1
    <3> QED BY <3>2, <3>3 DEF j
  <2>5. behind \in Seq(Seq(Trees))
    BY <1>6 DEF Stack
  <2> QED BY <2>1, <2>2, <2>3, <2>4, <2>5 DEF Passes
<1> QED
  BY <1>7, <1>8 DEF Yields, rest, Stack

\* A call in front of others.
LEMMA YieldsMore ==
  ASSUME NEW stack \in Seq(Trees), NEW call \in Calls, NEW rest \in Seq(Calls), NEW trees,
         Yields(Effect(stack, call), rest, trees)
  PROVE  Yields(stack, <<call>> \o rest, trees)
<1>1. PICK after : Passes(after, Effect(stack, call), rest, trees)
  BY DEF Yields
<1> DEFINE n == Len(rest)
           Stack == Seq(Trees)
           calls == <<call>> \o rest
           before == <<stack>> \o after
<1>2. n \in Nat
  BY LenProperties
<1>3. /\ after \in Seq(Stack) /\ Len(after) = n + 1
      /\ after[1] = Effect(stack, call) /\ after[n + 1] = trees
      /\ \A k \in 1..n : after[k + 1] = Effect(after[k], rest[k])
  BY <1>1 DEF Passes
<1> HIDE DEF n
<1>4. stack \in Stack
  OBVIOUS
<1> HIDE DEF Stack
<1>5. <<stack>> \in Seq(Stack) /\ Len(<<stack>>) = 1 /\ <<stack>>[1] = stack
  BY <1>4
<1>6. <<call>> \in Seq(Calls) /\ Len(<<call>>) = 1 /\ <<call>>[1] = call
  OBVIOUS
<1>7. /\ before \in Seq(Stack) /\ Len(before) = 1 + (n + 1) /\ before[1] = stack
      /\ \A k \in 1..(n + 1) : before[1 + k] = after[k]
  <2>1. 1 \in 1..1
    OBVIOUS
  <2> DEFINE one == <<stack>>
  <2>2. one \in Seq(Stack) /\ Len(one) = 1 /\ one[1] = stack
    BY <1>5
  <2> HIDE DEF one
  <2>3. /\ one \o after \in Seq(Stack) /\ Len(one \o after) = Len(one) + Len(after)
        /\ \A k \in 1..Len(one) : (one \o after)[k] = one[k]
        /\ \A k \in 1..Len(after) : (one \o after)[Len(one) + k] = after[k]
    <3>1. after \in Seq(Stack)
      BY <1>3
    <3>2. one \in Seq(Stack)
      BY <2>2
    <3> QED BY <3>1, <3>2, Joined
  <2>4. before = one \o after
    BY DEF one
  <2> HIDE DEF before
  <2> QED BY <1>3, <2>1, <2>2, <2>3, <2>4
<1>8. /\ calls \in Seq(Calls) /\ Len(calls) = 1 + n /\ calls[1] = call
      /\ \A k \in 1..n : calls[1 + k] = rest[k]
  <2>1. 1 \in 1..1
    OBVIOUS
  <2> DEFINE one == <<call>>
  <2>2. one \in Seq(Calls) /\ Len(one) = 1 /\ one[1] = call
    BY <1>6
  <2> HIDE DEF one
  <2>3. /\ one \o rest \in Seq(Calls) /\ Len(one \o rest) = Len(one) + Len(rest)
        /\ \A k \in 1..Len(one) : (one \o rest)[k] = one[k]
        /\ \A k \in 1..Len(rest) : (one \o rest)[Len(one) + k] = rest[k]
    BY <2>2, Joined
  <2>4. calls = one \o rest
    BY DEF one
  <2> HIDE DEF calls
  <2> QED BY <2>1, <2>2, <2>3, <2>4 DEF n
<1> HIDE DEF calls, before
<1>9. Passes(before, stack, calls, trees)
  <2>1. Len(before) = Len(calls) + 1 /\ before[Len(calls) + 1] = trees
    <3>1. n + 1 \in 1..(n + 1) /\ 1 + (n + 1) = (1 + n) + 1
      BY <1>2
    <3> QED BY <1>3, <1>7, <1>8, <3>1
  <2>2. \A k \in 1..Len(calls) : before[k + 1] = Effect(before[k], calls[k])
    <3> TAKE k \in 1..Len(calls)
    <3>1. CASE k = 1
      <4>1. 1 \in 1..(n + 1) /\ 1 + 1 = k + 1
        BY <1>2, <3>1
      <4>2. before[k + 1] = after[1]
        BY <1>7, <4>1
      <4> QED BY <1>3, <1>7, <1>8, <3>1, <4>2
    <3>2. CASE k # 1
      <4> DEFINE j == k - 1
      <4>1. j \in 1..n /\ j \in 1..(n + 1) /\ j + 1 \in 1..(n + 1) /\ 1 + j = k /\ 1 + (j + 1) = k + 1
        BY <1>2, <1>8, <3>2
      <4> HIDE DEF j
      <4>2. before[k] = after[j] /\ before[k + 1] = after[j + 1] /\ calls[k] = rest[j]
        BY <1>7, <1>8, <4>1
      <4> QED BY <1>3, <4>1, <4>2
    <3> QED BY <3>1, <3>2
  <2>3. before \in Seq(Seq(Trees))
    BY <1>7 DEF Stack
  <2> QED BY <1>7, <2>1, <2>2, <2>3 DEF Passes
<1> QED
  BY <1>9 DEF Yields, calls

\* A sequence is its head in front of its tail.
LEMMA HeadAndTail ==
  ASSUME NEW S, NEW s \in Seq(S), s # <<>>
  PROVE  s[1] \in S /\ Tail(s) \in Seq(S) /\ Len(Tail(s)) = Len(s) - 1 /\ s = <<s[1]>> \o Tail(s)
<1> DEFINE one == <<s[1]>>
           rest == Tail(s)
<1>1. Len(s) \in Nat /\ Len(s) >= 1 /\ s[1] \in S
  OBVIOUS
<1>2. rest \in Seq(S) /\ Len(rest) = Len(s) - 1 /\ \A k \in 1..Len(rest) : rest[k] = s[k + 1]
  BY HeadTailProperties
<1>3. one \in Seq(S) /\ Len(one) = 1 /\ one[1] = s[1]
  BY <1>1
<1> HIDE DEF one, rest
<1>4. /\ one \o rest \in Seq(S) /\ Len(one \o rest) = Len(one) + Len(rest)
      /\ \A k \in 1..Len(one) : (one \o rest)[k] = one[k]
      /\ \A k \in 1..Len(rest) : (one \o rest)[Len(one) + k] = rest[k]
  <2>1. one \in Seq(S) /\ rest \in Seq(S)
    BY <1>2, <1>3
  <2> QED BY <2>1, Joined
<1> DEFINE long == one \o rest
<1> HIDE DEF long
<1>5. \A k \in 1..Len(s) : s[k] = long[k]
  <2> TAKE k \in 1..Len(s)
  <2>1. CASE k = 1
    <3>1. 1 \in 1..1
      OBVIOUS
    <3> QED BY <1>3, <1>4, <2>1, <3>1 DEF long
  <2>2. CASE k # 1
    <3> DEFINE j == k - 1
    <3>1. j \in 1..Len(rest) /\ 1 + j = k /\ j + 1 = k
      BY <1>1, <1>2, <2>2
    <3> HIDE DEF j
    <3> QED BY <1>2, <1>3, <1>4, <3>1 DEF long
  <2> QED BY <2>1, <2>2
<1>6. Len(long) = Len(s) /\ long \in Seq(S)
  BY <1>1, <1>2, <1>3, <1>4 DEF long
<1>7. s = long
  BY <1>5, <1>6, SeqEqual
<1> QED
  BY <1>1, <1>2, <1>7 DEF long, one, rest

\* Calls for a sequence of trees put these on the stack.
LEMMA YieldsAll ==
  ASSUME NEW stack \in Seq(Trees), NEW parts \in Seq(Trees), NEW rest \in Seq(Calls), NEW trees,
         Yields(stack \o parts, rest, trees)
  PROVE  Yields(stack, EmitAll(parts) \o rest, trees)
<1> DEFINE Holds(s, p) == Yields(s \o p, rest, trees) => Yields(s, EmitAll(p) \o rest, trees)
           Good == {n \in Nat : \A s, p \in Seq(Trees) : Len(p) = n => Holds(s, p)}
<1>1. 0 \in Good
  <2> SUFFICES ASSUME NEW s \in Seq(Trees), NEW p \in Seq(Trees), Len(p) = 0 PROVE Holds(s, p)
    OBVIOUS
  <2>1. p = <<>>
    OBVIOUS
  <2>2. s \o p = s
    BY <2>1, ConcatEmptySeq
  <2>3. EmitAll(p) = <<>>
    BY <2>1 DEF EmitAll
  <2>4. EmitAll(p) \o rest = rest
    BY <2>3, ConcatEmptySeq
  <2> QED BY <2>2, <2>4
<1>2. ASSUME NEW n \in Nat, n \in Good PROVE n + 1 \in Good
  <2> SUFFICES ASSUME NEW s \in Seq(Trees), NEW p \in Seq(Trees), Len(p) = n + 1,
                      Yields(s \o p, rest, trees)
               PROVE  Yields(s, EmitAll(p) \o rest, trees)
    OBVIOUS
  <2> DEFINE x == p[1]
             q == Tail(p)
             more == Append(s, x)
             front == <<Emit(x)>>
  <2>1. /\ p # <<>> /\ x \in Trees /\ q \in Seq(Trees) /\ Len(q) = n /\ p = <<x>> \o q
    <3>1. p # <<>>
      OBVIOUS
    <3>2. x \in Trees /\ q \in Seq(Trees) /\ Len(q) = Len(p) - 1 /\ p = <<x>> \o q
      BY <3>1, HeadAndTail
    <3> QED BY <3>1, <3>2
  <2>2. EmitAll(p) = front \o EmitAll(q)
    <3> DEFINE calls == EmitAll(p)
    <3>1. calls \in Seq(Calls) /\ EmitAll(q) \in Seq(Calls)
      BY <2>1, EmitAllCalls
    <3>2. DOMAIN calls = 1..n + 1 /\ Len(calls) = n + 1 /\ calls # <<>>
      <4>1. DOMAIN p = 1..n + 1
        OBVIOUS
      <4>2. calls = [k \in 1..n + 1 |-> Emit(p[k])]
        BY <4>1 DEF EmitAll
      <4>3. DOMAIN calls = 1..n + 1
        BY <4>2
      <4> HIDE DEF calls
      <4> QED BY <3>1, <4>3
    <3>3. calls[1] = Emit(x)
      <4>1. 1 \in DOMAIN p
        OBVIOUS
      <4> QED BY <4>1 DEF EmitAll
    <3>4. Tail(calls) = EmitAll(q)
      <4> DEFINE t == Tail(calls)
                 u == EmitAll(q)
      <4>1. t \in Seq(Calls) /\ Len(t) = n /\ \A k \in 1..n : t[k] = calls[k + 1]
        <5>1. t \in Seq(Calls) /\ Len(t) = (n + 1) - 1 /\ \A k \in 1..Len(t) : t[k] = calls[k + 1]
          <6> HIDE DEF calls
          <6> QED BY <3>1, <3>2, HeadTailProperties
        <5> HIDE DEF t
        <5> QED BY <5>1
      <4>2. DOMAIN q = 1..n /\ \A k \in 1..n : q[k] = p[k + 1]
        BY <2>1
      <4>3. u = [k \in 1..n |-> Emit(q[k])] /\ DOMAIN p = 1..n + 1
        BY <4>2 DEF EmitAll
      <4>4. \A k \in 1..n : t[k] = u[k]
        <5> TAKE k \in 1..n
        <5>1. k + 1 \in DOMAIN p
          BY <4>3
        <5>2. calls[k + 1] = Emit(p[k + 1])
          BY <5>1 DEF EmitAll
        <5>3. u[k] = Emit(q[k])
          BY <4>3
        <5> HIDE DEF calls, u, t, q
        <5> QED BY <4>1, <4>2, <5>2, <5>3
      <4>5. u \in Seq(Calls) /\ Len(u) = n
        <5>1. DOMAIN u = 1..n
          BY <4>3
        <5> HIDE DEF u
        <5> QED BY <3>1, <5>1 DEF u
      <4> HIDE DEF t, u, calls
      <4>6. t = u
        BY <4>1, <4>4, <4>5, SeqEqual
      <4> QED BY <4>6 DEF t, u
    <3> HIDE DEF calls
    <3>5. calls = <<calls[1]>> \o Tail(calls)
      BY <3>1, <3>2, HeadAndTail
    <3> QED BY <3>3, <3>4, <3>5 DEF calls
  <2>3. s \o p = more \o q
    <3>1. <<x>> \in Seq(Trees) /\ more = s \o <<x>>
      BY <2>1, AppendIsConcat
    <3>2. (s \o <<x>>) \o q = s \o (<<x>> \o q)
      BY <2>1, <3>1, ConcatAssociative
    <3> QED BY <2>1, <3>1, <3>2
  <2>4. more \in Seq(Trees)
    BY <2>1, AppendProperties
  <2>5. EmitAll(p) \o rest = front \o (EmitAll(q) \o rest)
    <3>1. Emit(x) \in Calls
      BY <2>1 DEF Emit, Calls
    <3>2. front \in Seq(Calls)
      BY <3>1
    <3>3. EmitAll(q) \in Seq(Calls)
      BY <2>1, EmitAllCalls
    <3>4. (front \o EmitAll(q)) \o rest = front \o (EmitAll(q) \o rest)
      BY <3>2, <3>3, ConcatAssociative
    <3> QED BY <2>2, <3>4
  <2>6. Yields(more, EmitAll(q) \o rest, trees)
    <3>1. Holds(more, q)
      <4> HIDE DEF Holds, more, q
      <4> QED BY <1>2, <2>1, <2>4
    <3> QED BY <2>3, <3>1
  <2>7. Effect(s, Emit(x)) = more
    <3>1. x.type # "Program"
      BY <2>1, TreesAssumption
    <3>2. Emit(x).what = "emit" /\ Emit(x).tree = x
      BY DEF Emit
    <3> HIDE DEF x
    <3> QED BY <3>1, <3>2 DEF Effect, x
  <2>8. Emit(x) \in Calls /\ EmitAll(q) \o rest \in Seq(Calls)
    <3>1. Emit(x) \in Calls
      BY <2>1 DEF Emit, Calls
    <3>2. EmitAll(q) \in Seq(Calls)
      BY <2>1, EmitAllCalls
    <3> QED BY <3>1, <3>2, ConcatProperties
  <2> DEFINE calls == EmitAll(q) \o rest
             call == Emit(x)
  <2>9. call \in Calls /\ calls \in Seq(Calls) /\ Yields(Effect(s, call), calls, trees)
    BY <2>6, <2>7, <2>8
  <2>10. Yields(s, <<call>> \o calls, trees)
    <3> HIDE DEF calls, call
    <3> QED BY <2>9, YieldsMore
  <2> QED BY <2>5, <2>10
<1>3. Nat \subseteq Good
  <2> HIDE DEF Good
  <2> QED BY <1>1, <1>2, InductionOnNat
<1>4. Len(parts) \in Nat
  BY LenProperties
<1>5. Holds(stack, parts)
  <2> HIDE DEF Holds
  <2>1. Len(parts) \in Good
    BY <1>3, <1>4
  <2> QED BY <2>1
<1> QED
  BY <1>5

(***************************************************************************)
(* The code and the calls between two steps.                               *)
(***************************************************************************)

\* The chunk with the bytes that are about to be pushed.
Ahead(c, pending) == [code |-> [items |-> c.code.items \o pending], values |-> c.values]

\* Between two calls of the generator: first come the bytes of the instruction
\* that is being written, then the calls.  With the bytes the code is readable,
\* and with the calls it will mean the program.
Generating(pending, calls, lines, at) ==
    /\ pending \in Seq(Bytes) /\ calls \in Seq(Calls)
    /\ todo = Push(pending) \o calls
    /\ Readable(Ahead(chunk, pending), lines, at)
    /\ Yields(Meaning(lines), calls, Program(buffer.data))

Fits(vec, S) == vec.items \in Seq(S) /\ Len(vec.items) =< vec.capacity

\* A push keeps a vector within its capacity.
LEMMA PushedFits ==
  ASSUME NEW S, NEW vec, IsVec(vec), Fits(vec, S), NEW x \in S
  PROVE  Fits(Pushed(vec, x), S) /\ Pushed(vec, x).items = Append(vec.items, x)
<1>1. Pushed(vec, x).items = Append(vec.items, x)
  BY DEF Pushed
<1>2. Append(vec.items, x) \in Seq(S) /\ Len(Append(vec.items, x)) = Len(vec.items) + 1
  BY AppendProperties DEF Fits
<1>3. Pushed(vec, x).capacity = IF Full(vec) THEN Grown(vec) ELSE vec.capacity
  BY PushedType
<1>4. vec.capacity \in Nat /\ Len(vec.items) \in Nat /\ Len(vec.items) =< vec.capacity
  BY DEF IsVec, Fits
<1>5. CASE Full(vec)
  <2>1. Grown(vec) >= Len(vec.items) + 1
    BY <1>4, FirstCapacityAssumption DEF Grown
  <2> QED BY <1>1, <1>2, <1>3, <1>5, <2>1 DEF Fits
<1>6. CASE ~Full(vec)
  <2>1. vec.capacity >= Len(vec.items) + 1
    BY <1>4, <1>6 DEF Full
  <2> QED BY <1>1, <1>2, <1>3, <1>6, <2>1 DEF Fits
<1> QED
  BY <1>1, <1>5, <1>6

\* Bytes to be pushed are entries of their kind.
LEMMA PushEntries ==
  ASSUME NEW bytes \in Seq(Bytes)
  PROVE  /\ Push(bytes) \in Seq(Pushes) /\ Len(Push(bytes)) = Len(bytes)
         /\ \A k \in 1..Len(bytes) : Push(bytes)[k] = [what |-> "push", byte |-> bytes[k]]
<1>1. DOMAIN bytes = 1..Len(bytes) /\ Len(bytes) \in Nat
  OBVIOUS
<1>2. Push(bytes) = [k \in 1..Len(bytes) |-> [what |-> "push", byte |-> bytes[k]]]
  BY <1>1 DEF Push
<1>3. \A k \in 1..Len(bytes) : [what |-> "push", byte |-> bytes[k]] \in Pushes
  BY DEF Pushes
<1> QED
  BY <1>1, <1>2, <1>3

\* Without bytes to be pushed there are only calls.
LEMMA NothingPending ==
  ASSUME NEW calls \in Seq(Calls)
  PROVE  Push(<<>>) \o calls = calls
<1> DEFINE none == <<>>
           pushes == Push(none)
<1>1. none \in Seq(Bytes) /\ Len(none) = 0
  OBVIOUS
<1> HIDE DEF none
<1>2. pushes \in Seq(Pushes) /\ Len(pushes) = 0
  BY <1>1, PushEntries
<1> HIDE DEF pushes
<1>3. pushes = <<>>
  BY <1>2
<1>4. <<>> \o calls = calls
  BY ConcatEmptySeq
<1> QED
  BY <1>3, <1>4 DEF pushes, none

\* What the entry on top tells about the rest.
LEMMA TopEntry ==
  ASSUME NEW pending, NEW calls, NEW lines, NEW at, Generating(pending, calls, lines, at), todo # <<>>
  PROVE  /\ Head(todo).what = "push" =>
              /\ pending # <<>> /\ Head(todo).byte = Head(pending)
              /\ Tail(todo) = Push(Tail(pending)) \o calls
         /\ Head(todo).what # "push" =>
              /\ pending = <<>> /\ todo = calls
              /\ Head(todo) \in Calls /\ Tail(todo) \in Seq(Calls)
<1> DEFINE All == Pushes \cup Calls
<1>1. pending \in Seq(Bytes) /\ calls \in Seq(Calls) /\ todo = Push(pending) \o calls
  BY DEF Generating
<1>2. /\ Push(pending) \in Seq(Pushes) /\ Len(Push(pending)) = Len(pending)
      /\ \A k \in 1..Len(pending) : Push(pending)[k] = [what |-> "push", byte |-> pending[k]]
  BY <1>1, PushEntries
<1>3. Push(pending) \in Seq(All) /\ calls \in Seq(All)
  BY <1>1, <1>2
<1> HIDE DEF All
<1>4. CASE pending = <<>>
  <2>1. todo = calls
    BY <1>1, <1>4, NothingPending
  <2>2. Head(todo) \in Calls /\ Tail(todo) \in Seq(Calls)
    BY <1>1, <2>1, HeadTailProperties
  <2>3. Head(todo).what # "push"
    BY <2>2 DEF Calls
  <2> QED BY <1>4, <2>1, <2>2, <2>3
<1>5. CASE pending # <<>>
  <2> DEFINE pushes == Push(pending)
             tail == Tail(pending)
  <2>1. Len(pending) \in Nat /\ Len(pending) >= 1 /\ Head(pending) = pending[1]
    BY <1>1, <1>5
  <2>2. /\ tail \in Seq(Bytes) /\ Len(tail) = Len(pending) - 1
        /\ \A k \in 1..Len(tail) : tail[k] = pending[k + 1]
    BY <1>1, <1>5
  <2>3. /\ Push(tail) \in Seq(Pushes) /\ Len(Push(tail)) = Len(pending) - 1
        /\ \A k \in 1..Len(tail) : Push(tail)[k] = [what |-> "push", byte |-> tail[k]]
    BY <2>2, PushEntries
  <2> HIDE DEF pushes, tail
  <2>4. Tail(pushes) = Push(tail)
    <3>1. pushes \in Seq(Pushes) /\ Len(pushes) = Len(pending) /\ pushes # <<>>
      BY <1>2, <2>1 DEF pushes
    <3>2. /\ Tail(pushes) \in Seq(Pushes) /\ Len(Tail(pushes)) = Len(pending) - 1
          /\ \A k \in 1..(Len(pending) - 1) : Tail(pushes)[k] = pushes[k + 1]
      BY <2>1, <3>1
    <3>3. \A k \in 1..(Len(pending) - 1) : Tail(pushes)[k] = Push(tail)[k]
      <4> TAKE k \in 1..(Len(pending) - 1)
      <4>1. k + 1 \in 1..Len(pending) /\ k \in 1..Len(tail)
        BY <2>1, <2>2
      <4>2. pushes[k + 1] = [what |-> "push", byte |-> pending[k + 1]]
        BY <1>2, <4>1 DEF pushes
      <4> QED BY <2>2, <2>3, <3>2, <4>1, <4>2
    <3> QED BY <2>3, <3>2, <3>3, SeqEqual
  <2>5. Head(todo) = pushes[1] /\ Tail(todo) = Tail(pushes) \o calls
    <3>1. pushes \in Seq(All) /\ pushes # <<>> /\ todo = pushes \o calls
      BY <1>1, <1>2, <1>3, <2>1 DEF pushes
    <3> QED BY <1>3, <3>1, HeadTailOfConcat
  <2>6. Head(todo) = [what |-> "push", byte |-> pending[1]]
    <3>1. 1 \in 1..Len(pending)
      BY <2>1
    <3>2. pushes[1] = [what |-> "push", byte |-> pending[1]]
      BY <1>2, <3>1 DEF pushes
    <3> QED BY <2>5, <3>2
  <2>7. Head(todo).what = "push" /\ Head(todo).byte = Head(pending)
    BY <2>1, <2>6
  <2>8. Tail(todo) = Push(Tail(pending)) \o calls
    BY <2>4, <2>5 DEF tail
  <2> QED BY <1>5, <2>7, <2>8
<1> QED
  BY <1>4, <1>5

\* What the fields of a call are.
LEMMA CallFields ==
  ASSUME NEW call \in Calls
  PROVE  /\ call.what \in {"emit", "operate"}
         /\ call.what = "emit" => call.tree \in Trees \cup Programs
         /\ call.what = "operate" => call.op \in Operators \cup ShortCircuit
<1>1. CASE call \in [what : {"emit"}, tree : Trees \cup Programs]
  BY <1>1
<1>2. CASE call \in [what : {"operate"}, op : Operators \cup ShortCircuit]
  BY <1>2
<1> QED
  BY <1>1, <1>2 DEF Calls

\* The bytes of the chunk, and behind them the bytes that are about to come.
LEMMA BytesAhead ==
  ASSUME NEW c, c.code.items \in Seq(Bytes), NEW bytes \in Seq(Bytes)
  PROVE  LET a == Ahead(c, bytes)
             old == Len(c.code.items)
         IN /\ a.code.items \in Seq(Bytes) /\ Len(a.code.items) = old + Len(bytes)
            /\ \A k \in 1..old : a.code.items[k] = c.code.items[k]
            /\ \A k \in 1..Len(bytes) : ByteAt(a, old + (k - 1)) = bytes[k]
            /\ a.values = c.values
<1> DEFINE a == Ahead(c, bytes)
           items == c.code.items
           long == items \o bytes
<1>1. a.code.items = long /\ a.values = c.values
  BY DEF Ahead
<1>2. items \in Seq(Bytes)
  OBVIOUS
<1> HIDE DEF a, items
<1>3. /\ long \in Seq(Bytes) /\ Len(long) = Len(items) + Len(bytes)
      /\ \A i \in 1..Len(items) + Len(bytes) :
           long[i] = IF i =< Len(items) THEN items[i] ELSE bytes[i - Len(items)]
  BY <1>2, ConcatProperties
<1>4. Len(items) \in Nat /\ Len(bytes) \in Nat
  BY <1>2
<1> HIDE DEF long
<1>5. \A k \in 1..Len(items) : a.code.items[k] = items[k]
  <2> TAKE k \in 1..Len(items)
  <2>1. k \in 1..Len(items) + Len(bytes) /\ k =< Len(items)
    BY <1>4
  <2> QED BY <1>1, <1>3, <2>1
<1>6. \A k \in 1..Len(bytes) : ByteAt(a, Len(items) + (k - 1)) = bytes[k]
  <2> TAKE k \in 1..Len(bytes)
  <2>1. /\ Len(items) + k \in 1..Len(items) + Len(bytes) /\ ~(Len(items) + k =< Len(items))
        /\ (Len(items) + k) - Len(items) = k
        /\ (Len(items) + (k - 1)) + 1 = Len(items) + k
    BY <1>4
  <2>2. long[Len(items) + k] = bytes[k]
    BY <1>3, <2>1
  <2> QED BY <1>1, <2>1, <2>2 DEF ByteAt
<1> QED
  BY <1>1, <1>3, <1>5, <1>6 DEF a, items

\* Nothing to come.
LEMMA NothingAhead ==
  ASSUME NEW c, c.code.items \in Seq(Bytes)
  PROVE  Ahead(c, <<>>).code.items = c.code.items /\ Ahead(c, <<>>).values = c.values
<1>1. c.code.items \o <<>> = c.code.items
  BY ConcatEmptySeq
<1> QED
  BY <1>1 DEF Ahead

\* The generator begins another instruction.
LEMMA InstructionBegun ==
  ASSUME NEW c, c.code.items \in Seq(Bytes), Len(c.values.items) \in Nat,
         NEW lines, NEW at, Readable(Ahead(c, <<>>), lines, at),
         NEW d, d.code.items = c.code.items,
         Len(d.values.items) \in Nat, Len(c.values.items) =< Len(d.values.items),
         \A k \in 1..Len(c.values.items) : d.values.items[k] = c.values.items[k],
         NEW bytes \in Seq(Bytes), Len(bytes) > 0,
         ChecksPass(Ahead(d, bytes), Len(c.code.items)),
         Len(c.code.items) + 1 + OperandSize(Ahead(d, bytes), Len(c.code.items))
            = Len(c.code.items) + Len(bytes),
         NEW line \in Lines, Line(Ahead(d, bytes), Len(c.code.items)) = line
  PROVE  \E offsets : Readable(Ahead(d, bytes), Append(lines, line), offsets)
<1> DEFINE before == Ahead(c, <<>>)
           after == Ahead(d, bytes)
           old == Len(c.code.items)
<1>1. before.code.items = c.code.items /\ before.values = c.values
  BY NothingAhead
<1>2. d.code.items \in Seq(Bytes)
  OBVIOUS
<1>3. /\ after.code.items \in Seq(Bytes) /\ Len(after.code.items) = old + Len(bytes)
      /\ \A k \in 1..old : after.code.items[k] = d.code.items[k]
      /\ after.values = d.values
  <2>1. /\ after.code.items \in Seq(Bytes) /\ Len(after.code.items) = Len(d.code.items) + Len(bytes)
        /\ \A k \in 1..Len(d.code.items) : after.code.items[k] = d.code.items[k]
        /\ after.values = d.values
    BY <1>2, BytesAhead
  <2>2. Len(d.code.items) = old
    OBVIOUS
  <2> HIDE DEF old, after
  <2> QED BY <2>1, <2>2
<1>4. old \in Nat /\ Len(bytes) \in Nat
  OBVIOUS
<1>5. /\ Readable(before, lines, at) /\ ChecksPass(after, old)
      /\ old + 1 + OperandSize(after, old) = old + Len(bytes) /\ Line(after, old) = line
  OBVIOUS
<1> HIDE DEF before, after
<1>6. GoesOn(before, after)
  <2>1. old =< old + Len(bytes)
    BY <1>4
  <2> QED BY <1>1, <1>3, <2>1 DEF GoesOn
<1>7. Len(before.code.items) = old /\ old < Len(after.code.items)
  BY <1>1, <1>3, <1>4
<1> HIDE DEF old
<1>8. Readable(after, Append(lines, line), Append(at, Len(after.code.items)))
  BY <1>3, <1>5, <1>6, <1>7, InstructionAppended
<1> QED
  BY <1>8 DEF after

\* Whatever emit() is at, it keeps what it has written readable, and it will
\* have written the program.
Writing == \E pending, calls, lines, at : Generating(pending, calls, lines, at)

\* Calls of emit() for the parts of a tree.
LEMMA PartsEmitted ==
  ASSUME NEW calls, NEW lines, NEW at, Generating(<<>>, calls, lines, at),
         NEW more \in Seq(Calls), todo' = more, UNCHANGED <<chunk, buffer>>,
         Yields(Meaning(lines), more, Program(buffer.data))
  PROVE  Writing'
<1>1. Readable(Ahead(chunk', <<>>), lines, at)
  BY DEF Generating
<1>2. todo' = Push(<<>>) \o more
  BY NothingPending
<1>3. <<>> \in Seq(Bytes)
  OBVIOUS
<1>4. Yields(Meaning(lines), more, Program(buffer'.data))
  OBVIOUS
<1>5. Generating(<<>>, more, lines, at)'
  BY <1>1, <1>2, <1>3, <1>4 DEF Generating
<1> QED
  BY <1>5 DEF Writing

\* Lines without and with a constant.
LEMMA LinesAre ==
  /\ \A name \in Names : Plain(name) \in Lines
  /\ \A line, value : Refers(line, value) /\ value \in Values => line \in Lines
<1>1. Constants \subseteq Names
  BY NamesAre
<1>2. ASSUME NEW line, NEW value \in Values, Refers(line, value) PROVE line \in Lines
  <2> DEFINE name == line.name
  <2>1. name \in Names /\ line = [name |-> name, constant |-> <<value>>]
    BY <1>1, <1>2 DEF Refers
  <2> HIDE DEF name
  <2>2. <<value>> \in Seq(Values)
    OBVIOUS
  <2> QED BY <2>1, <2>2 DEF Lines
<1>3. ASSUME NEW name \in Names PROVE Plain(name) \in Lines
  BY DEF Plain, Lines
<1> QED
  BY <1>2, <1>3

\* An instruction without operand.
LEMMA SimpleBegun ==
  ASSUME NEW calls, NEW lines, NEW at, Generating(<<>>, calls, lines, at),
         Fits(chunk.code, Bytes), Len(chunk.values.items) \in Nat,
         NEW name \in Operators \cup Literals, NEW rest \in Seq(Calls),
         todo' = Push(<<OP(name)>>) \o rest, UNCHANGED <<chunk, buffer>>,
         Yields(Executed(Meaning(lines), Plain(name)), rest, Program(buffer.data))
  PROVE  Writing'
<1> DEFINE bytes == <<OP(name)>>
           after == Ahead(chunk, bytes)
           old == Len(chunk.code.items)
           line == Plain(name)
           more == Append(lines, line)
<1>1. OP(name) \in Bytes
  BY NamesAre, OpcodeOf DEF Bytes
<1>2. bytes \in Seq(Bytes) /\ Len(bytes) = 1 /\ bytes[1] = OP(name)
  BY <1>1
<1>3. chunk.code.items \in Seq(Bytes) /\ old \in Nat
  BY DEF Fits
<1> HIDE DEF bytes
<1>4. ByteAt(after, old) = OP(name)
  <2>1. \A k \in 1..Len(bytes) : ByteAt(after, old + (k - 1)) = bytes[k]
    BY <1>2, <1>3, BytesAhead
  <2>2. 1 \in 1..Len(bytes) /\ old + (1 - 1) = old
    BY <1>2, <1>3
  <2> HIDE DEF after, old
  <2> QED BY <1>2, <2>1, <2>2
<1>5. OperandSize(after, old) = 0 /\ ChecksPass(after, old) /\ Line(after, old) = line
  BY <1>4, SimpleInstruction
<1>6. Readable(Ahead(chunk, <<>>), lines, at)
  BY DEF Generating
<1>7. /\ Len(chunk.values.items) =< Len(chunk.values.items)
      /\ old + 1 + 0 = old + Len(bytes) /\ Len(bytes) > 0
  BY <1>2, <1>3
<1>8. line \in Lines
  <2>1. name \in Names
    BY NamesAre
  <2> QED BY <2>1, LinesAre
<1> HIDE DEF line
<1>9. \E offsets : Readable(after, more, offsets)
  <2>1. old + 1 + OperandSize(after, old) = old + Len(bytes)
    BY <1>5, <1>7
  <2> HIDE DEF bytes
  <2>2. \A k \in 1..Len(chunk.values.items) : chunk.values.items[k] = chunk.values.items[k]
    OBVIOUS
  <2> QED BY <1>2, <1>3, <1>5, <1>6, <1>7, <1>8, <2>1, <2>2, InstructionBegun
<1>10. PICK offsets : Readable(after, more, offsets)
  BY <1>9
<1>11. Yields(Meaning(more), rest, Program(buffer'.data))
  <2>1. lines \in Seq(Lines)
    BY <1>6 DEF Readable
  <2>2. Meaning(more) = Executed(Meaning(lines), line)
    BY <1>8, <2>1, MeaningOfMore
  <2> QED BY <2>2 DEF line
<1> HIDE DEF more
<1>12. Generating(bytes, rest, more, offsets)'
  BY <1>2, <1>10, <1>11 DEF Generating, bytes
<1> QED
  BY <1>12 DEF Writing

\* The constant of a number, and the instruction that refers to it.
LEMMA NumberEmitted ==
  ASSUME NEW calls, NEW lines, NEW at, Generating(<<>>, calls, lines, at),
         Counted(chunk), chunk.mem.died = "no",
         Fits(chunk.code, Bytes), Fits(chunk.values, Values),
         NEW rest \in Seq(Calls), NEW tree \in Trees, tree.type \in {"Float", "Integer"}, ConstantsSuffice,
         chunk' = value_vec_push(chunk, [type |-> tree.type, value |-> tree.data]),
         todo' = Push(emit_const(Len(chunk.values.items))) \o rest, UNCHANGED buffer,
         Yields(Append(Meaning(lines), tree), rest, Program(buffer.data))
  PROVE  Writing' /\ Fits(chunk.code, Bytes)' /\ Fits(chunk.values, Values)'
<1> DEFINE value == [type |-> tree.type, value |-> tree.data]
           index == Len(chunk.values.items)
           bytes == emit_const(index)
           old == Len(chunk.code.items)
           after == Ahead(chunk', bytes)
           line == Line(after, old)
           more == Append(lines, line)
<1>0. value \in Values /\ chunk' = value_vec_push(chunk, value)
  BY TreeIs DEF Values
<1>1. /\ chunk \in [mem : Tracker, code : {chunk.code}, values : {chunk.values}]
      /\ IsVec(chunk.code) /\ IsVec(chunk.values)
  BY DEF Counted, IsChunk
<1>2. chunk.code.items \in Seq(Bytes) /\ chunk.values.items \in Seq(Values) /\ old \in Nat /\ index \in Nat
  BY DEF Fits
<1> HIDE DEF value
<1>3. chunk'.code = chunk.code /\ chunk'.values = Pushed(chunk.values, value)
  BY <1>0, <1>1 DEF value_vec_push
<1>4. Fits(chunk'.values, Values) /\ chunk'.values.items = Append(chunk.values.items, value)
  <2>1. value \in Values /\ IsVec(chunk.values) /\ Fits(chunk.values, Values)
    BY <1>0, <1>1
  <2> HIDE DEF Values
  <2> QED BY <1>3, <2>1, PushedFits
<1>5. /\ Len(chunk'.values.items) = index + 1 /\ chunk'.values.items[index + 1] = value
      /\ \A k \in 1..index : chunk'.values.items[k] = chunk.values.items[k]
  <2> DEFINE items == chunk.values.items
  <2>1. value \in Values /\ items \in Seq(Values)
    BY <1>0, <1>2
  <2>2. chunk'.values.items = Append(items, value) /\ index = Len(items)
    BY <1>4
  <2> HIDE DEF Values, items, index
  <2>3. /\ Len(Append(items, value)) = Len(items) + 1 /\ Append(items, value)[Len(items) + 1] = value
        /\ \A k \in 1..Len(items) : Append(items, value)[k] = items[k]
    BY <2>1, AppendProperties
  <2> QED BY <2>2, <2>3 DEF items
<1>6. index < (Byte * Byte) * (Byte * Byte)
  BY DEF ConstantsSuffice
<1> HIDE DEF index
<1>7. bytes \in Seq(Bytes) /\ Len(bytes) > 0
  <2> DEFINE sample == [code |-> [items |-> bytes], values |-> [items |-> Append(chunk.values.items, value)]]
  <2>1. \A k \in 1..Len(bytes) : ByteAt(sample, 0 + (k - 1)) = bytes[k]
    <3> TAKE k \in 1..Len(bytes)
    <3>1. 0 + (k - 1) + 1 = k
      OBVIOUS
    <3> HIDE DEF bytes
    <3> QED BY <3>1 DEF ByteAt
  <2>2. index < Len(sample.values.items)
    BY <1>2, <1>4, <1>5
  <2>3. Len(sample.code.items) = 0 + Len(bytes)
    <3>1. bytes \in Seq(Bytes) => Len(bytes) \in Nat
      OBVIOUS
    <3>2. Len(bytes) \in Nat
      BY <1>2, <1>6, ConstantBytes
    <3> HIDE DEF bytes
    <3> QED BY <3>2
  <2> HIDE DEF sample
  <2> QED BY <1>2, <1>6, <2>1, <2>2, <2>3, ConstantInstruction
<1> HIDE DEF bytes, old
<1>8. /\ Len(after.code.items) = old + Len(bytes)
      /\ \A k \in 1..Len(bytes) : ByteAt(after, old + (k - 1)) = bytes[k]
      /\ after.values = chunk'.values
  <2>1. chunk'.code.items \in Seq(Bytes) /\ Len(chunk'.code.items) = old
    BY <1>2, <1>3 DEF old
  <2>2. /\ Len(after.code.items) = Len(chunk'.code.items) + Len(bytes)
        /\ \A k \in 1..Len(bytes) : ByteAt(after, Len(chunk'.code.items) + (k - 1)) = bytes[k]
        /\ after.values = chunk'.values
    <3> PICK c : c = chunk'
      OBVIOUS
    <3> PICK some : some = bytes
      OBVIOUS
    <3>1. c.code.items \in Seq(Bytes) /\ some \in Seq(Bytes)
      BY <1>7, <2>1
    <3>2. /\ Len(Ahead(c, some).code.items) = Len(c.code.items) + Len(some)
          /\ \A k \in 1..Len(some) : ByteAt(Ahead(c, some), Len(c.code.items) + (k - 1)) = some[k]
          /\ Ahead(c, some).values = c.values
      BY <3>1, BytesAhead
    <3> QED BY <3>2
  <2> HIDE DEF after
  <2> QED BY <2>1, <2>2
<1> HIDE DEF after
<1>9. index < Len(after.values.items)
  BY <1>2, <1>5, <1>8
<1>10. /\ ChecksPass(after, old) /\ old + 1 + OperandSize(after, old) = old + Len(bytes)
       /\ Refers(line, value)
  <2>1. /\ ChecksPass(after, old) /\ old + 1 + OperandSize(after, old) = old + Len(bytes)
        /\ Refers(Line(after, old), after.values.items[index + 1])
    BY <1>2, <1>6, <1>8, <1>9, ConstantInstruction DEF bytes
  <2> QED BY <1>5, <1>8, <2>1
<1>11. line \in Lines
  BY <1>0, <1>10, LinesAre
<1>12. Line(after, old) = line
  OBVIOUS
<1> HIDE DEF line
<1>13. \E offsets : Readable(after, more, offsets)
  <2>1. Readable(Ahead(chunk, <<>>), lines, at)
    BY DEF Generating
  <2>2. /\ chunk'.code.items = chunk.code.items
        /\ Len(chunk'.values.items) \in Nat
        /\ Len(chunk.values.items) =< Len(chunk'.values.items)
        /\ Len(chunk.values.items) \in Nat
        /\ \A k \in 1..Len(chunk.values.items) : chunk'.values.items[k] = chunk.values.items[k]
    BY <1>2, <1>3, <1>5 DEF index
  <2> QED BY <1>2, <1>7, <1>10, <1>11, <1>12, <2>1, <2>2, InstructionBegun DEF after, old
<1>14. PICK offsets : Readable(after, more, offsets)
  BY <1>13
<1>15. PICK pending : pending = bytes
  OBVIOUS
<1>16. Yields(Meaning(more), rest, Program(buffer'.data))
  <2>1. lines \in Seq(Lines)
    BY DEF Generating, Readable
  <2>2. Meaning(more) = Executed(Meaning(lines), line)
    BY <1>11, <2>1, MeaningOfMore
  <2> DEFINE name == line.name
  <2>3. name \in Constants /\ line = [name |-> name, constant |-> <<value>>]
    BY <1>10 DEF Refers
  <2> HIDE DEF name
  <2>4. Executed(Meaning(lines), line) = Append(Meaning(lines), tree)
    BY <2>3, NumberExecuted DEF value
  <2> QED BY <2>2, <2>4
<1>17. PICK written : written = more
  OBVIOUS
<1> HIDE DEF more
<1>18. Generating(pending, rest, written, offsets)'
  <2>1. todo' = Push(pending) \o rest
    BY <1>15 DEF bytes, index
  <2>2. Readable(Ahead(chunk', pending), written, offsets)
    BY <1>14, <1>15, <1>17 DEF after
  <2>3. pending \in Seq(Bytes)
    BY <1>7, <1>15
  <2> QED BY <1>16, <1>17, <2>1, <2>2, <2>3 DEF Generating
<1>19. Fits(chunk'.code, Bytes)
  BY <1>3 DEF Fits
<1> QED
  BY <1>4, <1>18, <1>19 DEF Writing

\* A byte is pushed that was to come.
LEMMA BytePushed ==
  ASSUME NEW pending, NEW calls, NEW lines, NEW at, Generating(pending, calls, lines, at), pending # <<>>,
         Counted(chunk), chunk.mem.died = "no",
         Fits(chunk.code, Bytes), Fits(chunk.values, Values),
         chunk' = code_vec_push(chunk, Head(pending)),
         todo' = Push(Tail(pending)) \o calls, UNCHANGED buffer
  PROVE  Writing' /\ Fits(chunk.code, Bytes)' /\ Fits(chunk.values, Values)'
<1> DEFINE items == chunk.code.items
<1>1. /\ chunk \in [mem : Tracker, code : {chunk.code}, values : {chunk.values}]
      /\ IsVec(chunk.code) /\ IsVec(chunk.values)
  BY DEF Counted, IsChunk
<1>2. pending \in Seq(Bytes) /\ Head(pending) \in Bytes /\ Tail(pending) \in Seq(Bytes) /\ Len(pending) >= 1
  <2>1. pending \in Seq(Bytes)
    BY DEF Generating
  <2> QED BY <2>1
<1>3. chunk'.code = Pushed(chunk.code, Head(pending)) /\ chunk'.values = chunk.values
  BY <1>1 DEF code_vec_push
<1>4. Fits(chunk'.code, Bytes) /\ chunk'.code.items = Append(items, Head(pending))
  BY <1>1, <1>2, <1>3, PushedFits
<1>5. Append(items, Head(pending)) \o Tail(pending) = items \o pending
  <2>1. items \in Seq(Bytes)
    BY DEF Fits
  <2> HIDE DEF items
  <2> DEFINE first == Append(items, Head(pending))
             rest == Tail(pending)
             left == first \o rest
             right == items \o pending
  <2>2. Len(items) \in Nat /\ Len(pending) \in Nat
    BY <1>2, <2>1
  <2>3. /\ first \in Seq(Bytes) /\ Len(first) = Len(items) + 1
        /\ \A i \in 1..Len(items) : first[i] = items[i]
        /\ first[Len(items) + 1] = Head(pending)
    BY <1>2, <2>1, AppendProperties
  <2>4. /\ rest \in Seq(Bytes) /\ Len(rest) = Len(pending) - 1 /\ Head(pending) = pending[1]
        /\ \A i \in 1..Len(pending) - 1 : rest[i] = pending[i + 1]
    BY <1>2
  <2>5. /\ right \in Seq(Bytes) /\ Len(right) = Len(items) + Len(pending)
        /\ \A i \in 1..Len(items) + Len(pending) :
             right[i] = IF i =< Len(items) THEN items[i] ELSE pending[i - Len(items)]
    BY <1>2, <2>1, ConcatProperties
  <2> HIDE DEF first, rest, right
  <2>6. /\ left \in Seq(Bytes) /\ Len(left) = Len(first) + Len(rest)
        /\ \A i \in 1..Len(first) + Len(rest) :
             left[i] = IF i =< Len(first) THEN first[i] ELSE rest[i - Len(first)]
    BY <2>3, <2>4, ConcatProperties
  <2> HIDE DEF left
  <2>7. Len(left) = Len(items) + Len(pending)
    BY <2>2, <2>3, <2>4, <2>6
  <2>8. \A i \in 1..Len(items) + Len(pending) : left[i] = right[i]
    <3> TAKE i \in 1..Len(items) + Len(pending)
    <3>1. left[i] = IF i =< Len(items) + 1 THEN first[i] ELSE rest[i - (Len(items) + 1)]
      BY <2>2, <2>3, <2>4, <2>6
    <3>2. right[i] = IF i =< Len(items) THEN items[i] ELSE pending[i - Len(items)]
      BY <2>5
    <3>3. CASE i =< Len(items)
      <4>1. i \in 1..Len(items) /\ i =< Len(items) + 1
        BY <2>2, <3>3
      <4> QED BY <2>3, <3>1, <3>2, <3>3, <4>1
    <3>4. CASE i = Len(items) + 1
      <4>1. ~(i =< Len(items)) /\ i =< Len(items) + 1 /\ i - Len(items) = 1
        BY <2>2, <3>4
      <4> QED BY <2>3, <2>4, <3>1, <3>2, <3>4, <4>1
    <3>5. CASE i > Len(items) + 1
      <4>1. /\ ~(i =< Len(items) + 1) /\ ~(i =< Len(items))
            /\ i - (Len(items) + 1) \in 1..Len(pending) - 1
            /\ (i - (Len(items) + 1)) + 1 = i - Len(items)
        BY <2>2, <3>5
      <4> QED BY <2>4, <3>1, <3>2, <4>1
    <3> QED BY <2>2, <3>3, <3>4, <3>5
  <2> QED BY <2>5, <2>6, <2>7, <2>8, SeqEqual DEF left, right, first, rest
<1>6. Ahead(chunk', Tail(pending)) = Ahead(chunk, pending)
  BY <1>3, <1>4, <1>5 DEF Ahead
<1>7. Generating(Tail(pending), calls, lines, at)'
  BY <1>2, <1>6 DEF Generating
<1>8. Fits(chunk'.values, Values)
  BY <1>3 DEF Fits
<1> QED
  BY <1>4, <1>7, <1>8 DEF Writing

\* Each step of emit() writes whole instructions, sooner or later.
LEMMA EmitWrites ==
  ASSUME Writing, Counted(chunk), chunk.mem.died = "no",
         Fits(chunk.code, Bytes), Fits(chunk.values, Values), emit, UNCHANGED buffer
  PROVE  Writing' /\ Fits(chunk.code, Bytes)' /\ Fits(chunk.values, Values)'
<1>1. PICK pending, calls, lines, at : Generating(pending, calls, lines, at)
  BY DEF Writing
<1>2. todo # <<>>
  BY DEF emit, emit_program, emit_binary, emit_unary, push_operation, emit_number,
         emit_literal, push_byte, IsNext
<1>3. /\ Head(todo).what = "push" =>
           /\ pending # <<>> /\ Head(todo).byte = Head(pending)
           /\ Tail(todo) = Push(Tail(pending)) \o calls
      /\ Head(todo).what # "push" =>
           /\ pending = <<>> /\ todo = calls
           /\ Head(todo) \in Calls /\ Tail(todo) \in Seq(Calls)
  BY <1>1, <1>2, TopEntry
<1> DEFINE top  == Head(todo)
           rest == Tail(todo)
<1> HIDE DEF top, rest
<1>4. top = Head(todo) /\ rest = Tail(todo)
  BY DEF top, rest
<1>5. Len(chunk.values.items) \in Nat
  BY DEF Fits
<1> DEFINE stack == Meaning(lines)
           program == Program(buffer.data)
<1>6. ASSUME top.what # "push"
      PROVE  /\ Generating(<<>>, calls, lines, at) /\ top \in Calls /\ rest \in Seq(Calls)
             /\ top.what = "emit" => top.tree \in Trees \cup Programs
             /\ top.what = "operate" => top.op \in Operators \cup ShortCircuit
             /\ stack \in Seq(Trees) /\ Yields(Effect(stack, top), rest, program)
  <2>1. /\ Generating(<<>>, calls, lines, at) /\ top \in Calls /\ rest \in Seq(Calls)
        /\ todo = calls
    BY <1>1, <1>3, <1>4, <1>6
  <2>2. calls \in Seq(Calls) /\ calls # <<>> /\ Yields(stack, calls, program)
    BY <1>2, <2>1 DEF Generating
  <2>3. stack \in Seq(Trees) /\ Yields(Effect(stack, Head(calls)), Tail(calls), program)
    BY <2>2, YieldsFirst
  <2> QED BY <1>4, <2>1, <2>3, CallFields
<1>7. CASE push_byte
  <2>1. /\ top.what = "push"
        /\ chunk' = code_vec_push(chunk, top.byte) /\ todo' = rest
    BY <1>4, <1>7 DEF push_byte
  <2>2. /\ chunk' = code_vec_push(chunk, Head(pending))
        /\ todo' = Push(Tail(pending)) \o calls /\ pending # <<>>
    BY <1>3, <1>4, <2>1
  <2> QED BY <1>1, <2>2, BytePushed
<1>8. CASE emit_program
  <2>1. /\ top.what = "emit" /\ top.tree.type = "Program" /\ UNCHANGED chunk
        /\ todo' = EmitAll(top.tree.parts) \o rest
    BY <1>4, <1>8 DEF emit_program, IsNext
  <2>2. top.tree.parts \in Seq(Trees) /\ rest \in Seq(Calls)
    BY <1>6, <2>1, TreesAssumption DEF Programs
  <2>3. EmitAll(top.tree.parts) \o rest \in Seq(Calls)
    <3>1. EmitAll(top.tree.parts) \in Seq(Calls)
      BY <2>2, EmitAllCalls
    <3> QED BY <2>2, <3>1, ConcatProperties
  <2>4. Yields(stack \o top.tree.parts, rest, program)
    <3>1. Effect(stack, top) = stack \o top.tree.parts
      BY <2>1 DEF Effect
    <3> QED BY <1>6, <2>1, <3>1
  <2>5. Yields(stack, EmitAll(top.tree.parts) \o rest, program)
    <3>1. stack \in Seq(Trees)
      BY <1>6, <2>1
    <3> HIDE DEF stack, program
    <3> QED BY <2>2, <2>4, <3>1, YieldsAll
  <2>6. Writing'
    <3>1. PICK more \in Seq(Calls) : todo' = more /\ Yields(stack, more, program)
      BY <2>1, <2>3, <2>5
    <3> QED BY <1>6, <2>1, <3>1, PartsEmitted
  <2> QED BY <2>1, <2>6 DEF Fits
<1>9. CASE emit_binary \/ emit_unary
  <2> DEFINE tree == top.tree
             parts == EmitAll(tree.parts)
             last == <<Operate(tree.data)>>
  <2>1. /\ top.what = "emit" /\ tree.type \in {"Binary", "Unary"} /\ UNCHANGED chunk
        /\ todo' = parts \o last \o rest
    BY <1>4, <1>9 DEF emit_binary, emit_unary, IsNext
  <2>2. tree \in Trees /\ rest \in Seq(Calls) /\ stack \in Seq(Trees)
    BY <1>6, <2>1 DEF Programs
  <2>3. tree.parts \in Seq(Trees) /\ tree.data \in Operators \cup ShortCircuit
    <3>1. tree.parts \in Seq(Trees)
      BY <2>2, TreeIs
    <3>2. CASE tree.type = "Binary"
      BY <2>2, <3>1, <3>2, TreesAssumption
    <3>3. CASE tree.type = "Unary"
      <4>1. tree.data \in UnaryOperators
        BY <2>2, <3>3, TreesAssumption
      <4>2. UnaryOperators \subseteq Operators
        <5>1. Operators = {OpCodes[op] : op \in 7..25}
          BY NamesAre DEF Operators, OpCodes
        <5>2. OpCodes[23] = "Minus" /\ OpCodes[24] = "BitNot" /\ OpCodes[25] = "LogicalNot"
          BY DEF OpCodes
        <5> QED BY <5>1, <5>2 DEF UnaryOperators
      <4> QED BY <3>1, <4>1, <4>2
    <3> QED BY <2>1, <3>2, <3>3
  <2>4. Yields(Append(stack, tree), rest, program)
    <3>1. Effect(stack, top) = Append(stack, top.tree)
      BY <2>1 DEF Effect
    <3> QED BY <1>6, <2>1, <3>1
  <2>5. parts \in Seq(Calls) /\ last \in Seq(Calls) /\ Operate(tree.data) \in Calls
    <3>1. Operate(tree.data) \in Calls
      BY <2>3 DEF Operate, Calls
    <3> QED BY <2>3, <3>1, EmitAllCalls
  <2>6. last \o rest \in Seq(Calls) /\ parts \o (last \o rest) \in Seq(Calls)
    <3>1. last \o rest \in Seq(Calls)
      BY <2>2, <2>5, ConcatProperties
    <3> HIDE DEF parts, last
    <3> QED BY <2>5, <3>1, ConcatProperties
  <2>7. todo' = parts \o (last \o rest)
    <3>1. parts \in Seq(Calls) /\ last \in Seq(Calls) /\ rest \in Seq(Calls)
      BY <2>2, <2>5
    <3>2. todo' = (parts \o last) \o rest
      BY <2>1
    <3> HIDE DEF parts, last
    <3> QED BY <3>1, <3>2, ConcatAssociative
  <2>8. stack \o tree.parts \in Seq(Trees)
    BY <2>2, <2>3, ConcatProperties
  <2>9. Effect(stack \o tree.parts, Operate(tree.data)) = Append(stack, tree)
    <3> DEFINE call == Operate(tree.data)
    <3>1. call.what = "operate" /\ call.op = tree.data
      BY DEF Operate
    <3> HIDE DEF call
    <3>2. Effect(stack \o tree.parts, call) = Executed(stack \o tree.parts, Plain(tree.data))
      BY <3>1 DEF Effect
    <3> HIDE DEF stack, tree
    <3>3. Executed(stack \o tree.parts, Plain(tree.data)) = Append(stack, tree)
      BY <2>1, <2>2, OperationExecuted
    <3> QED BY <3>2, <3>3 DEF call
  <2>10. Yields(stack \o tree.parts, last \o rest, program)
    <3> DEFINE call == Operate(tree.data)
               long == stack \o tree.parts
    <3>1. call \in Calls /\ long \in Seq(Trees) /\ Yields(Effect(long, call), rest, program)
      BY <2>4, <2>5, <2>8, <2>9
    <3> HIDE DEF call, long, program
    <3>2. Yields(long, <<call>> \o rest, program)
      BY <2>2, <3>1, YieldsMore
    <3> QED BY <3>2 DEF call, long
  <2>11. Yields(stack, parts \o (last \o rest), program)
    <3> DEFINE more == last \o rest
    <3>1. more \in Seq(Calls) /\ Yields(stack \o tree.parts, more, program)
      BY <2>6, <2>10
    <3> HIDE DEF more, stack, program
    <3>2. Yields(stack, EmitAll(tree.parts) \o more, program)
      BY <2>2, <2>3, <3>1, YieldsAll
    <3> QED BY <3>2 DEF more
  <2>12. Writing'
    <3>1. PICK more \in Seq(Calls) : todo' = more /\ Yields(stack, more, program)
      BY <2>6, <2>7, <2>11
    <3> QED BY <1>6, <2>1, <3>1, PartsEmitted
  <2> QED BY <2>1, <2>12 DEF Fits
<1>10. CASE push_operation
  <2>1. /\ top.what = "operate" /\ top.op \notin ShortCircuit /\ UNCHANGED chunk
        /\ todo' = Push(<<OP(top.op)>>) \o rest
    BY <1>4, <1>10 DEF push_operation
  <2>2. top.op \in Operators \cup Literals
    BY <1>6, <2>1
  <2>3. Yields(Executed(stack, Plain(top.op)), rest, program)
    <3>1. Effect(stack, top) = Executed(stack, Plain(top.op))
      BY <2>1 DEF Effect
    <3> QED BY <1>6, <2>1, <3>1
  <2>4. Writing'
    BY <1>5, <1>6, <2>1, <2>2, <2>3, SimpleBegun
  <2> QED BY <2>1, <2>4 DEF Fits
<1>11. CASE emit_literal
  <2> DEFINE name == CASE top.tree.type = "Nil"   -> "Nil"
                       [] top.tree.data = "true"  -> "True"
                       [] top.tree.data = "false" -> "False"
  <2>1. /\ top.what = "emit" /\ top.tree.type \in {"Boolean", "Nil"} /\ UNCHANGED chunk
        /\ todo' = Push(<<OP(name)>>) \o rest
    BY <1>4, <1>11 DEF emit_literal, IsNext
  <2>2. top.tree \in Trees
    BY <1>6, <2>1 DEF Programs
  <2>3. \/ top.tree.type = "Nil" /\ name = "Nil"
        \/ top.tree.type = "Boolean" /\ top.tree.data = "true" /\ name = "True"
        \/ top.tree.type = "Boolean" /\ top.tree.data = "false" /\ name = "False"
    <3>1. CASE top.tree.type = "Nil"
      <4>1. top.tree.data = ""
        BY <2>2, <3>1, TreesAssumption
      <4> QED BY <3>1, <4>1
    <3>2. CASE top.tree.type = "Boolean"
      <4>1. top.tree.data \in {"true", "false"} /\ top.tree.type # "Nil"
        BY <2>2, <3>2, TreesAssumption
      <4> QED BY <3>2, <4>1
    <3> QED BY <2>1, <3>1, <3>2
  <2> HIDE DEF name
  <2>4. name \in Operators \cup Literals
    BY <2>3 DEF Literals
  <2>5. Yields(Executed(stack, Plain(name)), rest, program)
    <3>1. Effect(stack, top) = Append(stack, top.tree)
      BY <2>1 DEF Effect
    <3>2. Executed(stack, Plain(name)) = Append(stack, top.tree)
      BY <2>2, <2>3, LiteralExecuted
    <3> QED BY <1>6, <2>1, <3>1, <3>2
  <2>6. Writing'
    BY <1>5, <1>6, <2>1, <2>4, <2>5, SimpleBegun
  <2> QED BY <2>1, <2>6 DEF Fits
<1>12. CASE emit_number
  <2>1. /\ top.what = "emit" /\ top.tree.type \in {"Float", "Integer"} /\ ConstantsSuffice
        /\ chunk' = value_vec_push(chunk, [type |-> top.tree.type, value |-> top.tree.data])
        /\ todo' = Push(emit_const(Len(chunk.values.items))) \o rest
    BY <1>4, <1>12 DEF emit_number, IsNext
  <2>2. top.tree \in Trees
    BY <1>6, <2>1 DEF Programs
  <2>3. Yields(Append(stack, top.tree), rest, program)
    <3>1. Effect(stack, top) = Append(stack, top.tree)
      BY <2>1 DEF Effect
    <3> QED BY <1>6, <2>1, <3>1
  <2> QED BY <1>6, <2>1, <2>2, <2>3, NumberEmitted
<1> QED
  BY <1>7, <1>8, <1>9, <1>10, <1>11, <1>12 DEF emit

(***************************************************************************)
(* The generator, then the disassembler.                                   *)
(***************************************************************************)

\* The disassembler has printed some of the lines of the code, which mean the
\* program, and is where the next one begins, or at the end.
Printing(lines, at) ==
    /\ Readable(chunk, lines, at) /\ Meaning(lines) = Program(buffer.data)
    /\ listing \in Seq(Lines) /\ Len(listing) =< Len(lines)
    /\ \A k \in 1..Len(listing) : listing[k] = lines[k]
    /\ offset = at[Len(listing) + 1]

Disassembling == \E lines, at : Printing(lines, at)

\* The vectors keep within their capacities; the generator keeps the code
\* readable, but for the bytes of one instruction, and what it has still to do
\* makes it the program; and the disassembler prints the lines of that code.
CodeInv ==
    /\ Fits(chunk.code, Bytes) /\ Fits(chunk.values, Values)
    /\ offset \in Nat
    /\ pc = "generate" => offset = 0 /\ listing = <<>> /\ Writing
    /\ pc = "disassemble" => Disassembling
    /\ ListingIsTheProgram

\* An empty vector fits.
LEMMA EmptyFits ==
  ASSUME NEW S
  PROVE  Fits(EmptyVec, S)
BY DEF Fits, EmptyVec

\* Without a chunk there is nothing to be read.
LEMMA InitCode == Init => CodeInv
<1> SUFFICES ASSUME Init PROVE CodeInv
  OBVIOUS
<1>1. chunk.code = EmptyVec /\ chunk.values = EmptyVec /\ offset = 0 /\ pc = "prompt"
  BY DEF Init, chunk_init
<1> QED
  BY <1>1, EmptyFits DEF CodeInv, ListingIsTheProgram

\* No code is readable.
LEMMA NoCode ==
  ASSUME NEW c, c.code = EmptyVec
  PROVE  Readable(Ahead(c, <<>>), <<>>, <<0>>)
<1> DEFINE none == Ahead(c, <<>>)
           lines == <<>>
           at == <<0>>
<1>1. c.code.items = <<>>
  BY DEF EmptyVec
<1>2. <<>> \in Seq(Bytes)
  OBVIOUS
<1>3. none.code.items = <<>>
  BY <1>1, <1>2, NothingAhead
<1> HIDE DEF none
<1>4. Len(none.code.items) = 0
  BY <1>3
<1>5. /\ lines \in Seq(Lines) /\ Len(lines) = 0
      /\ at \in Seq(Nat) /\ Len(at) = 1 /\ at[1] = 0
  OBVIOUS
<1> HIDE DEF lines, at
<1>6. Readable(none, lines, at)
  BY <1>4, <1>5 DEF Readable
<1> QED
  BY <1>6 DEF none, lines, at

\* The sequences of no bytes, and of one call.
LEMMA SmallSequences ==
  ASSUME NEW call \in Calls
  PROVE  <<>> \in Seq(Bytes) /\ <<call>> \in Seq(Calls)
OBVIOUS

\* The code of a program makes the trees of its statements.
LEMMA YieldsProgram ==
  ASSUME NEW program \in Programs
  PROVE  Yields(<<>>, <<Emit(program)>>, program.parts)
<1> DEFINE call == Emit(program)
           calls == <<call>>
           parts == program.parts
           none == <<>>
           after == <<none, parts>>
<1>1. /\ parts \in Seq(Trees) /\ program.type = "Program"
      /\ call.what = "emit" /\ call.tree = program
  BY DEF Programs, Emit
<1> HIDE DEF call, parts
<1>2. none \in Seq(Trees) /\ none \o parts = parts
  BY <1>1, ConcatEmptySeq
<1>3. Effect(none, call) = parts
  <2>1. call.tree.parts = parts
    BY <1>1 DEF parts
  <2> QED BY <1>1, <1>2, <2>1 DEF Effect
<1>4. Len(calls) = 1 /\ calls[1] = call
  OBVIOUS
<1>5. /\ after \in Seq(Seq(Trees)) /\ Len(after) = 2
      /\ after[1] = none /\ after[2] = parts
  BY <1>1, <1>2
<1> HIDE DEF after, calls, none
<1>6. Passes(after, none, calls, parts)
  BY <1>3, <1>4, <1>5 DEF Passes
<1>7. Yields(none, calls, parts)
  BY <1>6 DEF Yields
<1> QED
  BY <1>7 DEF none, calls, call, parts

\* The generator begins with a program and no code.
LEMMA WritingBegins ==
  ASSUME Program(buffer.data) \in Seq(Trees), chunk'.code = EmptyVec, buffer' = buffer,
         todo' = <<Emit(Ast("Program", "", Program(buffer.data)))>>
  PROVE  Writing'
<1> DEFINE program == Ast("Program", "", Program(buffer.data))
           calls == <<Emit(program)>>
<1>1. program \in Programs /\ program.parts = Program(buffer.data)
  BY DEF Ast, Programs
<1>2. todo' = calls
  OBVIOUS
<1> HIDE DEF program
<1>3. Emit(program) \in Calls
  BY <1>1 DEF Emit, Calls
<1>4. calls \in Seq(Calls) /\ <<>> \in Seq(Bytes)
  BY <1>3, SmallSequences
<1>5. Yields(<<>>, calls, Program(buffer'.data))
  BY <1>1, YieldsProgram
<1> HIDE DEF calls
<1>6. Readable(Ahead(chunk', <<>>), <<>>, <<0>>)
  BY NoCode
<1>7. todo' = Push(<<>>) \o calls
  BY <1>2, <1>4, NothingPending
<1>8. Yields(Meaning(<<>>), calls, Program(buffer'.data))
  <2>1. Meaning(<<>>) = <<>>
    BY MeaningOfNothing
  <2> QED BY <1>5, <2>1
<1> DEFINE none == <<>>
           at == <<0>>
<1>9. PICK begun \in Seq(Calls) : begun = calls
  BY <1>4
<1>10. Generating(none, begun, none, at)'
  <2>1. /\ none \in Seq(Bytes) /\ todo' = Push(none) \o begun
        /\ Readable(Ahead(chunk', none), none, at) /\ Yields(Meaning(none), begun, Program(buffer'.data))
    BY <1>4, <1>6, <1>7, <1>8, <1>9
  <2> HIDE DEF none, at
  <2> QED BY <2>1 DEF Generating
<1> QED
  BY <1>10 DEF Writing

\* When everything has been emitted, the code is readable and means the program.
LEMMA WritingEnds ==
  ASSUME Writing, todo = <<>>, Fits(chunk.code, Bytes), Len(chunk.values.items) \in Nat
  PROVE  \E lines, at : Readable(chunk, lines, at) /\ Meaning(lines) = Program(buffer.data)
<1>1. PICK pending, calls, lines, at : Generating(pending, calls, lines, at)
  BY DEF Writing
<1>2. pending = <<>> /\ calls = <<>>
  <2> DEFINE pushes == Push(pending)
             All == Pushes \cup Calls
  <2>1. pending \in Seq(Bytes) /\ calls \in Seq(Calls) /\ todo = pushes \o calls
    BY <1>1 DEF Generating
  <2>2. pushes \in Seq(Pushes) /\ Len(pushes) = Len(pending)
    BY <2>1, PushEntries
  <2> HIDE DEF pushes
  <2>3. pushes \in Seq(All) /\ calls \in Seq(All)
    BY <2>1, <2>2
  <2> HIDE DEF All
  <2>4. Len(todo) = Len(pushes) + Len(calls)
    BY <2>1, <2>3, ConcatProperties
  <2>5. Len(todo) = 0 /\ Len(pushes) \in Nat /\ Len(calls) \in Nat
    BY <2>1, <2>2
  <2>6. Len(pending) = 0 /\ Len(calls) = 0
    BY <2>2, <2>4, <2>5
  <2> QED BY <2>1, <2>6
<1> DEFINE before == Ahead(chunk, <<>>)
<1>3. Readable(before, lines, at) /\ Yields(Meaning(lines), <<>>, Program(buffer.data))
  BY <1>1, <1>2 DEF Generating
<1>4. chunk.code.items \in Seq(Bytes) /\ Len(chunk.code.items) \in Nat
  BY DEF Fits
<1>5. before.code.items = chunk.code.items /\ before.values = chunk.values
  BY <1>4, NothingAhead
<1> HIDE DEF before
<1>6. GoesOn(before, chunk)
  BY <1>4, <1>5 DEF GoesOn
<1>7. ASSUME NEW k \in 1..Len(lines)
      PROVE  /\ at[k] < Len(chunk.code.items) /\ ChecksPass(chunk, at[k]) /\ Line(chunk, at[k]) = lines[k]
             /\ at[k + 1] = at[k] + 1 + OperandSize(chunk, at[k])
  <2>1. /\ at[k] < Len(before.code.items) /\ ChecksPass(before, at[k]) /\ Line(before, at[k]) = lines[k]
        /\ at[k + 1] = at[k] + 1 + OperandSize(before, at[k])
    BY <1>3 DEF Readable
  <2>2. at[k] \in Nat
    <3>1. at \in Seq(Nat) /\ Len(at) = Len(lines) + 1 /\ Len(lines) \in Nat
      BY <1>3, LenProperties DEF Readable
    <3>2. k \in 1..Len(at)
      BY <3>1
    <3> QED BY <3>1, <3>2, ElementOfSeq
  <2>3. /\ OperandSize(chunk, at[k]) = OperandSize(before, at[k]) /\ ChecksPass(chunk, at[k])
        /\ Line(chunk, at[k]) = Line(before, at[k])
    BY <1>6, <2>1, <2>2, SameInstruction
  <2> QED BY <1>5, <2>1, <2>3
<1>8. Readable(chunk, lines, at)
  BY <1>3, <1>5, <1>7 DEF Readable
<1>9. Meaning(lines) = Program(buffer.data)
  BY <1>3, YieldsNothing
<1> QED
  BY <1>8, <1>9

\* The disassembler begins with the first line.
LEMMA PrintingBegins ==
  ASSUME NEW lines, NEW at, Readable(chunk, lines, at), Meaning(lines) = Program(buffer.data),
         listing = <<>>, offset = 0
  PROVE  Disassembling
<1>1. listing \in Seq(Lines) /\ Len(listing) = 0
  OBVIOUS
<1>2. Len(lines) \in Nat /\ at[1] = 0
  BY LenProperties DEF Readable
<1>3. Printing(lines, at)
  BY <1>1, <1>2 DEF Printing
<1> QED
  BY <1>3 DEF Disassembling

\* Where the disassembler is: at the next line, or behind the last.
LEMMA PrintingIsAt ==
  ASSUME NEW lines, NEW at, Printing(lines, at), Fits(chunk.code, Bytes)
  PROVE  /\ Len(listing) \in Nat /\ Len(lines) \in Nat /\ lines \in Seq(Lines)
         /\ offset \in Nat /\ Len(chunk.code.items) \in Nat
         /\ offset < Len(chunk.code.items) =>
              /\ Len(listing) + 1 \in 1..Len(lines) /\ ChecksPass(chunk, offset)
              /\ Line(chunk, offset) = lines[Len(listing) + 1]
              /\ at[Len(listing) + 2] = offset + 1 + OperandSize(chunk, offset)
         /\ offset >= Len(chunk.code.items) => Len(listing) = Len(lines)
<1> DEFINE n == Len(listing)
           length == Len(chunk.code.items)
<1>1. /\ listing \in Seq(Lines) /\ n =< Len(lines) /\ offset = at[n + 1]
      /\ lines \in Seq(Lines) /\ at \in Seq(Nat) /\ Len(at) = Len(lines) + 1
      /\ at[Len(lines) + 1] = length
      /\ \A k \in 1..Len(lines) : /\ at[k] < length /\ ChecksPass(chunk, at[k])
                                  /\ Line(chunk, at[k]) = lines[k]
                                  /\ at[k + 1] = at[k] + 1 + OperandSize(chunk, at[k])
  BY DEF Printing, Readable
<1>2. n \in Nat /\ Len(lines) \in Nat /\ length \in Nat
  <2>1. chunk.code.items \in Seq(Bytes)
    BY DEF Fits
  <2> QED BY <1>1, <2>1, LenProperties
<1> HIDE DEF n, length
<1>3. n + 1 \in 1..Len(at)
  BY <1>1, <1>2
<1>4. offset \in Nat
  BY <1>1, <1>3, ElementOfSeq
<1>5. CASE n = Len(lines)
  <2>1. offset = length
    BY <1>1, <1>5
  <2> QED BY <1>1, <1>2, <1>4, <1>5, <2>1 DEF n, length
<1>6. CASE n # Len(lines)
  <2>1. n + 1 \in 1..Len(lines) /\ n + 2 = (n + 1) + 1
    BY <1>1, <1>2, <1>6
  <2>2. /\ offset < length /\ ChecksPass(chunk, offset) /\ Line(chunk, offset) = lines[n + 1]
        /\ at[n + 2] = offset + 1 + OperandSize(chunk, offset)
    BY <1>1, <2>1
  <2>3. ~(offset >= length)
    BY <1>2, <1>4, <2>2
  <2> QED BY <1>1, <1>2, <1>4, <2>1, <2>2, <2>3 DEF n, length
<1> QED
  BY <1>5, <1>6

\* The disassembler prints one line.
LEMMA LinePrinted ==
  ASSUME Disassembling, Fits(chunk.code, Bytes), offset < Len(chunk.code.items),
         UNCHANGED <<chunk, buffer>>,
         listing' = Append(listing, Line(chunk, offset)),
         offset' = offset + 1 + OperandSize(chunk, offset)
  PROVE  Disassembling' /\ offset' \in Nat
<1>1. PICK lines, at : Printing(lines, at)
  BY DEF Disassembling
<1> DEFINE n == Len(listing)
           line == Line(chunk, offset)
           more == Append(listing, line)
<1>2. /\ n \in Nat /\ Len(lines) \in Nat /\ n + 1 \in 1..Len(lines)
      /\ line = lines[n + 1] /\ lines \in Seq(Lines)
      /\ at[n + 2] = offset + 1 + OperandSize(chunk, offset)
  BY <1>1, PrintingIsAt
<1>3. /\ listing \in Seq(Lines) /\ \A k \in 1..n : listing[k] = lines[k]
      /\ Readable(chunk, lines, at) /\ Meaning(lines) = Program(buffer.data)
  BY <1>1 DEF Printing
<1>4. line \in Lines
  BY <1>2, ElementOfSeq
<1>5. listing' = more
  OBVIOUS
<1> HIDE DEF line
<1>6. /\ more \in Seq(Lines) /\ Len(more) = n + 1 /\ more[n + 1] = line
      /\ \A k \in 1..n : more[k] = listing[k]
  BY <1>3, <1>4, AppendProperties
<1> HIDE DEF more, n
<1>7. \A k \in 1..Len(more) : more[k] = lines[k]
  <2> TAKE k \in 1..Len(more)
  <2>1. CASE k = n + 1
    BY <1>2, <1>6, <2>1
  <2>2. CASE k # n + 1
    <3>1. k \in 1..n
      BY <1>2, <1>6, <2>2
    <3> QED BY <1>3, <1>6, <3>1
  <2> QED BY <2>1, <2>2
<1>8. offset' = at[Len(more) + 1]
  <2>1. Len(more) + 1 = n + 2
    BY <1>2, <1>6
  <2> QED BY <1>2, <2>1
<1>9. Len(more) =< Len(lines)
  BY <1>2, <1>6
<1>10. Printing(lines, at)'
  BY <1>3, <1>5, <1>6, <1>7, <1>8, <1>9 DEF Printing
<1>11. Fits(chunk'.code, Bytes)
  OBVIOUS
<1>12. offset' \in Nat
  <2>1. at \in Seq(Nat) /\ Len(at) = Len(lines) + 1
    BY <1>3 DEF Readable
  <2>2. n + 2 \in 1..Len(at)
    BY <1>2, <2>1
  <2>3. at[n + 2] \in Nat
    BY <2>1, <2>2, ElementOfSeq
  <2> QED BY <1>2, <2>3
<1> QED
  BY <1>10, <1>12 DEF Disassembling

\* When the disassembler is at the end, it has printed the program.
LEMMA PrintingEnds ==
  ASSUME Disassembling, Fits(chunk.code, Bytes), offset >= Len(chunk.code.items)
  PROVE  Meaning(listing) = Program(buffer.data)
<1>1. PICK lines, at : Printing(lines, at)
  BY DEF Disassembling
<1>2. Len(listing) = Len(lines) /\ lines \in Seq(Lines)
  BY <1>1, PrintingIsAt
<1>3. listing \in Seq(Lines) /\ \A k \in 1..Len(listing) : listing[k] = lines[k]
  BY <1>1 DEF Printing
<1>4. listing = lines
  BY <1>2, <1>3, SeqEqual
<1> QED
  BY <1>1, <1>4 DEF Printing

\* The code is readable whenever it is read, and what is read is the program.
LEMMA StepCode == MemoryInv /\ LineInv /\ CodeInv /\ [Next]_vars => CodeInv'
<1> SUFFICES ASSUME MemoryInv, LineInv, CodeInv, [Next]_vars PROVE CodeInv'
  OBVIOUS
<1>0. /\ Fits(chunk.code, Bytes) /\ Fits(chunk.values, Values) /\ offset \in Nat
      /\ pc = "generate" => offset = 0 /\ listing = <<>> /\ Writing
      /\ pc = "disassemble" => Disassembling
  BY DEF CodeInv
<1>8. ASSUME Fits(chunk'.code, Bytes), Fits(chunk'.values, Values), offset' \in Nat,
             pc' \notin {"generate", "disassemble", "fini"}
      PROVE  CodeInv'
  BY <1>8 DEF CodeInv, ListingIsTheProgram
<1>1. CASE line_buffer_read
  <2>1. chunk' = chunk /\ offset' = offset /\ pc' \in {"interpret", "read"}
    BY <1>1 DEF line_buffer_read, codegen, listed
  <2> QED BY <1>0, <1>8, <2>1
<1>2. CASE bs_interpret
  <2>1. offset' = 0 /\ listing' = <<>> /\ buffer' = buffer
    BY <1>2 DEF bs_interpret, reading
  <2>2. CASE status' = "BS_Ok"
    <3>1. /\ chunk' = chunk_init(chunk.mem) /\ pc' = "generate"
          /\ todo' = <<Emit(Ast("Program", "", Program(buffer.data)))>>
      BY <1>2, <2>2 DEF bs_interpret
    <3>2. chunk'.code = EmptyVec /\ chunk'.values = EmptyVec
      BY <3>1 DEF chunk_init
    <3>3. Fits(chunk'.code, Bytes) /\ Fits(chunk'.values, Values)
      BY <3>2, EmptyFits
    <3>4. Program(buffer.data) \in Seq(Trees)
      <4>1. buffer.data \in Seq(STRING)
        BY DEF LineInv, BufferOK
      <4> QED BY <4>1, ProgramsAreTrees
    <3>5. Writing'
      BY <2>1, <3>1, <3>2, <3>4, WritingBegins
    <3> QED BY <2>1, <3>1, <3>3, <3>5 DEF CodeInv, ListingIsTheProgram
  <2>3. CASE status' # "BS_Ok"
    <3>1. chunk' = chunk /\ pc' = "answer"
      BY <1>2, <2>3 DEF bs_interpret, codegen
    <3> QED BY <1>0, <1>8, <2>1, <3>1
  <2> QED BY <2>2, <2>3
<1>3. CASE generate_bytecode
  <2>1. /\ pc = "generate" /\ chunk.mem.died = "no" /\ Counted(chunk)
        /\ offset' = offset /\ listing' = listing /\ buffer' = buffer
        /\ offset = 0 /\ listing = <<>> /\ Writing
    BY <1>0, <1>3 DEF generate_bytecode, listed, reading, MemoryInv
  <2>2. CASE emit /\ pc' = IF chunk'.mem.died = "no" THEN pc ELSE "exited"
    <3>1. Writing' /\ Fits(chunk.code, Bytes)' /\ Fits(chunk.values, Values)'
      BY <1>0, <2>1, <2>2, EmitWrites
    <3>2. pc' \notin {"disassemble", "fini"}
      BY <2>1, <2>2
    <3> QED BY <2>1, <3>1, <3>2 DEF CodeInv, ListingIsTheProgram
  <2>3. CASE pc' = "exited" /\ UNCHANGED codegen
    BY <1>0, <1>8, <2>1, <2>3 DEF codegen
  <2>4. CASE todo = <<>> /\ pc' = "disassemble" /\ UNCHANGED codegen
    <3>1. Len(chunk.values.items) \in Nat
      BY <1>0 DEF Fits
    <3>2. PICK lines, at : Readable(chunk, lines, at) /\ Meaning(lines) = Program(buffer.data)
      BY <1>0, <2>1, <2>4, <3>1, WritingEnds
    <3>3. Disassembling
      BY <2>1, <3>2, PrintingBegins
    <3>4. chunk' = chunk /\ offset' = offset /\ listing' = listing /\ buffer' = buffer /\ pc' = "disassemble"
      BY <2>1, <2>4 DEF codegen
    <3>5. Disassembling'
      BY <3>3, <3>4 DEF Disassembling, Printing
    <3> QED BY <1>0, <3>4, <3>5 DEF CodeInv, ListingIsTheProgram
  <2> QED BY <1>3, <2>2, <2>3, <2>4 DEF generate_bytecode
<1>4. CASE chunk_disassemble
  <2>1. pc = "disassemble" /\ chunk' = chunk /\ buffer' = buffer
    BY <1>4 DEF chunk_disassemble, codegen, reading
  <2>2. CASE /\ offset < Len(chunk.code.items)
             /\ listing' = Append(listing, Line(chunk, offset))
             /\ offset' = offset + 1 + OperandSize(chunk, offset) /\ pc' = pc
    <3>1. Disassembling' /\ offset' \in Nat
      BY <1>0, <2>1, <2>2, LinePrinted
    <3> QED BY <1>0, <2>1, <2>2, <3>1 DEF CodeInv, ListingIsTheProgram
  <2>3. CASE offset' = offset /\ pc' = "exited"
    BY <1>0, <1>8, <2>1, <2>3
  <2>4. CASE offset >= Len(chunk.code.items) /\ offset' = offset /\ listing' = listing /\ pc' = "fini"
    <3>1. Meaning(listing) = Program(buffer.data)
      BY <1>0, <2>1, <2>4, PrintingEnds
    <3>2. ListingIsTheProgram'
      BY <2>1, <2>4, <3>1 DEF ListingIsTheProgram
    <3> QED BY <1>0, <2>1, <2>4, <3>2 DEF CodeInv
  <2> QED BY <1>4, <2>2, <2>3, <2>4 DEF chunk_disassemble, listed
<1>5. CASE bs_interpret_end
  <2>1. /\ pc = "fini" /\ chunk' = chunk_fini(chunk) /\ offset' = offset
        /\ pc' \in {"answer", "exited"}
    BY <1>5 DEF bs_interpret_end, listed
  <2>2. Counted(chunk) /\ chunk.mem.died = "no"
    BY <2>1 DEF MemoryInv
  <2>3. chunk'.code = EmptyVec /\ chunk'.values = EmptyVec
    BY <2>1, <2>2, FiniCounts
  <2>4. Fits(chunk'.code, Bytes) /\ Fits(chunk'.values, Values)
    BY <2>3, EmptyFits
  <2> QED BY <1>0, <1>8, <2>1, <2>4
<1>6. CASE repl
  <2>1. chunk' = chunk /\ offset' = offset /\ pc' = "prompt"
    BY <1>6 DEF repl, codegen, listed
  <2> QED BY <1>0, <1>8, <2>1
<1>7. CASE UNCHANGED vars
  <2>1. /\ chunk' = chunk /\ todo' = todo /\ offset' = offset /\ listing' = listing
        /\ buffer' = buffer /\ pc' = pc
    BY <1>7 DEF vars, codegen, listed, reading
  <2>2. Writing => Writing'
    BY <2>1 DEF Writing, Generating
  <2>3. Disassembling => Disassembling'
    BY <2>1 DEF Disassembling, Printing
  <2>4. ListingIsTheProgram'
    BY <2>1 DEF CodeInv, ListingIsTheProgram
  <2> QED BY <1>0, <2>1, <2>2, <2>3, <2>4 DEF CodeInv
<1> QED
  BY <1>1, <1>2, <1>3, <1>4, <1>5, <1>6, <1>7 DEF Next

\* The inductive invariant of the interpreter as a whole.
LEMMA Inductive == Spec => [](MemoryInv /\ LineInv /\ CodeInv)
<1>1. Spec => []MemoryInv
  BY InitMemory, StepMemory, PTL DEF Spec
<1>2. Spec => []LineInv
  BY BufferNeverOverflows
<1>3. Spec => [](MemoryInv /\ LineInv) /\ Init /\ [][Next]_vars
  BY <1>1, <1>2, PTL DEF Spec
<1> QED
  BY <1>3, InitCode, StepCode, PTL

\* The line buffer of bsc.c never overflows, the vectors of the chunk keep
\* within what was allocated for them, and the code consists of bytes.
THEOREM TypeCorrect == Spec => []TypeOK
<1>1. MemoryInv /\ LineInv /\ CodeInv => TypeOK
  <2> SUFFICES ASSUME MemoryInv, LineInv, CodeInv PROVE TypeOK
    OBVIOUS
  <2>1. BufferOK /\ PromptAndStatus
    BY DEF LineInv
  <2>2. /\ ends \in BOOLEAN /\ buffer.capacity \in Nat
        /\ Len(buffer.data) < buffer.capacity \/ buffer.data = <<>>
        /\ buffer.size \in {0, Len(buffer.data)}
    BY <2>1 DEF BufferOK
  <2>3. IsVec(chunk.code) /\ IsVec(chunk.values)
    BY DEF MemoryInv, Counted, IsChunk
  <2>4. Fits(chunk.code, Bytes) /\ Fits(chunk.values, Values) /\ offset \in Nat
    BY DEF CodeInv
  <2>5. VecOK(chunk.code) /\ VecOK(chunk.values)
    BY <2>3, <2>4 DEF VecOK, IsVec, Fits
  <2>6. \A k \in DOMAIN chunk.code.items : chunk.code.items[k] \in DOMAIN OpCodes \cup 0..(Byte - 1)
    BY <2>4 DEF Fits, Bytes
  <2> QED BY <2>1, <2>2, <2>4, <2>5, <2>6 DEF TypeOK, PromptAndStatus
<1> QED
  BY <1>1, Inductive, PTL

\* Whatever program is entered, no assertion of the disassembler in bytecode.c
\* fails, and it never takes the operand of an instruction for an opcode.
THEOREM ChecksAlwaysHold == Spec => []ChecksHold
<1>1. CodeInv => ChecksHold
  <2> SUFFICES ASSUME CodeInv, pc = "disassemble", offset < Len(chunk.code.items)
               PROVE  ChecksPass(chunk, offset)
    BY DEF ChecksHold
  <2>1. Fits(chunk.code, Bytes) /\ Disassembling
    BY DEF CodeInv
  <2>2. PICK lines, at : Printing(lines, at)
    BY <2>1 DEF Disassembling
  <2> QED BY <2>1, <2>2, PrintingIsAt
<1> QED
  BY <1>1, Inductive, PTL

\* Whatever program is entered, what the disassembler prints of it means that
\* program: run on a stack machine, the instructions of code-gen.c leave the
\* values of its statements, with every constant where it belongs.
THEOREM ListingMeansTheProgram == Spec => []ListingIsTheProgram
<1>1. CodeInv => ListingIsTheProgram
  BY DEF CodeInv
<1> QED
  BY <1>1, Inductive, PTL

=============================================================================
