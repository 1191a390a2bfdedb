------------------------- MODULE ParserStackProofs --------------------------
(***************************************************************************)
(* Proofs about the calls that are pending in the parser of Parser.tla: the *)
(* C stack is at every moment a derivation of what is still to be read, and *)
(* each call leaves the parser where its caller expects it.                *)
(***************************************************************************)
EXTENDS ParserProofs, SequenceTheorems

(***************************************************************************)
(* Places.                                                                 *)
(***************************************************************************)

\* A place in a source: the brackets still to be closed, whether that is inside
\* a block, and whether, in a block, a semicolon is in front.
Place == [closers : Seq(TokenType \cup {"unmatched"}), inside : BOOLEAN, semi : BOOLEAN]

\* The same behind some other token.
Calm(x) == [x EXCEPT !.semi = FALSE]

\* Inside one more bracket, that t closes.
Push(x, t) == [closers |-> <<t>> \o x.closers, inside |-> x.inside, semi |-> FALSE]

Brackets == {"RightParen", "RightSqBr", "RightCurBr"}

\* Behind a token t.
Passed(x, t) ==
  [closers |-> IF t \in DOMAIN Closer THEN <<Closer[t]>> \o x.closers
               ELSE IF t \notin Brackets THEN x.closers
               ELSE IF x.closers # << >> /\ Head(x.closers) = t THEN Tail(x.closers)
               ELSE <<"unmatched">> \o x.closers,
   inside  |-> x.inside,
   semi    |-> x.inside /\ t = "SemiColon"]

\* z is behind the t that closes the innermost bracket at x.
Closes(x, z, t) == ~z.semi /\ Calm(x) = Push(z, t)

\* z is behind the statement list that x is in.
ListDone(x, z) ==
  IF x.inside THEN Closes(x, z, "RightCurBr")
              ELSE z = Calm(x)

(***************************************************************************)
(* What each call makes of the place it starts at, if there is no error and *)
(* the source does not end in it.                                          *)
(***************************************************************************)

\* Calls that read something which leaves no bracket open.
Whole ==
  {"expression", "inversion", "unary", "primary", "atom", "if_suffix",
   "assignment_or_expression", "declaration", "let_declaration",
   "struct_declaration", "block_statement", "statement_list"}

\* Rests of calls that have read something and may be over.
Optional ==
  {"postfix", "binary", "assignment", "let_init", "else_part", "return_value"}

Spans(e, x, z) ==
  CASE e[1] = "consume"        -> z = Passed(x, e[2])
    [] e[1] \in Whole          -> z = Calm(x)
    [] e[1] \in Optional       -> ~x.semi /\ z = x
    [] e[1] \in {"expressions", "expressions_loop", "expressions_more"} ->
         Closes(x, z, e[2])
    [] e[1] \in {"dictionary_or_set", "dictionary_first", "dictionary_loop",
                 "set_loop"} -> Closes(x, z, "RightCurBr")
    [] e[1] \in {"parameters", "parameters_self", "parameters_loop",
                 "parameters_more", "parameters_end"} -> Closes(x, z, "RightParen")
    [] e[1] = "function_declaration" -> (e[3] => ~x.inside) /\ z = Calm(x)
    [] e[1] = "struct_parent"  -> ~x.inside /\ z = Calm(x)
    [] e[1] = "struct_body"    -> ~x.inside /\ Closes(x, z, "RightCurBr")
    [] e[1] \in {"statements", "list_end"} ->
         (x.inside => x.semi = e[2]) /\ ListDone(x, z)
    [] e[1] = "statement_end"  -> ~x.semi /\ ListDone(x, z)
    [] e[1] = "leave_block"    -> z = [x EXCEPT !.inside = e[2], !.semi = @ /\ e[2]]
    [] e[1] = "synchronize"    -> FALSE

\* The calls of s, one after the other, lead from x to z.
Leads(s, x, z) ==
  \E path \in Seq(Place) :
    /\ Len(path) = Len(s) + 1 /\ path[1] = x /\ path[Len(path)] = z
    /\ \A k \in 1 .. Len(s) : Spans(s[k], path[k], path[k + 1])

\* The parser is at x.  Where the source has ended only the block counts.
At(p, x) ==
  /\ x.inside = p.inside_block
  /\ ~p.incomplete_input => /\ x.closers = p.nesting
                            /\ x.semi <=> p.inside_block /\ p.previous = "SemiColon"

\* As long as there is no error the pending calls lead from here to a place where
\* no bracket is open.
OnTrack ==
  ~parser.had_error =>
    \E x, z \in Place : At(parser, x) /\ Leads(stack, x, z) /\ z.closers = << >>

-----------------------------------------------------------------------------
(***************************************************************************)
(* Paths.                                                                  *)
(***************************************************************************)

\* No call leads nowhere.
LEMMA LeadsNone == ASSUME NEW x \in Place, NEW z \in Place
                   PROVE  Leads(<< >>, x, z) <=> x = z
<1>1. ASSUME Leads(<< >>, x, z) PROVE x = z
  <2>1. Len(<< >>) = 0
    OBVIOUS
  <2> QED BY <1>1, <2>1 DEF Leads
<1>2. ASSUME x = z PROVE Leads(<< >>, x, z)
  <2> DEFINE path == <<x>>
  <2>1. path \in Seq(Place) /\ Len(path) = 1 /\ path[1] = x
    OBVIOUS
  <2>2. Len(<< >>) = 0
    OBVIOUS
  <2> HIDE DEF path
  <2> QED BY <1>2, <2>1, <2>2 DEF Leads
<1> QED BY <1>1, <1>2

\* The first call ends somewhere, and the others lead on from there.
LEMMA LeadsFirst ==
  ASSUME NEW s \in Seq(Entry), s # << >>, NEW x \in Place, NEW z \in Place, Leads(s, x, z)
  PROVE  \E y \in Place : Spans(Head(s), x, y) /\ Leads(Tail(s), y, z)
<1>1. PICK path \in Seq(Place) :
        /\ Len(path) = Len(s) + 1 /\ path[1] = x /\ path[Len(path)] = z
        /\ \A k \in 1 .. Len(s) : Spans(s[k], path[k], path[k + 1])
  BY DEF Leads
<1>2. Len(s) \in Nat /\ Len(s) >= 1 /\ Head(s) = s[1] /\ Tail(s) \in Seq(Entry)
      /\ Len(Tail(s)) = Len(s) - 1 /\ \A k \in 1 .. Len(s) - 1 : Tail(s)[k] = s[k + 1]
  OBVIOUS
<1>3. /\ Tail(path) \in Seq(Place) /\ Len(Tail(path)) = Len(s)
      /\ \A k \in 1 .. Len(s) : Tail(path)[k] = path[k + 1]
  BY <1>1, <1>2
<1>4. path[2] \in Place /\ Spans(Head(s), x, path[2])
  <2>1. 1 \in 1 .. Len(s) /\ 1 + 1 = 2 /\ Len(path) >= 2
    BY <1>1, <1>2
  <2> QED BY <1>1, <1>2, <2>1
<1>5. \A k \in 1 .. Len(Tail(s)) : Spans(Tail(s)[k], Tail(path)[k], Tail(path)[k + 1])
  BY <1>1, <1>2, <1>3
<1>6. Tail(path)[1] = path[2] /\ Tail(path)[Len(Tail(path))] = z
  BY <1>1, <1>2, <1>3
<1>7. Leads(Tail(s), path[2], z)
  <2> DEFINE rest == Tail(path)
  <2>1. /\ rest \in Seq(Place) /\ Len(rest) = Len(Tail(s)) + 1
        /\ rest[1] = path[2] /\ rest[Len(rest)] = z
    BY <1>2, <1>3, <1>6
  <2>2. \A k \in 1 .. Len(Tail(s)) : Spans(Tail(s)[k], rest[k], rest[k + 1])
    BY <1>5
  <2> HIDE DEF rest
  <2> QED BY <2>1, <2>2, Zenon DEF Leads
<1> QED BY <1>4, <1>7

\* Calls that lead to where others start lead on with them.
LEMMA LeadsOn ==
  ASSUME NEW r \in Seq(Entry), NEW s \in Seq(Entry),
         NEW x \in Place, NEW y \in Place, NEW z \in Place,
         Leads(r, x, y), Leads(s, y, z)
  PROVE  Leads(r \o s, x, z)
<1>1. PICK there \in Seq(Place) :
        /\ Len(there) = Len(r) + 1 /\ there[1] = x /\ there[Len(there)] = y
        /\ \A k \in 1 .. Len(r) : Spans(r[k], there[k], there[k + 1])
  BY DEF Leads
<1>2. PICK on \in Seq(Place) :
        /\ Len(on) = Len(s) + 1 /\ on[1] = y /\ on[Len(on)] = z
        /\ \A k \in 1 .. Len(s) : Spans(s[k], on[k], on[k + 1])
  BY DEF Leads
<1> DEFINE path == there \o Tail(on)
<1>3. /\ Len(r) \in Nat /\ Len(s) \in Nat /\ Len(r \o s) = Len(r) + Len(s)
      /\ \A k \in 1 .. Len(r) + Len(s) : (r \o s)[k] = IF k <= Len(r) THEN r[k] ELSE s[k - Len(r)]
  OBVIOUS
<1>4. /\ Tail(on) \in Seq(Place) /\ Len(Tail(on)) = Len(s)
      /\ \A k \in 1 .. Len(s) : Tail(on)[k] = on[k + 1]
  <2>1. on \in Seq(Place) /\ Len(on) = Len(s) + 1 /\ Len(s) \in Nat
    BY <1>2, <1>3
  <2> QED BY <2>1
<1> DEFINE rest == Tail(on)
<1>5. /\ path \in Seq(Place) /\ Len(path) = Len(r) + 1 + Len(s)
      /\ \A k \in 1 .. Len(r) + 1 : path[k] = there[k]
      /\ \A k \in Len(r) + 2 .. Len(r) + 1 + Len(s) : path[k] = rest[k - (Len(r) + 1)]
  <2>1. there \in Seq(Place) /\ Len(there) = Len(r) + 1 /\ Len(r) \in Nat /\ Len(s) \in Nat
    BY <1>1, <1>3
  <2>2. rest \in Seq(Place) /\ Len(rest) = Len(s)
    BY <1>4
  <2> HIDE DEF rest
  <2>3. /\ there \o rest \in Seq(Place) /\ Len(there \o rest) = Len(there) + Len(rest)
        /\ \A k \in 1 .. Len(there) + Len(rest) :
             (there \o rest)[k] = IF k <= Len(there) THEN there[k] ELSE rest[k - Len(there)]
    <3>1. ASSUME NEW p \in Seq(Place), NEW q \in Seq(Place)
          PROVE  /\ p \o q \in Seq(Place) /\ Len(p \o q) = Len(p) + Len(q)
                 /\ \A k \in 1 .. Len(p) + Len(q) :
                      (p \o q)[k] = IF k <= Len(p) THEN p[k] ELSE q[k - Len(p)]
      OBVIOUS
    <3> QED BY <2>1, <2>2, <3>1, Zenon
  <2>4. path = there \o rest
    BY DEF rest
  <2> HIDE DEF path
  <2> QED BY <2>1, <2>2, <2>3, <2>4
<1> HIDE DEF path
<1>6. \A k \in 1 .. Len(s) + 1 : path[Len(r) + k] = on[k]
  <2> SUFFICES ASSUME NEW k \in 1 .. Len(s) + 1 PROVE path[Len(r) + k] = on[k]
    OBVIOUS
  <2>1. CASE k = 1
    BY <1>1, <1>2, <1>3, <1>5, <2>1
  <2>2. CASE k # 1
    <3>1. /\ Len(r) + k \in Len(r) + 2 .. Len(r) + 1 + Len(s)
          /\ (Len(r) + k) - (Len(r) + 1) = k - 1 /\ k - 1 \in 1 .. Len(s)
      BY <1>3, <2>2
    <3>2. path[Len(r) + k] = Tail(on)[k - 1] /\ Tail(on)[k - 1] = on[(k - 1) + 1]
      BY <1>4, <1>5, <3>1
    <3>3. (k - 1) + 1 = k
      BY <1>3
    <3> QED BY <3>2, <3>3, Zenon
  <2> QED BY <2>1, <2>2
<1>7. ASSUME NEW k \in 1 .. Len(r \o s) PROVE Spans((r \o s)[k], path[k], path[k + 1])
  <2>1. CASE k <= Len(r)
    <3>1. k \in 1 .. Len(r) /\ k \in 1 .. Len(r) + 1 /\ k + 1 \in 1 .. Len(r) + 1
      BY <1>3, <2>1
    <3>2. path[k] = there[k] /\ path[k + 1] = there[k + 1] /\ (r \o s)[k] = r[k]
      BY <1>3, <1>5, <2>1, <3>1
    <3> QED BY <1>1, <3>1, <3>2
  <2>2. CASE k > Len(r)
    <3> DEFINE j == k - Len(r)
    <3>1. j \in 1 .. Len(s) /\ k = Len(r) + j /\ k + 1 = Len(r) + (j + 1) /\ (r \o s)[k] = s[j]
      BY <1>3, <2>2
    <3> HIDE DEF j
    <3>2. path[k] = on[j] /\ path[k + 1] = on[j + 1]
      BY <1>3, <1>6, <3>1
    <3> QED BY <1>2, <3>1, <3>2
  <2> QED BY <1>3, <2>1, <2>2
<1>8. path[1] = x /\ path[Len(path)] = z /\ Len(path) = Len(r \o s) + 1
  <2>1. path[1] = x
    BY <1>1, <1>3, <1>5
  <2>2. Len(path) = Len(r) + (Len(s) + 1) /\ Len(s) + 1 \in 1 .. Len(s) + 1
    BY <1>3, <1>5
  <2> QED BY <1>2, <1>3, <1>6, <2>1, <2>2
<1> QED
  BY <1>5, <1>7, <1>8 DEF Leads

\* One call ends where the next one starts.
LEMMA Leads1 ==
  ASSUME NEW a \in Entry, NEW x \in Place, NEW z \in Place, Spans(a, x, z)
  PROVE  Leads(<<a>>, x, z)
<1> DEFINE s == <<a>>
           path == <<x, z>>
<1>1. path \in Seq(Place) /\ Len(path) = 2 /\ Len(s) = 1 /\ 1 .. 1 = {1}
  OBVIOUS
<1>2. path[1] = x /\ path[2] = z
  OBVIOUS
<1>3. Spans(s[1], path[1], path[1 + 1])
  OBVIOUS
<1> HIDE DEF s, path
<1> QED BY <1>1, <1>2, <1>3 DEF Leads

\* A list of calls, one of them in front of the others.
LEMMA InFront ==
  ASSUME NEW a \in Entry, NEW s \in Seq(Entry), NEW t \in Seq(Entry),
         Len(t) = Len(s) + 1, t[1] = a, \A k \in 1 .. Len(s) : t[k + 1] = s[k]
  PROVE  <<a>> \o s = t
<1> DEFINE one == <<a>>
<1>1. one \in Seq(Entry) /\ Len(one) = 1 /\ one[1] = a /\ Len(s) \in Nat
  OBVIOUS
<1> HIDE DEF one
<1>2. /\ one \o s \in Seq(Entry) /\ Len(one \o s) = Len(s) + 1
      /\ \A k \in 1 .. Len(s) + 1 : (one \o s)[k] = IF k <= 1 THEN one[k] ELSE s[k - 1]
  <2>1. /\ one \o s \in Seq(Entry) /\ Len(one \o s) = Len(one) + Len(s)
        /\ \A k \in 1 .. Len(one) + Len(s) :
             (one \o s)[k] = IF k <= Len(one) THEN one[k] ELSE s[k - Len(one)]
    BY <1>1, ConcatProperties, Zenon
  <2>2. 1 + Len(s) = Len(s) + 1
    BY <1>1
  <2> QED BY <1>1, <2>1, <2>2, Zenon
<1>3. ASSUME NEW k \in 1 .. Len(s) + 1 PROVE (one \o s)[k] = t[k]
  <2>1. CASE k = 1
    BY <1>1, <1>2, <2>1
  <2>2. CASE k # 1
    <3>1. k - 1 \in 1 .. Len(s) /\ (k - 1) + 1 = k /\ ~(k <= 1)
      BY <1>1, <2>2
    <3> QED BY <1>2, <3>1
  <2> QED BY <2>1, <2>2
<1>4. one \o s = t
  <2> DEFINE both == one \o s
  <2>1. both \in Seq(Entry) /\ Len(both) = Len(t) /\ \A k \in 1 .. Len(both) : both[k] = t[k]
    BY <1>2, <1>3
  <2> HIDE DEF both
  <2>2. both = t
    BY <2>1, SeqEqual, Zenon
  <2> QED BY <2>2 DEF both
<1> QED BY <1>4 DEF one

\* The same for two calls.
LEMMA Leads2 ==
  ASSUME NEW a \in Entry, NEW b \in Entry,
         NEW x \in Place, NEW y1 \in Place, NEW z \in Place,
         Spans(a, x, y1), Spans(b, y1, z)
  PROVE  Leads(<<a, b>>, x, z)
<1> DEFINE rest == <<b>>
           all  == <<a, b>>
<1>1. Leads(<<a>>, x, y1) /\ Leads(rest, y1, z)
  BY Leads1, Zenon
<1>2. <<a>> \in Seq(Entry) /\ rest \in Seq(Entry) /\ all \in Seq(Entry)
      /\ Len(rest) = 1 /\ Len(all) = 2 /\ all[1] = a /\ 1 .. 1 = {1}
  OBVIOUS
<1>3. all[2] = rest[1]
  OBVIOUS
<1> HIDE DEF rest, all
<1>4. \A k \in 1 .. Len(rest) : all[k + 1] = rest[k]
  BY <1>2, <1>3
<1>5. <<a>> \o rest = all
  <2>1. Len(all) = Len(rest) + 1
    BY <1>2
  <2> QED BY <1>2, <1>4, <2>1, InFront, Zenon
<1>6. Leads(<<a>> \o rest, x, z)
  BY <1>1, <1>2, LeadsOn, Zenon
<1> QED BY <1>5, <1>6, Zenon DEF all

\* The same for three calls.
LEMMA Leads3 ==
  ASSUME NEW a \in Entry, NEW b \in Entry, NEW c \in Entry,
         NEW x \in Place, NEW y1 \in Place, NEW y2 \in Place, NEW z \in Place,
         Spans(a, x, y1), Spans(b, y1, y2), Spans(c, y2, z)
  PROVE  Leads(<<a, b, c>>, x, z)
<1> DEFINE rest == <<b, c>>
           all  == <<a, b, c>>
<1>1. Leads(<<a>>, x, y1) /\ Leads(rest, y1, z)
  BY Leads1, Leads2, Zenon
<1>2. <<a>> \in Seq(Entry) /\ rest \in Seq(Entry) /\ all \in Seq(Entry)
      /\ Len(rest) = 2 /\ Len(all) = 3 /\ all[1] = a /\ 1 .. 2 = {1, 2}
  OBVIOUS
<1>3. all[2] = rest[1] /\ all[3] = rest[2]
  OBVIOUS
<1> HIDE DEF rest, all
<1>4. \A k \in 1 .. Len(rest) : all[k + 1] = rest[k]
  BY <1>2, <1>3
<1>5. <<a>> \o rest = all
  <2>1. Len(all) = Len(rest) + 1
    BY <1>2
  <2> QED BY <1>2, <1>4, <2>1, InFront, Zenon
<1>6. Leads(<<a>> \o rest, x, z)
  BY <1>1, <1>2, LeadsOn, Zenon
<1> QED BY <1>5, <1>6, Zenon DEF all

\* The same for four calls.
LEMMA Leads4 ==
  ASSUME NEW a \in Entry, NEW b \in Entry, NEW c \in Entry, NEW d \in Entry,
         NEW x \in Place, NEW y1 \in Place, NEW y2 \in Place, NEW y3 \in Place, NEW z \in
         Place,
         Spans(a, x, y1), Spans(b, y1, y2), Spans(c, y2, y3), Spans(d, y3, z)
  PROVE  Leads(<<a, b, c, d>>, x, z)
<1> DEFINE rest == <<b, c, d>>
           all  == <<a, b, c, d>>
<1>1. Leads(<<a>>, x, y1) /\ Leads(rest, y1, z)
  BY Leads1, Leads3, Zenon
<1>2. <<a>> \in Seq(Entry) /\ rest \in Seq(Entry) /\ all \in Seq(Entry)
      /\ Len(rest) = 3 /\ Len(all) = 4 /\ all[1] = a /\ 1 .. 3 = {1, 2, 3}
  OBVIOUS
<1>3. all[2] = rest[1] /\ all[3] = rest[2] /\ all[4] = rest[3]
  OBVIOUS
<1> HIDE DEF rest, all
<1>4. \A k \in 1 .. Len(rest) : all[k + 1] = rest[k]
  BY <1>2, <1>3
<1>5. <<a>> \o rest = all
  <2>1. Len(all) = Len(rest) + 1
    BY <1>2
  <2> QED BY <1>2, <1>4, <2>1, InFront, Zenon
<1>6. Leads(<<a>> \o rest, x, z)
  BY <1>1, <1>2, LeadsOn, Zenon
<1> QED BY <1>5, <1>6, Zenon DEF all

\* The same for five calls.
LEMMA Leads5 ==
  ASSUME NEW a \in Entry, NEW b \in Entry, NEW c \in Entry, NEW d \in Entry, NEW e \in
         Entry,
         NEW x \in Place, NEW y1 \in Place, NEW y2 \in Place, NEW y3 \in Place, NEW y4
         \in Place, NEW z \in Place,
         Spans(a, x, y1), Spans(b, y1, y2), Spans(c, y2, y3), Spans(d, y3, y4), Spans(e,
         y4, z)
  PROVE  Leads(<<a, b, c, d, e>>, x, z)
<1> DEFINE rest == <<b, c, d, e>>
           all  == <<a, b, c, d, e>>
<1>1. Leads(<<a>>, x, y1) /\ Leads(rest, y1, z)
  BY Leads1, Leads4, Zenon
<1>2. <<a>> \in Seq(Entry) /\ rest \in Seq(Entry) /\ all \in Seq(Entry)
      /\ Len(rest) = 4 /\ Len(all) = 5 /\ all[1] = a /\ 1 .. 4 = {1, 2, 3, 4}
  OBVIOUS
<1>3. all[2] = rest[1] /\ all[3] = rest[2] /\ all[4] = rest[3] /\ all[5] = rest[4]
  OBVIOUS
<1> HIDE DEF rest, all
<1>4. \A k \in 1 .. Len(rest) : all[k + 1] = rest[k]
  BY <1>2, <1>3
<1>5. <<a>> \o rest = all
  <2>1. Len(all) = Len(rest) + 1
    BY <1>2
  <2> QED BY <1>2, <1>4, <2>1, InFront, Zenon
<1>6. Leads(<<a>> \o rest, x, z)
  BY <1>1, <1>2, LeadsOn, Zenon
<1> QED BY <1>5, <1>6, Zenon DEF all

\* The same for six calls.
LEMMA Leads6 ==
  ASSUME NEW a \in Entry, NEW b \in Entry, NEW c \in Entry, NEW d \in Entry, NEW e \in
         Entry, NEW f \in Entry,
         NEW x \in Place, NEW y1 \in Place, NEW y2 \in Place, NEW y3 \in Place, NEW y4
         \in Place, NEW y5 \in Place, NEW z \in Place,
         Spans(a, x, y1), Spans(b, y1, y2), Spans(c, y2, y3), Spans(d, y3, y4), Spans(e,
         y4, y5), Spans(f, y5, z)
  PROVE  Leads(<<a, b, c, d, e, f>>, x, z)
<1> DEFINE rest == <<b, c, d, e, f>>
           all  == <<a, b, c, d, e, f>>
<1>1. Leads(<<a>>, x, y1) /\ Leads(rest, y1, z)
  BY Leads1, Leads5, Zenon
<1>2. <<a>> \in Seq(Entry) /\ rest \in Seq(Entry) /\ all \in Seq(Entry)
      /\ Len(rest) = 5 /\ Len(all) = 6 /\ all[1] = a /\ 1 .. 5 = {1, 2, 3, 4, 5}
  OBVIOUS
<1>3. all[2] = rest[1] /\ all[3] = rest[2] /\ all[4] = rest[3] /\ all[5] = rest[4] /\ all[6] = rest[5]
  OBVIOUS
<1> HIDE DEF rest, all
<1>4. \A k \in 1 .. Len(rest) : all[k + 1] = rest[k]
  BY <1>2, <1>3
<1>5. <<a>> \o rest = all
  <2>1. Len(all) = Len(rest) + 1
    BY <1>2
  <2> QED BY <1>2, <1>4, <2>1, InFront, Zenon
<1>6. Leads(<<a>> \o rest, x, z)
  BY <1>1, <1>2, LeadsOn, Zenon
<1> QED BY <1>5, <1>6, Zenon DEF all

-----------------------------------------------------------------------------
(***************************************************************************)
(* Places.                                                                 *)
(***************************************************************************)

\* A place is known by its three parts.
LEMMA SamePlace ==
  ASSUME NEW x \in Place, NEW y \in Place,
         x.closers = y.closers, x.inside = y.inside, x.semi = y.semi
  PROVE  x = y
BY DEF Place

\* One more bracket, and that bracket closed.
LEMMA OneBracket ==
  ASSUME NEW t \in TokenType \cup {"unmatched"}, NEW s \in Seq(TokenType \cup {"unmatched"})
  PROVE  /\ <<t>> \o s \in Seq(TokenType \cup {"unmatched"}) /\ <<t>> \o s # << >>
         /\ Head(<<t>> \o s) = t /\ Tail(<<t>> \o s) = s
OBVIOUS

\* The places the operators make.
LEMMA CalmPlace ==
  ASSUME NEW x \in Place
  PROVE  /\ Calm(x) \in Place /\ Calm(x).closers = x.closers /\ Calm(x).inside = x.inside
         /\ Calm(x).semi = FALSE /\ Calm(Calm(x)) = Calm(x)
         /\ ~x.semi => Calm(x) = x
BY DEF Calm, Place

\* A place inside one more bracket.
LEMMA PushPlace ==
  ASSUME NEW x \in Place, NEW t \in TokenType
  PROVE  /\ Push(x, t) \in Place /\ Push(x, t).closers = <<t>> \o x.closers
         /\ Push(x, t).inside = x.inside /\ Push(x, t).semi = FALSE
         /\ Calm(Push(x, t)) = Push(x, t)
<1>1. <<t>> \o x.closers \in Seq(TokenType \cup {"unmatched"})
  BY OneBracket DEF Place
<1>2. Push(x, t) \in Place
  BY <1>1 DEF Push, Place
<1> QED BY <1>2, CalmPlace DEF Push

\* Behind a token there is a place again.
LEMMA PassedPlace ==
  ASSUME NEW x \in Place, NEW t
  PROVE  Passed(x, t) \in Place
<1> DEFINE S == Seq(TokenType \cup {"unmatched"})
<1>1. x.closers \in S /\ x.inside \in BOOLEAN
  BY DEF Place
<1>2. \A u \in DOMAIN Closer : Closer[u] \in TokenType \cup {"unmatched"}
  BY TokenNames DEF Closer
<1>3. CASE t \in DOMAIN Closer
  <2>1. <<Closer[t]>> \o x.closers \in S
    BY <1>1, <1>2, <1>3, OneBracket
  <2> QED BY <1>1, <1>3, <2>1 DEF Passed, Place
<1>4. CASE t \notin DOMAIN Closer
  <2>1. <<"unmatched">> \o x.closers \in S
    BY <1>1, OneBracket
  <2>2. x.closers # << >> => Tail(x.closers) \in S
    BY <1>1
  <2> HIDE DEF S
  <2> DEFINE c == Passed(x, t).closers
  <2>3. c \in S
    BY <1>1, <1>4, <2>1, <2>2 DEF Passed
  <2>4. Passed(x, t) = [closers |-> c, inside |-> x.inside, semi |-> x.inside /\ t = "SemiColon"]
    BY DEF Passed
  <2> HIDE DEF c
  <2> QED BY <1>1, <2>3, <2>4 DEF Place, S
<1> QED BY <1>3, <1>4

\* Tokens that open and close nothing.
LEMMA PassedPlain ==
  ASSUME NEW x \in Place, NEW t, t \notin DOMAIN Closer, t \notin Brackets, t # "SemiColon"
  PROVE  Passed(x, t) = Calm(x)
<1>1. Passed(x, t).closers = x.closers /\ Passed(x, t).inside = x.inside
      /\ Passed(x, t).semi = FALSE
  BY DEF Passed, Place
<1>2. /\ Passed(x, t) \in Place /\ Calm(x) \in Place
      /\ Calm(x).closers = x.closers /\ Calm(x).inside = x.inside /\ Calm(x).semi = FALSE
  BY PassedPlace, CalmPlace, Zenon
<1>3. /\ Passed(x, t).closers = Calm(x).closers /\ Passed(x, t).inside = Calm(x).inside
      /\ Passed(x, t).semi = Calm(x).semi
  BY <1>1, <1>2, Zenon
<1> QED BY <1>2, <1>3, SamePlace, Zenon

\* Tokens that open.
LEMMA PassedOpener ==
  ASSUME NEW x \in Place
  PROVE  /\ Passed(x, "LeftParen") = Push(x, "RightParen")
         /\ Passed(x, "LeftSqBr") = Push(x, "RightSqBr")
         /\ Passed(x, "LeftCurBr") = Push(x, "RightCurBr")
BY DEF Passed, Push, Closer, Place

\* Tokens that close.
LEMMA PassedCloser ==
  ASSUME NEW x \in Place, NEW t \in Brackets
  PROVE  Passed(Push(x, t), t) = Calm(x)
<1>1. t \in TokenType /\ t \notin DOMAIN Closer /\ t # "SemiColon"
  BY TokenNames DEF Brackets, Closer
<1>2. /\ Push(x, t).closers # << >> /\ Head(Push(x, t).closers) = t
      /\ Tail(Push(x, t).closers) = x.closers
  <2>1. x.closers \in Seq(TokenType \cup {"unmatched"})
    BY DEF Place
  <2>2. /\ <<t>> \o x.closers # << >> /\ Head(<<t>> \o x.closers) = t
        /\ Tail(<<t>> \o x.closers) = x.closers
    BY <1>1, <2>1, OneBracket
  <2> QED BY <2>2 DEF Push
<1>3. Passed(Push(x, t), t).closers = x.closers
  BY <1>1, <1>2 DEF Passed
<1>4. Passed(Push(x, t), t).inside = x.inside /\ Passed(Push(x, t), t).semi = FALSE
  BY <1>1 DEF Passed, Push
<1>5. Passed(Push(x, t), t) \in Place
  BY <1>1, PushPlace, PassedPlace
<1>6. /\ Calm(x) \in Place /\ Calm(x).closers = x.closers /\ Calm(x).inside = x.inside
      /\ Calm(x).semi = FALSE
  BY CalmPlace, Zenon
<1>7. /\ Passed(Push(x, t), t).closers = Calm(x).closers
      /\ Passed(Push(x, t), t).inside = Calm(x).inside
      /\ Passed(Push(x, t), t).semi = Calm(x).semi
  BY <1>3, <1>4, <1>6, Zenon
<1> QED BY <1>5, <1>6, <1>7, SamePlace, Zenon

\* Behind the bracket that closes what is open, and inside that bracket.
LEMMA ClosesPlace ==
  ASSUME NEW x \in Place, NEW z \in Place, NEW t \in Brackets
  PROVE  /\ Closes(x, z, t) => /\ Passed(x, t) = z /\ Closes(Calm(x), z, t)
                               /\ z.inside = x.inside /\ ~z.semi
         /\ Closes(Push(x, t), Calm(x), t)
<1>1. t \in TokenType
  BY TokenNames DEF Brackets
<1>2. ASSUME Closes(x, z, t)
      PROVE  Passed(x, t) = z /\ Closes(Calm(x), z, t) /\ z.inside = x.inside /\ ~z.semi
  <2>1. ~z.semi /\ Calm(x) = Push(z, t)
    BY <1>2 DEF Closes
  <2>2. x.closers = Push(z, t).closers /\ x.inside = z.inside
    <3>1. Calm(x).closers = x.closers /\ Calm(x).inside = x.inside
      BY CalmPlace, Zenon
    <3>2. Push(z, t).inside = z.inside
      BY <1>1, PushPlace, Zenon
    <3> QED BY <2>1, <3>1, <3>2, Zenon
  <2>3. Passed(x, t) = Passed(Push(z, t), t)
    <3>1. x.closers = Push(z, t).closers /\ x.inside = Push(z, t).inside
      BY <1>1, <2>2, PushPlace, Zenon
    <3> QED BY <3>1, Zenon DEF Passed
  <2>4. Calm(z) = z
    BY <2>1, CalmPlace
  <2> QED BY <2>1, <2>2, <2>3, <2>4, PassedCloser, CalmPlace DEF Closes
<1>3. Closes(Push(x, t), Calm(x), t)
  <2>1. Push(Calm(x), t) = Push(x, t)
    BY CalmPlace DEF Push
  <2> QED BY <1>1, <2>1, CalmPlace, PushPlace DEF Closes
<1> QED BY <1>2, <1>3

\* What each kind of call makes of a place.
LEMMA SpansTable ==
  ASSUME NEW e, NEW x, NEW z
  PROVE  /\ e[1] = "consume" => (Spans(e, x, z) <=> z = Passed(x, e[2]))
         /\ e[1] \in Whole => (Spans(e, x, z) <=> z = Calm(x))
         /\ e[1] \in Optional => (Spans(e, x, z) <=> ~x.semi /\ z = x)
         /\ e[1] \in {"expressions", "expressions_loop", "expressions_more"}
              => (Spans(e, x, z) <=> Closes(x, z, e[2]))
         /\ e[1] \in {"dictionary_or_set", "dictionary_first", "dictionary_loop", "set_loop"}
              => (Spans(e, x, z) <=> Closes(x, z, "RightCurBr"))
         /\ e[1] \in {"parameters", "parameters_self", "parameters_loop",
                      "parameters_more", "parameters_end"}
              => (Spans(e, x, z) <=> Closes(x, z, "RightParen"))
         /\ e[1] = "function_declaration"
              => (Spans(e, x, z) <=> (e[3] => ~x.inside) /\ z = Calm(x))
         /\ e[1] = "struct_parent" => (Spans(e, x, z) <=> ~x.inside /\ z = Calm(x))
         /\ e[1] = "struct_body"
              => (Spans(e, x, z) <=> ~x.inside /\ Closes(x, z, "RightCurBr"))
         /\ e[1] \in {"statements", "list_end"}
              => (Spans(e, x, z) <=> (x.inside => x.semi = e[2]) /\ ListDone(x, z))
         /\ e[1] = "statement_end" => (Spans(e, x, z) <=> ~x.semi /\ ListDone(x, z))
         /\ e[1] = "leave_block"
              => (Spans(e, x, z) <=> z = [x EXCEPT !.inside = e[2], !.semi = @ /\ e[2]])
         /\ e[1] = "synchronize" => ~Spans(e, x, z)
<1> DEFINE f == e[1]
<1>1. f \in Whole => (Spans(e, x, z) <=> z = Calm(x))
  BY DEF Spans, Whole, Optional
<1>2. f \in Optional => (Spans(e, x, z) <=> ~x.semi /\ z = x)
  BY DEF Spans, Whole, Optional
<1>3. f = "consume" => (Spans(e, x, z) <=> z = Passed(x, e[2]))
  BY DEF Spans, Whole, Optional
<1>4. f \in {"expressions", "expressions_loop", "expressions_more"}
        => (Spans(e, x, z) <=> Closes(x, z, e[2]))
  BY DEF Spans, Whole, Optional
<1>5. f \in {"dictionary_or_set", "dictionary_first", "dictionary_loop", "set_loop"}
        => (Spans(e, x, z) <=> Closes(x, z, "RightCurBr"))
  BY DEF Spans, Whole, Optional
<1>6. f \in {"parameters", "parameters_self", "parameters_loop",
             "parameters_more", "parameters_end"}
        => (Spans(e, x, z) <=> Closes(x, z, "RightParen"))
  BY DEF Spans, Whole, Optional
<1>7. f = "function_declaration"
        => (Spans(e, x, z) <=> (e[3] => ~x.inside) /\ z = Calm(x))
  BY DEF Spans, Whole, Optional
<1>8. f = "struct_parent" => (Spans(e, x, z) <=> ~x.inside /\ z = Calm(x))
  BY DEF Spans, Whole, Optional
<1>9. f = "struct_body" => (Spans(e, x, z) <=> ~x.inside /\ Closes(x, z, "RightCurBr"))
  BY DEF Spans, Whole, Optional
<1>10. f \in {"statements", "list_end"}
         => (Spans(e, x, z) <=> (x.inside => x.semi = e[2]) /\ ListDone(x, z))
  BY DEF Spans, Whole, Optional
<1>11. f = "statement_end" => (Spans(e, x, z) <=> ~x.semi /\ ListDone(x, z))
  BY DEF Spans, Whole, Optional
<1>12. f = "leave_block"
         => (Spans(e, x, z) <=> z = [x EXCEPT !.inside = e[2], !.semi = @ /\ e[2]])
  BY DEF Spans, Whole, Optional
<1>13. f = "synchronize" => ~Spans(e, x, z)
  BY DEF Spans, Whole, Optional
<1> QED
  BY <1>1, <1>2, <1>3, <1>4, <1>5, <1>6, <1>7, <1>8, <1>9, <1>10, <1>11, <1>12, <1>13

\* The same for the calls as they are written in the actions.
LEMMA SpansCalls ==
  ASSUME NEW x, NEW z
  PROVE  /\ \A t : Spans(Consume(t), x, z) <=> z = Passed(x, t)
         /\ \A f \in Whole : Spans(Call(f), x, z) <=> z = Calm(x)
         /\ \A b : /\ Spans(LetDeclaration(b), x, z) <=> z = Calm(x)
                   /\ Spans(Declaration(b), x, z) <=> z = Calm(x)
         /\ \A f \in Optional : Spans(Call(f), x, z) <=> ~x.semi /\ z = x
         /\ \A k : Spans(Binary(k), x, z) <=> ~x.semi /\ z = x
         /\ \A t : /\ Spans(Expressions(t), x, z) <=> Closes(x, z, t)
                   /\ Spans(ExpressionsLoop(t), x, z) <=> Closes(x, z, t)
                   /\ Spans(ExpressionsMore(t), x, z) <=> Closes(x, z, t)
         /\ \A f \in {"dictionary_or_set", "dictionary_first", "dictionary_loop", "set_loop"} :
              Spans(Call(f), x, z) <=> Closes(x, z, "RightCurBr")
         /\ \A f \in {"parameters_self", "parameters_loop", "parameters_more",
                      "parameters_end"} :
              Spans(Call(f), x, z) <=> Closes(x, z, "RightParen")
         /\ \A b : Spans(Parameters(b), x, z) <=> Closes(x, z, "RightParen")
         /\ \A b, c : Spans(FunctionDeclaration(b, c), x, z)
                        <=> (c => ~x.inside) /\ z = Calm(x)
         /\ Spans(Call("struct_parent"), x, z) <=> ~x.inside /\ z = Calm(x)
         /\ Spans(Call("struct_body"), x, z) <=> ~x.inside /\ Closes(x, z, "RightCurBr")
         /\ \A b : /\ Spans(Statements(b), x, z)
                        <=> (x.inside => x.semi = b) /\ ListDone(x, z)
                   /\ Spans(ListEnd(b), x, z)
                        <=> (x.inside => x.semi = b) /\ ListDone(x, z)
                   /\ Spans(StatementEnd(b), x, z) <=> ~x.semi /\ ListDone(x, z)
                   /\ Spans(LeaveBlock(b), x, z)
                        <=> z = [x EXCEPT !.inside = b, !.semi = @ /\ b]
<1>1. \A t : Spans(Consume(t), x, z) <=> z = Passed(x, t)
  BY SpansTable DEF Consume
<1>2. \A f \in Whole : Spans(Call(f), x, z) <=> z = Calm(x)
  BY SpansTable DEF Call
<1>3. \A b : /\ Spans(LetDeclaration(b), x, z) <=> z = Calm(x)
             /\ Spans(Declaration(b), x, z) <=> z = Calm(x)
  BY SpansTable DEF LetDeclaration, Declaration, Whole
<1>4. \A f \in Optional : Spans(Call(f), x, z) <=> ~x.semi /\ z = x
  BY SpansTable DEF Call
<1>5. \A k : Spans(Binary(k), x, z) <=> ~x.semi /\ z = x
  BY SpansTable DEF Binary, Optional
<1>6. \A t : /\ Spans(Expressions(t), x, z) <=> Closes(x, z, t)
             /\ Spans(ExpressionsLoop(t), x, z) <=> Closes(x, z, t)
             /\ Spans(ExpressionsMore(t), x, z) <=> Closes(x, z, t)
  <2>1. ASSUME NEW t PROVE Spans(Expressions(t), x, z) <=> Closes(x, z, t)
    <3> DEFINE e == Expressions(t)
    <3>1. e[1] = "expressions" /\ e[2] = t
      BY DEF Expressions
    <3> HIDE DEF e
    <3>2. Spans(e, x, z) <=> Closes(x, z, e[2])
      BY <3>1, SpansTable
    <3> QED BY <3>1, <3>2, Zenon DEF e
  <2>2. ASSUME NEW t PROVE Spans(ExpressionsLoop(t), x, z) <=> Closes(x, z, t)
    <3> DEFINE e == ExpressionsLoop(t)
    <3>1. e[1] = "expressions_loop" /\ e[2] = t
      BY DEF ExpressionsLoop
    <3> HIDE DEF e
    <3>2. Spans(e, x, z) <=> Closes(x, z, e[2])
      BY <3>1, SpansTable
    <3> QED BY <3>1, <3>2, Zenon DEF e
  <2>3. ASSUME NEW t PROVE Spans(ExpressionsMore(t), x, z) <=> Closes(x, z, t)
    <3> DEFINE e == ExpressionsMore(t)
    <3>1. e[1] = "expressions_more" /\ e[2] = t
      BY DEF ExpressionsMore
    <3> HIDE DEF e
    <3>2. Spans(e, x, z) <=> Closes(x, z, e[2])
      BY <3>1, SpansTable
    <3> QED BY <3>1, <3>2, Zenon DEF e
  <2> QED BY <2>1, <2>2, <2>3, Zenon
<1>7. \A f \in {"dictionary_or_set", "dictionary_first", "dictionary_loop", "set_loop"} :
        Spans(Call(f), x, z) <=> Closes(x, z, "RightCurBr")
  BY SpansTable DEF Call
<1>8. \A f \in {"parameters_self", "parameters_loop", "parameters_more", "parameters_end"} :
        Spans(Call(f), x, z) <=> Closes(x, z, "RightParen")
  BY SpansTable DEF Call
<1>9. \A b : Spans(Parameters(b), x, z) <=> Closes(x, z, "RightParen")
  BY SpansTable DEF Parameters
<1>10. \A b, c : Spans(FunctionDeclaration(b, c), x, z) <=> (c => ~x.inside) /\ z = Calm(x)
  BY SpansTable DEF FunctionDeclaration
<1>11. /\ Spans(Call("struct_parent"), x, z) <=> ~x.inside /\ z = Calm(x)
       /\ Spans(Call("struct_body"), x, z) <=> ~x.inside /\ Closes(x, z, "RightCurBr")
  BY SpansTable DEF Call
<1>12. \A b : /\ Spans(Statements(b), x, z)
                  <=> (x.inside => x.semi = b) /\ ListDone(x, z)
              /\ Spans(ListEnd(b), x, z)
                  <=> (x.inside => x.semi = b) /\ ListDone(x, z)
  <2>1. ASSUME NEW b PROVE Spans(Statements(b), x, z) <=> (x.inside => x.semi = b) /\ ListDone(x, z)
    <3> DEFINE e == Statements(b)
    <3>1. e[1] = "statements" /\ e[2] = b
      BY DEF Statements
    <3> HIDE DEF e
    <3>2. Spans(e, x, z) <=> (x.inside => x.semi = e[2]) /\ ListDone(x, z)
      BY <3>1, SpansTable
    <3> QED BY <3>1, <3>2, Zenon DEF e
  <2>2. ASSUME NEW b PROVE Spans(ListEnd(b), x, z) <=> (x.inside => x.semi = b) /\ ListDone(x, z)
    <3> DEFINE e == ListEnd(b)
    <3>1. e[1] = "list_end" /\ e[2] = b
      BY DEF ListEnd
    <3> HIDE DEF e
    <3>2. Spans(e, x, z) <=> (x.inside => x.semi = e[2]) /\ ListDone(x, z)
      BY <3>1, SpansTable
    <3> QED BY <3>1, <3>2, Zenon DEF e
  <2> QED BY <2>1, <2>2, Zenon
<1>13. \A b : /\ Spans(StatementEnd(b), x, z) <=> ~x.semi /\ ListDone(x, z)
              /\ Spans(LeaveBlock(b), x, z)
                   <=> z = [x EXCEPT !.inside = b, !.semi = @ /\ b]
  <2>1. ASSUME NEW b PROVE Spans(StatementEnd(b), x, z) <=> ~x.semi /\ ListDone(x, z)
    <3> DEFINE e == StatementEnd(b)
    <3>1. e[1] = "statement_end" /\ e[2] = b
      BY DEF StatementEnd
    <3> HIDE DEF e
    <3>2. Spans(e, x, z) <=> ~x.semi /\ ListDone(x, z)
      BY <3>1, SpansTable
    <3> QED BY <3>1, <3>2, Zenon DEF e
  <2>2. \A b : Spans(LeaveBlock(b), x, z)
                 <=> z = [x EXCEPT !.inside = b, !.semi = @ /\ b]
    <3> SUFFICES ASSUME NEW b
                 PROVE  Spans(LeaveBlock(b), x, z)
                          <=> z = [x EXCEPT !.inside = b, !.semi = @ /\ b]
      OBVIOUS
    <3> DEFINE e == LeaveBlock(b)
    <3>1. e[1] = "leave_block" /\ e[2] = b
      BY DEF LeaveBlock
    <3> HIDE DEF e
    <3>2. Spans(e, x, z) <=> z = [x EXCEPT !.inside = e[2], !.semi = @ /\ e[2]]
      BY <3>1, SpansTable
    <3> QED BY <3>1, <3>2, Zenon DEF e
  <2> QED BY <2>1, <2>2, Zenon
<1> QED
  BY <1>1, <1>2, <1>3, <1>4, <1>5, <1>6, <1>7, <1>8, <1>9, <1>10, <1>11, <1>12, <1>13, Zenon

\* Tokens that open and close nothing and that some function asks for.
Words ==
  {"Identifier", "Comma", "Colon", "String", "Fn", "Let", "Struct", "If", "While",
   "For", "In"}

\* Words open and close nothing.
LEMMA WordsPass == \A t \in Words : t \notin DOMAIN Closer /\ t \notin Brackets /\ t # "SemiColon"
BY DEF Words, Closer, Brackets

\* From any place a word, or anything whole, leads to the same place with no
\* semicolon in front.
LEMMA Quiet ==
  ASSUME NEW x \in Place
  PROVE  /\ \A t \in Words : Spans(Consume(t), x, Calm(x))
         /\ \A f \in Whole : Spans(Call(f), x, Calm(x))
         /\ \A b : Spans(LetDeclaration(b), x, Calm(x)) /\ Spans(Declaration(b), x, Calm(x))
         /\ \A t \in Words : Spans(Consume(t), Calm(x), Calm(x))
         /\ \A f \in Whole : Spans(Call(f), Calm(x), Calm(x))
         /\ \A b : /\ Spans(LetDeclaration(b), Calm(x), Calm(x))
                   /\ Spans(Declaration(b), Calm(x), Calm(x))
         /\ \A f \in Optional : Spans(Call(f), Calm(x), Calm(x))
         /\ \A k : Spans(Binary(k), Calm(x), Calm(x))
<1>1. /\ Calm(x) \in Place /\ Calm(Calm(x)) = Calm(x) /\ Calm(x).semi = FALSE
  BY CalmPlace, Zenon
<1>2. \A t \in Words : Passed(x, t) = Calm(x) /\ Passed(Calm(x), t) = Calm(x)
  BY <1>1, WordsPass, PassedPlain, Zenon
<1>3. \A t \in Words : Spans(Consume(t), x, Calm(x)) /\ Spans(Consume(t), Calm(x), Calm(x))
  BY <1>2, SpansCalls, Zenon
<1>4. /\ \A f \in Whole : Spans(Call(f), x, Calm(x)) /\ Spans(Call(f), Calm(x), Calm(x))
      /\ \A b : Spans(LetDeclaration(b), x, Calm(x)) /\ Spans(Declaration(b), x, Calm(x))
      /\ \A b : /\ Spans(LetDeclaration(b), Calm(x), Calm(x))
                /\ Spans(Declaration(b), Calm(x), Calm(x))
  BY <1>1, SpansCalls, Zenon
<1>5. ~Calm(x).semi
  BY <1>1
<1>6. /\ \A f \in Optional : Spans(Call(f), Calm(x), Calm(x))
      /\ \A k : Spans(Binary(k), Calm(x), Calm(x))
  BY <1>5, SpansCalls, Zenon
<1> QED BY <1>3, <1>4, <1>6, Zenon

\* A bracket leads inside, and its partner out again.
LEMMA Bracketed ==
  ASSUME NEW x \in Place
  PROVE  /\ Spans(Consume("LeftParen"), x, Push(x, "RightParen"))
         /\ Spans(Consume("LeftSqBr"), x, Push(x, "RightSqBr"))
         /\ Spans(Consume("LeftCurBr"), x, Push(x, "RightCurBr"))
         /\ \A t \in Brackets : /\ Push(x, t) \in Place /\ Calm(Push(x, t)) = Push(x, t)
                                /\ Push(x, t).inside = x.inside
                                /\ Push(Calm(x), t) = Push(x, t)
                                /\ Spans(Consume(t), Push(x, t), Calm(x))
                                /\ Closes(Push(x, t), Calm(x), t)
<1>1. ASSUME NEW t \in Brackets
      PROVE  /\ Push(x, t) \in Place /\ Calm(Push(x, t)) = Push(x, t)
             /\ Push(x, t).inside = x.inside
             /\ Spans(Consume(t), Push(x, t), Calm(x))
             /\ Closes(Push(x, t), Calm(x), t)
  <2>1. t \in TokenType
    BY TokenNames DEF Brackets
  <2>2. /\ Push(x, t) \in Place /\ Calm(Push(x, t)) = Push(x, t)
        /\ Push(x, t).inside = x.inside
    BY <2>1, PushPlace, Zenon
  <2>3. Spans(Consume(t), Push(x, t), Calm(x))
    BY PassedCloser, SpansCalls, Zenon
  <2> QED BY <2>2, <2>3, CalmPlace, ClosesPlace, Zenon
<1>2. \A t : Push(Calm(x), t) = Push(x, t)
  BY CalmPlace DEF Push
<1>3. /\ Spans(Consume("LeftParen"), x, Push(x, "RightParen"))
      /\ Spans(Consume("LeftSqBr"), x, Push(x, "RightSqBr"))
      /\ Spans(Consume("LeftCurBr"), x, Push(x, "RightCurBr"))
  BY PassedOpener, SpansCalls, Zenon
<1> QED BY <1>1, <1>2, <1>3, Zenon

-----------------------------------------------------------------------------
(***************************************************************************)
(* Steps.                                                                  *)
(***************************************************************************)

\* Reading a token leads from any place to the one behind it, unless the lexer
\* reports an error.
LEMMA AdvancesAt ==
  ASSUME NEW p \in ParserState, Sound(p), NEW q \in Advances(p)
  PROVE  /\ q.inside_block = p.inside_block /\ q.previous = p.current
         /\ ~q.had_error => /\ ~p.had_error
                            /\ \A x \in Place : At(p, x) => At(q, Passed(x, p.current))
<1> DEFINE moved == [p EXCEPT !.previous = p.current, !.nesting = Nesting(p)]
<1>1. /\ moved.inside_block = p.inside_block /\ moved.had_error = p.had_error
      /\ moved.incomplete_input = p.incomplete_input
      /\ moved.previous = p.current /\ moved.nesting = Nesting(p)
      /\ moved.panic_mode = p.panic_mode
  BY DEF ParserState
<1>2. moved \in Unread
  BY NestingType, ParserStateUnread DEF ParserState, Unread
<1> HIDE DEF moved
<1>3. /\ ErrorAt(moved).inside_block = p.inside_block
      /\ ErrorAt(moved).previous = p.current /\ ErrorAt(moved).had_error /\ ErrorAt(moved) \in Unread
  BY <1>1, <1>2 DEF ErrorAt, Sound, Unread
<1>4. ASSUME NEW r \in Unread, q \in NextToken(r)
      PROVE  /\ q.inside_block = r.inside_block /\ q.had_error = r.had_error
             /\ q.incomplete_input = r.incomplete_input
             /\ q.previous = r.previous /\ q.nesting = r.nesting
  BY <1>4 DEF NextToken, Unread
<1>5. q \in NextToken(moved) \/ q \in NextToken(ErrorAt(moved))
  BY DEF Advances, moved
<1>6. CASE q \in NextToken(ErrorAt(moved))
  BY <1>3, <1>4, <1>6
<1>7. CASE q \in NextToken(moved)
  <2>1. /\ q.inside_block = p.inside_block /\ q.had_error = p.had_error
        /\ q.incomplete_input = p.incomplete_input
        /\ q.previous = p.current /\ q.nesting = Nesting(p)
    BY <1>1, <1>2, <1>4, <1>7
  <2>2. ASSUME ~p.had_error, NEW x \in Place, At(p, x)
        PROVE  At(q, Passed(x, p.current))
    <3>1. Passed(x, p.current).inside = x.inside
          /\ Passed(x, p.current).semi = (x.inside /\ p.current = "SemiColon")
      BY DEF Passed
    <3>2. x.inside = p.inside_block
      BY <2>2 DEF At
    <3>3. ~p.incomplete_input => Passed(x, p.current).closers = Nesting(p)
      BY <2>2 DEF At, Passed, Nesting, Brackets
    <3> QED BY <2>1, <3>1, <3>2, <3>3 DEF At
  <2> QED BY <2>1, <2>2
<1> QED BY <1>5, <1>6, <1>7

\* The calls that are made at (or behind) a token of their own only, and the others.
Prepared ==
  {"let_declaration", "function_declaration", "struct_declaration", "parameters_end"}
Usual == {e \in Entry : e[1] \notin Prepared \cup {"leave_block"}}

\* The calls as they are written in the actions, but for those that are prepared.
LEMMA UsualEntries ==
  /\ Usual \subseteq Entry
  /\ Seq(Usual) \subseteq Seq(Entry)
  /\ \A f \in Plain \ {"struct_declaration", "parameters_end"} : Call(f) \in Usual
  /\ \A t \in TokenType : Consume(t) \in Usual
  /\ \A t \in {"RightParen", "RightSqBr"} :
       /\ Expressions(t) \in Usual
       /\ ExpressionsLoop(t) \in Usual
       /\ ExpressionsMore(t) \in Usual
  /\ \A k \in 1 .. 10 : Binary(k) \in Usual
  /\ \A b \in BOOLEAN :
       /\ Parameters(b) \in Usual
       /\ Declaration(b) \in Usual
       /\ Statements(b) \in Usual
       /\ StatementEnd(b) \in Usual
       /\ ListEnd(b) \in Usual
<1>1. Usual \subseteq Entry
  BY DEF Usual
<1>2. \A f \in Plain \ {"struct_declaration", "parameters_end"} : Call(f) \in Usual
  BY Entries DEF Usual, Prepared, Plain, Call
<1>3. \A t \in TokenType : Consume(t) \in Usual
  BY Entries DEF Usual, Prepared, Consume
<1>4. \A t \in {"RightParen", "RightSqBr"} :
        Expressions(t) \in Usual /\ ExpressionsLoop(t) \in Usual /\ ExpressionsMore(t) \in Usual
  BY Entries DEF Usual, Prepared, Expressions, ExpressionsLoop, ExpressionsMore
<1>5. \A k \in 1 .. 10 : Binary(k) \in Usual
  BY Entries DEF Usual, Prepared, Binary
<1>6. \A b \in BOOLEAN : /\ Parameters(b) \in Usual /\ Declaration(b) \in Usual
                         /\ Statements(b) \in Usual /\ StatementEnd(b) \in Usual
                         /\ ListEnd(b) \in Usual
  BY Entries
     DEF Usual, Prepared, Parameters, Declaration, Statements, StatementEnd, ListEnd
<1> QED
  BY <1>1, <1>2, <1>3, <1>4, <1>5, <1>6

\* Lists of them.
LEMMA UsualLists ==
  /\ << >> \in Seq(Usual)
  /\ \A a \in Usual : <<a>> \in Seq(Usual)
  /\ \A a, b \in Usual : <<a, b>> \in Seq(Usual)
  /\ \A a, b, c \in Usual : <<a, b, c>> \in Seq(Usual)
  /\ \A a, b, c, d \in Usual : <<a, b, c, d>> \in Seq(Usual)
  /\ \A a, b, c, d, e \in Usual : <<a, b, c, d, e>> \in Seq(Usual)
  /\ \A a, b, c, d, e, f \in Usual : <<a, b, c, d, e, f>> \in Seq(Usual)
OBVIOUS

\* The announcements: a declaration is called when its first token is next, and the
\* end of a parameter list behind its "...".
Announces(e, p) ==
  /\ e[1] = "let_declaration" /\ e[2] => p.current = "Let"
  /\ e[1] = "function_declaration" /\ e[2] /\ ~e[3] => p.current = "Fn"
  /\ e[1] = "struct_declaration" => p.current = "Struct"
  /\ e[1] = "parameters_end" => p.previous = "Ellipsis"

\* The step runs the call on top, in a block or not, up to the calls cs.
Ordinary(cs) ==
  /\ stack # << >> /\ cs \in Seq(Entry) /\ Goto(cs)
  /\ Head(stack)[1] # "leave_block"
  /\ parser'.inside_block = parser.inside_block
  /\ \/ cs \in Seq(Usual)
     \/ /\ cs # << >> /\ Tail(cs) \in Seq(Usual)
        /\ Head(cs)[1] \in Prepared /\ Announces(Head(cs), parser')

\* And if there is still no error they lead where that call was to lead.
Goes(cs) ==
  ~parser'.had_error =>
    /\ ~parser.had_error
    /\ \A x, z \in Place : At(parser, x) /\ Spans(Head(stack), x, z) =>
         \E y \in Place : At(parser', y) /\ Leads(cs, y, z)

Moves == \E cs : Ordinary(cs) /\ Goes(cs)

\* Where a step may leave the parser that started with the call on top.
Here(cs) ==
  \A x, z \in Place : At(parser, x) /\ Spans(Head(stack), x, z) => Leads(cs, x, z)
Behind(cs) ==
  \A x, z \in Place : At(parser, x) /\ Spans(Head(stack), x, z)
    => Leads(cs, Passed(x, parser.current), z)

\* Only leave_block leads out of a block.
LEMMA SameBlock ==
  ASSUME NEW e \in Entry, e[1] # "leave_block", NEW x \in Place, NEW z \in Place,
         Spans(e, x, z)
  PROVE  z.inside = x.inside
<1>1. Calm(x).inside = x.inside
  BY CalmPlace, Zenon
<1>2. \A t \in Brackets : Closes(x, z, t) => z.inside = x.inside
  BY ClosesPlace, Zenon
<1>3. \A t : Passed(x, t).inside = x.inside
  BY DEF Passed
<1>4. ListDone(x, z) => z.inside = x.inside
  BY <1>1, <1>2 DEF ListDone, Brackets
<1>5. CASE e[1] = "consume"
  <2>1. z = Passed(x, e[2])
    BY <1>5, SpansTable, Zenon
  <2> QED BY <1>3, <2>1
<1>6. CASE e[1] \in Whole
  BY <1>1, <1>6, SpansTable, Zenon
<1>7. CASE e[1] \in Optional
  <2>1. z = x
    BY <1>7, SpansTable, Zenon
  <2> QED BY <2>1
<1>8. CASE e[1] \in {"expressions", "expressions_loop", "expressions_more"}
  <2>1. e[2] \in Brackets
    BY <1>8, Arguments DEF Brackets
  <2> QED BY <1>2, <1>8, <2>1, SpansTable, Zenon
<1>9. CASE e[1] \in {"dictionary_or_set", "dictionary_first", "dictionary_loop", "set_loop"}
  <2>1. Closes(x, z, "RightCurBr")
    BY <1>9, SpansTable, Zenon
  <2> QED BY <1>2, <2>1 DEF Brackets
<1>10. CASE e[1] \in {"parameters", "parameters_self", "parameters_loop",
                      "parameters_more", "parameters_end"}
  <2>1. Closes(x, z, "RightParen")
    BY <1>10, SpansTable, Zenon
  <2> QED BY <1>2, <2>1 DEF Brackets
<1>11. CASE e[1] = "function_declaration" \/ e[1] = "struct_parent"
  <2>1. z = Calm(x)
    BY <1>11, SpansTable, Zenon
  <2> QED BY <1>1, <2>1
<1>12. CASE e[1] = "struct_body"
  <2>1. Closes(x, z, "RightCurBr")
    BY <1>12, SpansTable, Zenon
  <2> QED BY <1>2, <2>1 DEF Brackets
<1>13. CASE e[1] \in {"statements", "list_end"} \/ e[1] = "statement_end"
  BY <1>4, <1>13, SpansTable, Zenon
<1>14. CASE e[1] = "synchronize"
  BY <1>14, SpansTable, Zenon
<1>15. \/ e[1] = "consume" \/ e[1] \in Whole \/ e[1] \in Optional
       \/ e[1] \in {"expressions", "expressions_loop", "expressions_more"}
       \/ e[1] \in {"dictionary_or_set", "dictionary_first", "dictionary_loop", "set_loop"}
       \/ e[1] \in {"parameters", "parameters_self", "parameters_loop",
                    "parameters_more", "parameters_end"}
       \/ e[1] = "function_declaration" \/ e[1] = "struct_parent"
       \/ e[1] = "struct_body"
       \/ e[1] \in {"statements", "list_end"} \/ e[1] = "statement_end"
       \/ e[1] = "synchronize"
  <2>1. e[1] \in Plain \cup {"consume", "expressions", "expressions_loop",
                             "expressions_more", "binary", "parameters",
                             "let_declaration", "declaration", "statements",
                             "statement_end", "list_end", "function_declaration"}
    BY DEF Entry, Call, Consume, Expressions, ExpressionsLoop, ExpressionsMore, Binary,
           FunctionDeclaration
  <2> QED BY <2>1 DEF Plain, Whole, Optional
<1> QED
  BY <1>5, <1>6, <1>7, <1>8, <1>9, <1>10, <1>11, <1>12, <1>13, <1>14, <1>15

\* A call that only makes other calls.
LEMMA Stays ==
  ASSUME TypeOK, stack # << >>, Head(stack)[1] # "leave_block",
         NEW cs \in Seq(Usual), Goto(cs), parser' = parser, Here(cs)
  PROVE  Moves
<1>1. cs \in Seq(Entry)
  BY UsualEntries, Zenon
<1>2. Ordinary(cs)
  BY <1>1, Zenon DEF Ordinary
<1>3. \A x : At(parser', x) <=> At(parser, x)
  BY Zenon
<1>4. Goes(cs)
  BY <1>3, Zenon DEF Goes, Here
<1> QED BY <1>2, <1>4, Zenon DEF Moves

\* A call that reads a token.
LEMMA Reads ==
  ASSUME TypeOK, RejectionInv, stack # << >>, Head(stack)[1] # "leave_block",
         NEW cs \in Seq(Usual), Goto(cs), parser' \in Advances(parser), Behind(cs)
  PROVE  Moves
<1>1. cs \in Seq(Entry)
  BY UsualEntries, Zenon
<1>2. parser \in ParserState /\ Sound(parser)
  BY DEF TypeOK, RejectionInv
<1>3. /\ parser'.inside_block = parser.inside_block
      /\ ~parser'.had_error =>
           /\ ~parser.had_error
           /\ \A x \in Place : At(parser, x) => At(parser', Passed(x, parser.current))
  BY <1>2, AdvancesAt, Zenon
<1>4. Ordinary(cs)
  BY <1>1, <1>3, Zenon DEF Ordinary
<1>5. \A x \in Place : Passed(x, parser.current) \in Place
  BY PassedPlace, Zenon
<1>6. Goes(cs)
  BY <1>3, <1>5, Zenon DEF Goes, Behind
<1> QED BY <1>4, <1>6, Zenon DEF Moves

\* A call that finds an error.
LEMMA Fails ==
  ASSUME TypeOK, stack # << >>, Head(stack)[1] # "leave_block",
         NEW cs \in Seq(Usual), Goto(cs),
         parser'.inside_block = parser.inside_block, parser'.had_error
  PROVE  Moves
<1>1. cs \in Seq(Entry)
  BY UsualEntries, Zenon
<1>2. Ordinary(cs)
  BY <1>1, Zenon DEF Ordinary
<1>3. Goes(cs)
  BY DEF Goes
<1> QED BY <1>2, <1>3, Zenon DEF Moves

\* error_at() and running out of input leave the block alone.
LEMMA Flags ==
  ASSUME NEW p \in ParserState, Sound(p)
  PROVE  /\ ErrorAt(p).inside_block = p.inside_block /\ ErrorAt(p).had_error
         /\ Incomplete(p).inside_block = p.inside_block
         /\ Incomplete(p).had_error = p.had_error
         /\ Incomplete(p).incomplete_input
BY DEF ErrorAt, Incomplete, ParserState, Sound

\* A call that runs out of input.
LEMMA RunsOut ==
  ASSUME TypeOK, stack # << >>, Head(stack)[1] # "leave_block", Goto(<< >>),
         parser'.inside_block = parser.inside_block, parser'.incomplete_input,
         ~parser'.had_error => ~parser.had_error
  PROVE  Moves
<1>1. << >> \in Seq(Usual) /\ << >> \in Seq(Entry)
  OBVIOUS
<1>2. Ordinary(<< >>)
  BY <1>1, Zenon DEF Ordinary
<1>3. Head(stack) \in Entry
  BY DEF TypeOK
<1>4. ASSUME NEW x \in Place, NEW z \in Place, At(parser, x), Spans(Head(stack), x, z)
      PROVE  \E y \in Place : At(parser', y) /\ Leads(<< >>, y, z)
  <2>1. z.inside = x.inside
    BY <1>3, <1>4, SameBlock, Zenon
  <2>2. At(parser', z)
    BY <1>4, <2>1 DEF At
  <2>3. Leads(<< >>, z, z)
    BY LeadsNone, Zenon
  <2> QED BY <2>2, <2>3, Zenon
<1>5. Goes(<< >>)
  BY <1>4, Zenon DEF Goes
<1> QED BY <1>2, <1>5, Zenon DEF Moves

\* match() and the loops up to a closing token.
LEMMA Matches ==
  ASSUME TypeOK, RejectionInv, stack # << >>, Head(stack)[1] # "leave_block",
         NEW t, NEW found \in Seq(Usual), NEW missing \in Seq(Usual),
         Match(t, found, missing),
         parser.current = t => Behind(found), parser.current # t => Here(missing)
  PROVE  Moves
<1>1. CASE parser.current = t
  BY <1>1, Reads, Zenon DEF Match
<1>2. CASE parser.current # t
  BY <1>2, Stays, Zenon DEF Match
<1> QED BY <1>1, <1>2

\* The loops up to a closing token.
LEMMA Loops ==
  ASSUME TypeOK, RejectionInv, stack # << >>, Head(stack)[1] # "leave_block",
         NEW t, NEW body \in Seq(Usual), Until(t, body),
         parser.current = t => Behind(<< >>), Here(body)
  PROVE  Moves
<1>1. << >> \in Seq(Usual)
  OBVIOUS
<1>2. CASE parser.current = t /\ parser' \in Advances(parser) /\ Goto(<< >>)
  BY <1>1, <1>2, Reads, Zenon
<1>3. CASE parser.current = "EOF" /\ parser' = Incomplete(parser) /\ Goto(<< >>)
  <2>1. /\ Incomplete(parser).inside_block = parser.inside_block
        /\ Incomplete(parser).had_error = parser.had_error
        /\ Incomplete(parser).incomplete_input
    BY Flags DEF TypeOK, RejectionInv
  <2> QED BY <1>3, <2>1, RunsOut, Zenon
<1>4. CASE parser.current \notin {t, "EOF"} /\ UNCHANGED parser /\ Goto(body)
  BY <1>4, Stays, Zenon
<1> QED BY <1>2, <1>3, <1>4 DEF Until

\* Behind the closing token of the list or dictionary at hand there is nothing to do.
LEMMA ClosedBehind ==
  ASSUME NEW t \in Brackets, parser.current = t,
         \A x, z \in Place : Spans(Head(stack), x, z) => Closes(x, z, t)
  PROVE  Behind(<< >>)
<1> SUFFICES ASSUME NEW x \in Place, NEW z \in Place, Closes(x, z, t)
             PROVE  Leads(<< >>, Passed(x, t), z)
  BY Zenon DEF Behind
<1>1. Passed(x, t) = z
  BY ClosesPlace, Zenon
<1> QED BY <1>1, LeadsNone, Zenon

\* What stands in front of a closing bracket may be followed by a comma or anything
\* whole, and the bracket is still to come.
LEMMA ClosesCalm ==
  ASSUME NEW x \in Place, NEW z \in Place, NEW t \in Brackets, Closes(x, z, t)
  PROVE  Closes(Calm(x), z, t)
BY ClosesPlace, Zenon

\* Calls that are over here, or behind the token.
LEMMA EndsHere ==
  ASSUME \A x, z \in Place : Spans(Head(stack), x, z) => z = x
  PROVE  Here(<< >>)
<1>1. ASSUME NEW x \in Place, NEW z \in Place, Spans(Head(stack), x, z)
      PROVE  Leads(<< >>, x, z)
  <2>1. z = x
    BY <1>1, Zenon
  <2> QED BY <2>1, LeadsNone, Zenon
<1> QED BY <1>1, Zenon DEF Here

\* The same behind the token.
LEMMA EndsBehind ==
  ASSUME \A x, z \in Place : Spans(Head(stack), x, z) => z = Passed(x, parser.current)
  PROVE  Behind(<< >>)
<1>1. ASSUME NEW x \in Place, NEW z \in Place, Spans(Head(stack), x, z)
      PROVE  Leads(<< >>, Passed(x, parser.current), z)
  <2>1. z = Passed(x, parser.current)
    BY <1>1, Zenon
  <2> QED BY <2>1, LeadsNone, Zenon
<1> QED BY <1>1, Zenon DEF Behind

\* consume() reads its token, runs out of input, or finds an error.
LEMMA ConsumeMoves == ASSUME TypeOK, RejectionInv, consume PROVE Moves
<1>1. stack # << >> /\ Head(stack)[1] = "consume" /\ << >> \in Seq(Usual) /\ Goto(<< >>)
  BY DEF consume, On
<1>2. Head(stack)[1] # "leave_block"
  BY <1>1
<1>3. parser \in ParserState /\ Sound(parser)
  BY DEF TypeOK, RejectionInv
<1>4. CASE parser.current = "EOF" /\ parser' = Incomplete(parser)
  BY <1>1, <1>2, <1>3, <1>4, Flags, RunsOut, Zenon
<1>5. CASE parser.current = Arg /\ parser' \in Advances(parser)
  <2>1. ASSUME NEW x \in Place, NEW z \in Place, Spans(Head(stack), x, z)
        PROVE  Leads(<< >>, Passed(x, parser.current), z)
    <3>1. z = Passed(x, Head(stack)[2])
      BY <1>1, <2>1, SpansTable, Zenon
    <3>2. Head(stack)[2] = parser.current
      BY <1>5 DEF Arg
    <3> QED BY <3>1, <3>2, LeadsNone, Zenon
  <2>2. Behind(<< >>)
    BY <2>1, Zenon DEF Behind
  <2> QED BY <1>1, <1>2, <1>5, <2>2, Reads, Zenon
<1>6. CASE parser' = ErrorAt(parser)
  BY <1>1, <1>2, <1>3, <1>6, Flags, Fails, Zenon
<1> QED BY <1>4, <1>5, <1>6 DEF consume

\* expressions(): closed at once, or into the loop.
LEMMA ExpressionsMoves == ASSUME TypeOK, RejectionInv, expressions PROVE Moves
<1>1. stack # << >> /\ Head(stack)[1] = "expressions" /\ Head(stack) \in Entry
  BY DEF expressions, On, TypeOK
<1>2. Head(stack)[1] # "leave_block" /\ Arg \in {"RightParen", "RightSqBr"} /\ Arg \in Brackets
  BY <1>1, Arguments DEF Arg, Brackets
<1>3. << >> \in Seq(Usual) /\ <<ExpressionsLoop(Arg)>> \in Seq(Usual)
      /\ ExpressionsLoop(Arg) \in Entry
  <2>1. ExpressionsLoop(Arg) \in Usual
    BY <1>2, UsualEntries, Zenon
  <2> QED BY <2>1 DEF Usual
<1>4. \A x, z \in Place : Spans(Head(stack), x, z) => Closes(x, z, Arg)
  BY <1>1, SpansTable DEF Arg
<1>5. parser.current = Arg => Behind(<< >>)
  BY <1>2, <1>4, ClosedBehind, Zenon
<1>6. Here(<<ExpressionsLoop(Arg)>>)
  BY <1>3, <1>4, SpansCalls, Leads1, Zenon DEF Here
<1> QED BY <1>1, <1>2, <1>3, <1>5, <1>6, Matches, Zenon DEF expressions

\* The loop of expressions(), and the comma or bracket behind an expression.
LEMMA ExpressionsLoopMoves == ASSUME TypeOK, RejectionInv, expressions_loop PROVE Moves
<1>1. /\ stack # << >> /\ Head(stack)[1] \in {"expressions_loop", "expressions_more"}
      /\ Head(stack) \in Entry
  BY DEF expressions_loop, On, TypeOK
<1>2. Head(stack)[1] # "leave_block" /\ Arg \in {"RightParen", "RightSqBr"} /\ Arg \in Brackets
  BY <1>1, Arguments DEF Arg, Brackets
<1>3. /\ Call("expression") \in Usual /\ Consume("Comma") \in Usual
      /\ ExpressionsLoop(Arg) \in Usual /\ ExpressionsMore(Arg) \in Usual
  BY <1>2, UsualEntries, TokenNames DEF Plain
<1>4. \A x, z \in Place : Spans(Head(stack), x, z) => Closes(x, z, Arg)
  BY <1>1, SpansTable DEF Arg
<1>5. parser.current = Arg => Behind(<< >>)
  BY <1>2, <1>4, ClosedBehind, Zenon
<1>6. ASSUME NEW x \in Place, NEW z \in Place, Spans(Head(stack), x, z)
      PROVE  /\ Leads(<<Call("expression"), ExpressionsMore(Arg)>>, x, z)
             /\ Leads(<<Consume("Comma"), ExpressionsLoop(Arg)>>, x, z)
  <2>1. Closes(Calm(x), z, Arg) /\ Calm(x) \in Place
    BY <1>2, <1>4, <1>6, ClosesCalm, CalmPlace, Zenon
  <2>2. Spans(ExpressionsMore(Arg), Calm(x), z) /\ Spans(ExpressionsLoop(Arg), Calm(x), z)
    BY <2>1, SpansCalls, Zenon
  <2>3. Spans(Call("expression"), x, Calm(x)) /\ Spans(Consume("Comma"), x, Calm(x))
    BY Quiet DEF Whole, Words
  <2> QED BY <1>3, <2>1, <2>2, <2>3, UsualEntries, Leads2, Zenon
<1>7. /\ Here(<<Call("expression"), ExpressionsMore(Arg)>>)
      /\ Here(<<Consume("Comma"), ExpressionsLoop(Arg)>>)
  BY <1>6, Zenon DEF Here
<1>8. /\ << >> \in Seq(Usual) /\ <<Call("expression"), ExpressionsMore(Arg)>> \in Seq(Usual)
      /\ <<Consume("Comma"), ExpressionsLoop(Arg)>> \in Seq(Usual)
  BY <1>3
<1>9. parser \in ParserState /\ Sound(parser)
  BY DEF TypeOK, RejectionInv
<1>10. CASE parser.current = "EOF" /\ parser' = Incomplete(parser) /\ Goto(<< >>)
  BY <1>1, <1>2, <1>9, <1>10, Flags, RunsOut, Zenon
<1>11. CASE UNCHANGED parser /\ Goto(<<Call("expression"), ExpressionsMore(Arg)>>)
  BY <1>1, <1>2, <1>7, <1>8, <1>11, Stays, Zenon
<1>12. CASE Match(Arg, << >>, <<Consume("Comma"), ExpressionsLoop(Arg)>>)
  BY <1>1, <1>2, <1>5, <1>7, <1>8, <1>12, Matches, Zenon
<1> QED BY <1>10, <1>11, <1>12 DEF expressions_loop

\* dictionary_or_set() up to its closing brace.
LEMMA DictionaryOrSetMoves == ASSUME TypeOK, RejectionInv, dictionary_or_set PROVE Moves
<1>1. /\ stack # << >> /\ Head(stack)[1] # "leave_block"
      /\ Head(stack)[1] \in {"dictionary_or_set", "dictionary_first", "dictionary_loop",
                             "set_loop"}
  BY DEF dictionary_or_set, On
<1>2. /\ Call("expression") \in Usual /\ Call("dictionary_first") \in Usual
      /\ Call("dictionary_loop") \in Usual /\ Call("set_loop") \in Usual
      /\ Consume("Comma") \in Usual /\ Consume("Colon") \in Usual
      /\ "RightCurBr" \in Brackets /\ Usual \subseteq Entry
  BY UsualEntries, TokenNames DEF Plain, Brackets
<1>3. \A x, z \in Place : Spans(Head(stack), x, z) => Closes(x, z, "RightCurBr")
  BY <1>1, SpansTable, Zenon
<1>4. parser.current = "RightCurBr" => Behind(<< >>)
  BY <1>2, <1>3, ClosedBehind, Zenon
<1>5. ASSUME NEW x \in Place, NEW z \in Place, Spans(Head(stack), x, z)
      PROVE  /\ Leads(<<Call("expression"), Call("dictionary_first")>>, x, z)
             /\ Leads(<<Call("expression"), Call("dictionary_loop")>>, Calm(x), z)
             /\ Leads(<<Call("set_loop")>>, x, z)
             /\ Leads(NextPair, x, z) /\ Leads(NextElement, x, z)
  <2>1. Closes(x, z, "RightCurBr") /\ Closes(Calm(x), z, "RightCurBr") /\ Calm(x) \in Place
    BY <1>2, <1>3, <1>5, ClosesCalm, CalmPlace, Zenon
  <2>2. /\ \A f \in {"dictionary_first", "dictionary_loop", "set_loop"} :
             Spans(Call(f), x, z) /\ Spans(Call(f), Calm(x), z)
    BY <2>1, SpansCalls
  <2>3. /\ Spans(Call("expression"), x, Calm(x)) /\ Spans(Consume("Comma"), x, Calm(x))
        /\ Spans(Call("expression"), Calm(x), Calm(x))
        /\ Spans(Consume("Colon"), Calm(x), Calm(x))
    BY Quiet DEF Whole, Words
  <2>4. /\ Spans(Call("dictionary_first"), Calm(x), z) /\ Spans(Call("set_loop"), x, z)
        /\ Spans(Call("dictionary_loop"), Calm(x), z) /\ Spans(Call("set_loop"), Calm(x), z)
    BY <2>2
  <2>5. /\ Leads(<<Call("expression"), Call("dictionary_first")>>, x, z)
        /\ Leads(<<Call("expression"), Call("dictionary_loop")>>, Calm(x), z)
        /\ Leads(<<Call("set_loop")>>, x, z)
    BY <1>2, <2>1, <2>3, <2>4, Leads1, Leads2
  <2>6. Leads(NextElement, x, z)
    BY <1>2, <2>1, <2>3, <2>4, Leads3 DEF NextElement
  <2>7. Leads(NextPair, x, z)
    BY <1>2, <2>1, <2>3, <2>4, Leads5 DEF NextPair
  <2> QED BY <2>5, <2>6, <2>7
<1>6. /\ Here(<<Call("expression"), Call("dictionary_first")>>)
      /\ Here(<<Call("set_loop")>>) /\ Here(NextPair) /\ Here(NextElement)
  BY <1>5, Zenon DEF Here
<1>7. parser.current = "Colon" => Behind(<<Call("expression"), Call("dictionary_loop")>>)
  <2>1. \A x \in Place : Passed(x, "Colon") = Calm(x)
    BY WordsPass, PassedPlain DEF Words
  <2> QED BY <1>5, <2>1, Zenon DEF Behind
<1>8. /\ << >> \in Seq(Usual)
      /\ <<Call("expression"), Call("dictionary_first")>> \in Seq(Usual)
      /\ <<Call("expression"), Call("dictionary_loop")>> \in Seq(Usual)
      /\ <<Call("set_loop")>> \in Seq(Usual)
      /\ NextPair \in Seq(Usual) /\ NextElement \in Seq(Usual)
  BY <1>2 DEF NextPair, NextElement
<1>9. CASE Match("RightCurBr", << >>, <<Call("expression"), Call("dictionary_first")>>)
  BY <1>1, <1>4, <1>6, <1>8, <1>9, Matches, Zenon
<1>10. CASE Match("Colon", <<Call("expression"), Call("dictionary_loop")>>,
                  <<Call("set_loop")>>)
  BY <1>1, <1>6, <1>7, <1>8, <1>10, Matches, Zenon
<1>11. CASE Until("RightCurBr", NextPair)
  BY <1>1, <1>4, <1>6, <1>8, <1>11, Loops, Zenon
<1>12. CASE Until("RightCurBr", NextElement)
  BY <1>1, <1>4, <1>6, <1>8, <1>12, Loops, Zenon
<1> QED BY <1>9, <1>10, <1>11, <1>12 DEF dictionary_or_set

\* if_statement_suffix() and its else.
LEMMA IfStatementSuffixMoves == ASSUME TypeOK, RejectionInv, if_statement_suffix PROVE Moves
<1>1. /\ Call("expression") \in Usual /\ Call("block_statement") \in Usual
      /\ Call("else_part") \in Usual /\ Usual \subseteq Entry
  BY UsualEntries DEF Plain
<1>2. /\ <<Call("expression"), Call("block_statement"), Call("else_part")>> \in Seq(Usual)
      /\ <<Call("block_statement")>> \in Seq(Usual) /\ << >> \in Seq(Usual)
  BY <1>1
<1>3. ASSUME NEW x \in Place
      PROVE  /\ Spans(Call("expression"), x, Calm(x)) /\ Calm(x) \in Place
             /\ Spans(Call("block_statement"), Calm(x), Calm(x))
             /\ Spans(Call("else_part"), Calm(x), Calm(x))
  BY Quiet, CalmPlace DEF Whole, Optional
<1>4. CASE On("if_suffix") /\ UNCHANGED parser
           /\ Goto(<<Call("expression"), Call("block_statement"), Call("else_part")>>)
  <2>1. stack # << >> /\ Head(stack)[1] = "if_suffix"
    BY <1>4 DEF On
  <2>2. ASSUME NEW x \in Place, NEW z \in Place, Spans(Head(stack), x, z)
        PROVE  Leads(<<Call("expression"), Call("block_statement"), Call("else_part")>>, x, z)
    <3>1. z = Calm(x)
      BY <2>1, <2>2, SpansTable DEF Whole
    <3> QED BY <1>1, <1>3, <3>1, Leads3
  <2>3. Here(<<Call("expression"), Call("block_statement"), Call("else_part")>>)
    BY <2>2, Zenon DEF Here
  <2>4. Head(stack)[1] # "leave_block"
    BY <2>1
  <2> QED BY <1>2, <1>4, <2>1, <2>3, <2>4, Stays, Zenon
<1>5. CASE On("else_part") /\ Match("Else", <<Call("block_statement")>>, << >>)
  <2>1. stack # << >> /\ Head(stack)[1] = "else_part"
    BY <1>5 DEF On
  <2>2. \A x, z \in Place : Spans(Head(stack), x, z) => ~x.semi /\ z = x
    BY <2>1, SpansTable DEF Optional
  <2>3. Here(<< >>)
    BY <2>2, LeadsNone, Zenon DEF Here
  <2>4. ASSUME parser.current = "Else" PROVE Behind(<<Call("block_statement")>>)
    <3>1. ASSUME NEW x \in Place, NEW z \in Place, Spans(Head(stack), x, z)
          PROVE  Leads(<<Call("block_statement")>>, Passed(x, parser.current), z)
      <4>1. Passed(x, "Else") = Calm(x)
        BY PassedPlain DEF Closer, Brackets
      <4>2. Calm(x) = z /\ Calm(x) = x
        <5>1. ~x.semi /\ z = x
          BY <2>2, <3>1, Zenon
        <5> QED BY <5>1, CalmPlace, Zenon
      <4>3. Leads(<<Call("block_statement")>>, Calm(x), Calm(x))
        BY <1>1, <1>3, Leads1
      <4> QED BY <2>4, <4>1, <4>2, <4>3, Zenon
    <3> QED BY <3>1, Zenon DEF Behind
  <2>5. Head(stack)[1] # "leave_block"
    BY <2>1
  <2> QED BY <1>2, <1>5, <2>1, <2>3, <2>4, <2>5, Matches, Zenon
<1> QED BY <1>4, <1>5 DEF if_statement_suffix

\* Where atom() goes on to, behind the token it has read.
LEMMA AtomLeads ==
  ASSUME NEW x \in Place, NEW t \in DOMAIN AtomCalls
  PROVE  AtomCalls[t] \in Seq(Usual) /\ Leads(AtomCalls[t], Passed(x, t), Calm(x))
<1> DEFINE w == Calm(x)
<1>1. w \in Place /\ Calm(w) = w
  BY CalmPlace, Zenon
<1>2. /\ Call("if_suffix") \in Usual /\ Call("expression") \in Usual
      /\ Consume("LeftParen") \in Usual /\ Consume("RightParen") \in Usual
      /\ Consume("String") \in Usual /\ Parameters(FALSE) \in Usual
      /\ Call("block_statement") \in Usual /\ Expressions("RightSqBr") \in Usual
      /\ Call("dictionary_or_set") \in Usual /\ Usual \subseteq Entry
  BY UsualEntries, TokenNames DEF Plain
<1>3. /\ Spans(Call("if_suffix"), w, w) /\ Spans(Call("block_statement"), w, w)
  BY Quiet DEF Whole
<1> DEFINE v(t1) == Push(x, t1)
<1>4. \A c \in Brackets : /\ v(c) \in Place /\ Spans(Consume(c), v(c), w)
                          /\ Closes(v(c), w, c)
                          /\ Spans(Call("expression"), v(c), v(c))
                          /\ Spans(Consume("String"), v(c), v(c))
  <2> TAKE c \in Brackets
  <2>1. v(c) \in Place /\ Calm(v(c)) = v(c) /\ Spans(Consume(c), v(c), w) /\ Closes(v(c), w, c)
    BY Bracketed, Zenon
  <2>2. Spans(Call("expression"), v(c), Calm(v(c))) /\ Spans(Consume("String"), v(c), Calm(v(c)))
    BY <2>1, Quiet DEF Whole, Words
  <2> QED BY <2>1, <2>2, Zenon
<1>5. Spans(Consume("LeftParen"), w, v("RightParen"))
  <2>1. Spans(Consume("LeftParen"), w, Push(w, "RightParen"))
    BY <1>1, Bracketed, Zenon
  <2>2. Push(w, "RightParen") = Push(x, "RightParen")
    BY Bracketed DEF Brackets
  <2> QED BY <2>1, <2>2, Zenon
<1>6. /\ "RightParen" \in Brackets /\ "RightSqBr" \in Brackets /\ "RightCurBr" \in Brackets
  BY DEF Brackets
<1> HIDE DEF w, v
<1>7. CASE t = "If"
  <2>1. Passed(x, t) = w
    BY <1>7, WordsPass, PassedPlain DEF Words, w
  <2>2. Leads(<<Call("if_suffix")>>, w, w) /\ <<Call("if_suffix")>> \in Seq(Usual)
    BY <1>1, <1>2, <1>3, Leads1
  <2> QED BY <1>7, <2>1, <2>2 DEF AtomCalls, w
<1>8. CASE t = "Require"
  <2>1. Passed(x, t) = w
    BY <1>8, PassedPlain DEF Closer, Brackets, w
  <2> DEFINE cs == <<Consume("LeftParen"), Consume("String"), Consume("RightParen")>>
  <2>2. Leads(cs, w, w) /\ cs \in Seq(Usual)
    BY <1>1, <1>2, <1>4, <1>5, <1>6, Leads3
  <2>3. AtomCalls[t] = cs
    BY <1>8 DEF AtomCalls
  <2> QED BY <2>1, <2>2, <2>3, Zenon DEF w
<1>9. CASE t = "Yield"
  <2>1. Passed(x, t) = w
    BY <1>9, PassedPlain DEF Closer, Brackets, w
  <2> DEFINE cs == <<Consume("LeftParen"), Call("expression"), Consume("RightParen")>>
  <2>2. Leads(cs, w, w) /\ cs \in Seq(Usual)
    BY <1>1, <1>2, <1>4, <1>5, <1>6, Leads3
  <2>3. AtomCalls[t] = cs
    BY <1>9 DEF AtomCalls
  <2> QED BY <2>1, <2>2, <2>3, Zenon DEF w
<1>10. CASE t = "LeftParen"
  <2>1. Passed(x, t) = v("RightParen")
    BY <1>10, PassedOpener DEF v
  <2> DEFINE cs == <<Call("expression"), Consume("RightParen")>>
  <2>2. Leads(cs, v("RightParen"), w) /\ cs \in Seq(Usual)
    BY <1>1, <1>2, <1>4, <1>6, Leads2
  <2>3. AtomCalls[t] = cs
    BY <1>10 DEF AtomCalls
  <2> QED BY <2>1, <2>2, <2>3, Zenon DEF w
<1>11. CASE t = "Fn"
  <2>1. Passed(x, t) = w
    BY <1>11, WordsPass, PassedPlain DEF Words, w
  <2> DEFINE cs == <<Consume("LeftParen"), Parameters(FALSE), Call("block_statement")>>
  <2>2. Spans(Parameters(FALSE), v("RightParen"), w)
    BY <1>4, <1>6, SpansCalls, Zenon
  <2>3. Leads(cs, w, w) /\ cs \in Seq(Usual)
    <3>1. cs \in Seq(Usual)
      <4>1. /\ Consume("LeftParen") \in Usual /\ Parameters(FALSE) \in Usual
            /\ Call("block_statement") \in Usual
        BY <1>2, Zenon
      <4> QED BY <4>1, UsualLists, Zenon
    <3>2. /\ Consume("LeftParen") \in Entry /\ Parameters(FALSE) \in Entry
          /\ Call("block_statement") \in Entry
      BY <1>2
    <3>3. v("RightParen") \in Place
      BY <1>4, <1>6
    <3> QED BY <1>1, <1>3, <1>5, <2>2, <3>1, <3>2, <3>3, Leads3, Zenon
  <2>4. AtomCalls[t] = cs
    BY <1>11 DEF AtomCalls
  <2> QED BY <2>1, <2>3, <2>4, Zenon DEF w
<1>12. CASE t = "LeftSqBr"
  <2>1. Passed(x, t) = v("RightSqBr")
    BY <1>12, PassedOpener DEF v
  <2>2. Spans(Expressions("RightSqBr"), v("RightSqBr"), w)
    BY <1>4, <1>6, SpansCalls, Zenon
  <2>3. /\ Leads(<<Expressions("RightSqBr")>>, v("RightSqBr"), w)
        /\ <<Expressions("RightSqBr")>> \in Seq(Usual)
    BY <1>1, <1>2, <1>4, <1>6, <2>2, Leads1
  <2>4. AtomCalls[t] = <<Expressions("RightSqBr")>>
    BY <1>12 DEF AtomCalls
  <2> QED BY <2>1, <2>3, <2>4, Zenon DEF w
<1>13. CASE t = "LeftCurBr"
  <2>1. Passed(x, t) = v("RightCurBr")
    BY <1>13, PassedOpener DEF v
  <2>2. Spans(Call("dictionary_or_set"), v("RightCurBr"), w)
    BY <1>4, <1>6, SpansCalls
  <2>3. /\ Leads(<<Call("dictionary_or_set")>>, v("RightCurBr"), w)
        /\ <<Call("dictionary_or_set")>> \in Seq(Usual)
    BY <1>1, <1>2, <1>4, <1>6, <2>2, Leads1
  <2>4. AtomCalls[t] = <<Call("dictionary_or_set")>>
    BY <1>13 DEF AtomCalls
  <2> QED BY <2>1, <2>3, <2>4, Zenon DEF w
<1> QED
  BY <1>7, <1>8, <1>9, <1>10, <1>11, <1>12, <1>13 DEF AtomCalls

\* atom() reads a token and goes on to what it starts.
LEMMA AtomMoves == ASSUME TypeOK, RejectionInv, atom PROVE Moves
<1>1. stack # << >> /\ Head(stack)[1] = "atom" /\ Head(stack)[1] # "leave_block"
  BY DEF atom, On
<1>2. parser \in ParserState /\ Sound(parser) /\ parser \in Unread
  BY ParserStateUnread DEF TypeOK, RejectionInv
<1>3. \A x, z \in Place : Spans(Head(stack), x, z) => z = Calm(x)
  BY <1>1, SpansTable DEF Whole
<1>4. << >> \in Seq(Usual)
  OBVIOUS
<1>5. CASE /\ parser.current \in Literals \cup Numbers
           /\ parser' \in Advances(parser) /\ Goto(<< >>)
  <2>1. \A x \in Place : Passed(x, parser.current) = Calm(x)
    BY <1>5, PassedPlain DEF Literals, Numbers, Closer, Brackets
  <2>2. Behind(<< >>)
    BY <1>3, <2>1, EndsBehind, Zenon
  <2> QED BY <1>1, <1>4, <1>5, <2>2, Reads, Zenon
<1>6. CASE /\ parser.current \in DOMAIN AtomCalls
           /\ parser' \in Advances(parser) /\ Goto(AtomCalls[parser.current])
  <2>1. AtomCalls[parser.current] \in Seq(Usual)
    <3>1. \E x : x \in Place
      <4>1. [closers |-> << >>, inside |-> FALSE, semi |-> FALSE] \in Place
        BY DEF Place
      <4> QED BY <4>1
    <3> QED BY <1>6, <3>1, AtomLeads, Zenon
  <2>2. Behind(AtomCalls[parser.current])
    BY <1>3, <1>6, AtomLeads, Zenon DEF Behind
  <2> QED BY <1>1, <1>6, <2>1, <2>2, Reads, Zenon
<1>7. ASSUME NEW p \in Advances(parser), Goto(<< >>),
             parser' = IF parser.current = "EOF" THEN Incomplete(p) ELSE ErrorAt(p)
      PROVE  Moves
  <2>1. p \in ParserState /\ Sound(p)
    BY <1>2, AdvancesType, AdvancesSound
  <2>2. p.inside_block = parser.inside_block /\ (~p.had_error => ~parser.had_error)
    BY <1>2, AdvancesAt, Zenon
  <2>3. /\ ErrorAt(p).inside_block = p.inside_block /\ ErrorAt(p).had_error
        /\ Incomplete(p).inside_block = p.inside_block
        /\ Incomplete(p).had_error = p.had_error
        /\ Incomplete(p).incomplete_input
    BY <2>1, Flags, Zenon
  <2>4. CASE parser' = Incomplete(p)
    BY <1>1, <1>7, <2>2, <2>3, <2>4, RunsOut, Zenon
  <2>5. CASE parser' = ErrorAt(p)
    BY <1>1, <1>4, <1>7, <2>2, <2>3, <2>5, Fails, Zenon
  <2> QED BY <1>7, <2>4, <2>5
<1> QED BY <1>5, <1>6, <1>7 DEF atom

\* The suffix loop of primary(): every suffix leaves the place as it was.
LEMMA PostfixLeads ==
  ASSUME NEW x \in Place, ~x.semi, NEW t \in DOMAIN PostfixCalls
  PROVE  PostfixCalls[t] \in Seq(Usual) /\ Leads(PostfixCalls[t], Passed(x, t), x)
<1>1. Calm(x) = x
  BY CalmPlace, Zenon
<1>2. /\ Call("postfix") \in Usual /\ Call("expression") \in Usual
      /\ Consume("Identifier") \in Usual /\ Consume("RightSqBr") \in Usual
      /\ Expressions("RightParen") \in Usual
  BY UsualEntries, TokenNames DEF Plain
<1>3. /\ Call("postfix") \in Entry /\ Call("expression") \in Entry
      /\ Consume("Identifier") \in Entry /\ Consume("RightSqBr") \in Entry
      /\ Expressions("RightParen") \in Entry
  BY <1>2, UsualEntries, Zenon
<1>4. Spans(Call("postfix"), x, x) /\ Spans(Consume("Identifier"), x, x)
  <2>1. "postfix" \in Optional /\ "Identifier" \in Words
    BY DEF Optional, Words
  <2> QED BY <1>1, <2>1, Quiet, Zenon
<1>5. CASE t = "Dot"
  <2>1. Passed(x, t) = x
    <3>1. Passed(x, t) = Calm(x)
      BY <1>5, PassedPlain DEF Closer, Brackets
    <3> QED BY <1>1, <3>1, Zenon
  <2> DEFINE cs == <<Consume("Identifier"), Call("postfix")>>
  <2>2. cs \in Seq(Usual) /\ Leads(cs, x, x)
    BY <1>2, <1>3, <1>4, UsualLists, Leads2, Zenon
  <2>3. PostfixCalls[t] = cs
    BY <1>5 DEF PostfixCalls
  <2> QED BY <2>1, <2>2, <2>3, Zenon
<1>6. CASE t = "LeftParen"
  <2> DEFINE v == Push(x, "RightParen")
  <2>1. Passed(x, t) = v
    BY <1>6, PassedOpener
  <2>2. v \in Place /\ Closes(v, x, "RightParen")
    <3>1. "RightParen" \in Brackets
      BY DEF Brackets
    <3> QED BY <1>1, <3>1, Bracketed, Zenon
  <2>3. Spans(Expressions("RightParen"), v, x)
    BY <2>2, SpansCalls, Zenon
  <2> DEFINE cs == <<Expressions("RightParen"), Call("postfix")>>
  <2>4. cs \in Seq(Usual) /\ Leads(cs, v, x)
    BY <1>2, <1>3, <1>4, <2>2, <2>3, UsualLists, Leads2, Zenon
  <2>5. PostfixCalls[t] = cs
    BY <1>6 DEF PostfixCalls
  <2> QED BY <2>1, <2>4, <2>5, Zenon
<1>7. CASE t = "LeftSqBr"
  <2> DEFINE v == Push(x, "RightSqBr")
  <2>1. Passed(x, t) = v
    BY <1>7, PassedOpener
  <2>2. v \in Place /\ Spans(Consume("RightSqBr"), v, x) /\ Calm(v) = v
    <3>1. "RightSqBr" \in Brackets
      BY DEF Brackets
    <3> QED BY <1>1, <3>1, Bracketed, Zenon
  <2>3. Spans(Call("expression"), v, v)
    <3>1. "expression" \in Whole
      BY DEF Whole
    <3> QED BY <2>2, <3>1, Quiet, Zenon
  <2> DEFINE cs == <<Call("expression"), Consume("RightSqBr"), Call("postfix")>>
  <2>4. cs \in Seq(Usual) /\ Leads(cs, v, x)
    BY <1>2, <1>3, <1>4, <2>2, <2>3, UsualLists, Leads3, Zenon
  <2>5. PostfixCalls[t] = cs
    BY <1>7 DEF PostfixCalls
  <2> QED BY <2>1, <2>4, <2>5, Zenon
<1> QED BY <1>5, <1>6, <1>7 DEF PostfixCalls

\* primary() and the suffixes it loops over.
LEMMA PrimaryMoves == ASSUME TypeOK, RejectionInv, primary PROVE Moves
<1>1. CASE On("primary") /\ UNCHANGED parser /\ Goto(<<Call("atom"), Call("postfix")>>)
  <2>1. stack # << >> /\ Head(stack)[1] = "primary" /\ Head(stack)[1] # "leave_block"
    BY <1>1 DEF On
  <2>2. /\ Call("atom") \in Usual /\ Call("postfix") \in Usual
    BY UsualEntries DEF Plain
  <2>3. ASSUME NEW x \in Place, NEW z \in Place, Spans(Head(stack), x, z)
        PROVE  Leads(<<Call("atom"), Call("postfix")>>, x, z)
    <3>1. z = Calm(x)
      BY <2>1, <2>3, SpansTable DEF Whole
    <3>2. Spans(Call("atom"), x, Calm(x)) /\ Spans(Call("postfix"), Calm(x), Calm(x))
      BY Quiet DEF Whole, Optional
    <3> QED BY <2>2, <3>1, <3>2, UsualEntries, Leads2, Zenon
  <2>4. Here(<<Call("atom"), Call("postfix")>>)
    BY <2>3, Zenon DEF Here
  <2>5. <<Call("atom"), Call("postfix")>> \in Seq(Usual)
    BY <2>2, UsualLists, Zenon
  <2> QED BY <1>1, <2>1, <2>4, <2>5, Stays, Zenon
<1>2. ASSUME On("postfix")
      PROVE  /\ stack # << >> /\ Head(stack)[1] # "leave_block"
             /\ \A x, z \in Place : Spans(Head(stack), x, z) => ~x.semi /\ z = x
  <2>1. stack # << >> /\ Head(stack)[1] = "postfix"
    BY <1>2 DEF On
  <2>2. Head(stack)[1] \in Optional
    BY <2>1 DEF Optional
  <2> QED BY <2>1, <2>2, SpansTable
<1>3. CASE /\ On("postfix") /\ parser.current \in DOMAIN PostfixCalls
           /\ parser' \in Advances(parser) /\ Goto(PostfixCalls[parser.current])
  <2>1. PostfixCalls[parser.current] \in Seq(Usual)
    <3> DEFINE x == [closers |-> << >>, inside |-> FALSE, semi |-> FALSE]
    <3>1. x \in Place /\ ~x.semi
      BY DEF Place
    <3> HIDE DEF x
    <3> QED BY <1>3, <3>1, PostfixLeads, Zenon
  <2>2. Behind(PostfixCalls[parser.current])
    BY <1>2, <1>3, PostfixLeads, Zenon DEF Behind
  <2> QED BY <1>2, <1>3, <2>1, <2>2, Reads, Zenon
<1>4. CASE On("postfix") /\ UNCHANGED parser /\ Goto(<< >>)
  <2>1. Here(<< >>)
    BY <1>2, <1>4, EndsHere, Zenon
  <2> QED BY <1>2, <1>4, <2>1, UsualLists, Stays, Zenon
<1> QED BY <1>1, <1>3, <1>4 DEF primary

\* unary() and inversion().
LEMMA PrefixedMoves ==
  ASSUME TypeOK, RejectionInv, NEW f \in Whole \cap Plain, f # "struct_declaration",
         NEW ops, NEW cs \in Seq(Usual), Prefixed(f, ops, cs),
         \A t \in ops : t \notin DOMAIN Closer /\ t \notin Brackets /\ t # "SemiColon",
         \A x \in Place : Leads(cs, x, Calm(x))
  PROVE  Moves
<1>1. stack # << >> /\ Head(stack)[1] = f /\ Head(stack)[1] # "leave_block"
  <2>1. f # "leave_block"
    BY DEF Whole
  <2> QED BY <2>1 DEF Prefixed, On
<1>2. \A x, z \in Place : Spans(Head(stack), x, z) => z = Calm(x)
  <2>1. Head(stack)[1] \in Whole
    BY <1>1
  <2> QED BY <2>1, SpansTable, Zenon
<1>3. CASE parser.current \in ops /\ parser' \in Advances(parser) /\ Goto(<<Call(f)>>)
  <2>a. f \in Plain \ {"struct_declaration", "parameters_end"}
    BY DEF Whole
  <2>1. Call(f) \in Usual /\ <<Call(f)>> \in Seq(Usual) /\ Call(f) \in Entry
    BY <2>a, UsualEntries, UsualLists, Zenon
  <2>2. ASSUME NEW x \in Place, NEW z \in Place, Spans(Head(stack), x, z)
        PROVE  Leads(<<Call(f)>>, Passed(x, parser.current), z)
    <3>1. Passed(x, parser.current) = Calm(x)
      BY <1>3, PassedPlain, Zenon
    <3>2. Spans(Call(f), Calm(x), Calm(x)) /\ Calm(x) \in Place
      BY Quiet, CalmPlace, Zenon
    <3>3. z = Calm(x)
      BY <1>2, <2>2, Zenon
    <3> QED BY <2>1, <3>1, <3>2, <3>3, Leads1, Zenon
  <2>3. Behind(<<Call(f)>>)
    BY <2>2, Zenon DEF Behind
  <2> QED BY <1>1, <1>3, <2>1, <2>3, Reads, Zenon
<1>4. CASE parser' = Incomplete(parser) /\ Goto(<< >>)
  <2>1. parser \in ParserState /\ Sound(parser)
    BY DEF TypeOK, RejectionInv
  <2> QED BY <1>1, <1>4, <2>1, Flags, RunsOut, Zenon
<1>5. CASE UNCHANGED parser /\ Goto(cs)
  <2>1. Here(cs)
    BY <1>2, Zenon DEF Here
  <2> QED BY <1>1, <1>5, <2>1, Stays, Zenon
<1> QED BY <1>3, <1>4, <1>5 DEF Prefixed

\* unary() and the operators it recurses on.
LEMMA UnaryMoves == ASSUME TypeOK, RejectionInv, unary PROVE Moves
<1>1. "unary" \in Whole \cap Plain /\ "primary" \in Whole /\ Call("primary") \in Usual
  BY UsualEntries DEF Whole, Plain
<1>2. \A t \in PrefixOps : t \notin DOMAIN Closer /\ t \notin Brackets /\ t # "SemiColon"
  BY DEF PrefixOps, Closer, Brackets
<1>3. \A x \in Place : Leads(<<Call("primary")>>, x, Calm(x))
  BY <1>1, UsualEntries, Quiet, CalmPlace, Leads1, Zenon
<1>4. <<Call("primary")>> \in Seq(Usual) /\ "unary" # "struct_declaration"
  BY <1>1
<1> QED BY <1>1, <1>2, <1>3, <1>4, PrefixedMoves, Zenon DEF unary

\* inversion() and its "not".
LEMMA InversionMoves == ASSUME TypeOK, RejectionInv, inversion PROVE Moves
<1>1. /\ "inversion" \in Whole \cap Plain /\ "unary" \in Whole
      /\ Call("unary") \in Usual /\ Binary(3) \in Usual
  <2>1. 3 \in 1 .. 10
    OBVIOUS
  <2> QED BY <2>1, UsualEntries DEF Whole, Plain
<1>2. \A t \in {"Not"} : t \notin DOMAIN Closer /\ t \notin Brackets /\ t # "SemiColon"
  BY DEF Closer, Brackets
<1>3. \A x \in Place : Leads(<<Call("unary"), Binary(3)>>, x, Calm(x))
  BY <1>1, UsualEntries, Quiet, CalmPlace, Leads2, Zenon
<1>4. <<Call("unary"), Binary(3)>> \in Seq(Usual) /\ "inversion" # "struct_declaration"
  BY <1>1, UsualLists
<1> DEFINE ops == {"Not"}
<1>5. /\ Prefixed("inversion", ops, <<Call("unary"), Binary(3)>>)
      /\ \A t \in ops : t \notin DOMAIN Closer /\ t \notin Brackets /\ t # "SemiColon"
  BY <1>2 DEF inversion
<1> HIDE DEF ops
<1> QED BY <1>1, <1>3, <1>4, <1>5, PrefixedMoves, Zenon

\* A call behind two others.
LEMMA TwoAndOne ==
  ASSUME NEW a \in Entry, NEW b \in Entry, NEW c \in Entry
  PROVE  <<a, b>> \o <<c>> = <<a, b, c>>
<1> DEFINE two == <<a, b>>
           one == <<c>>
           all == <<a, b, c>>
<1>1. /\ two \in Seq(Entry) /\ Len(two) = 2 /\ two[1] = a /\ two[2] = b
      /\ one \in Seq(Entry) /\ Len(one) = 1 /\ one[1] = c
      /\ all \in Seq(Entry) /\ Len(all) = 3 /\ all[1] = a /\ all[2] = b /\ all[3] = c
  OBVIOUS
<1> HIDE DEF one, two, all
<1>2. /\ two \o one \in Seq(Entry) /\ Len(two \o one) = Len(two) + Len(one)
      /\ \A k \in 1 .. Len(two) + Len(one) :
           (two \o one)[k] = IF k <= Len(two) THEN two[k] ELSE one[k - Len(two)]
  BY <1>1, ConcatProperties, Zenon
<1> DEFINE both == two \o one
<1>3. /\ both \in Seq(Entry) /\ Len(both) = 3
      /\ \A k \in 1 .. 3 : both[k] = IF k <= 2 THEN two[k] ELSE one[k - 2]
  <2>1. Len(two) + Len(one) = 3
    BY <1>1
  <2> QED BY <1>1, <1>2, <2>1, Zenon
<1> HIDE DEF both
<1>4. both[1] = a /\ both[2] = b /\ both[3] = c
  <2>1. 1 \in 1 .. 3 /\ 2 \in 1 .. 3 /\ 3 \in 1 .. 3 /\ 3 - 2 = 1
    OBVIOUS
  <2> QED BY <1>1, <1>3, <2>1
<1>5. \A k \in 1 .. Len(both) : both[k] = all[k]
  <2>1. 1 .. 3 = {1, 2, 3}
    OBVIOUS
  <2> QED BY <1>1, <1>3, <1>4, <2>1
<1>6. both = all
  <2>1. Len(both) = Len(all)
    BY <1>1, <1>3
  <2> QED BY <1>1, <1>3, <1>5, <2>1, SeqEqual, Zenon
<1> QED BY <1>6 DEF both, two, one, all

\* The loops of the binary operators.
LEMMA BinaryMoves == ASSUME TypeOK, RejectionInv, binary PROVE Moves
<1>1. stack # << >> /\ Head(stack)[1] = "binary" /\ Head(stack) \in Entry
  BY DEF binary, On, TypeOK
<1>2. Head(stack)[1] # "leave_block" /\ Arg \in 1 .. 10
  BY <1>1, Arguments DEF Arg
<1>3. \A x, z \in Place : Spans(Head(stack), x, z) => ~x.semi /\ z = x
  <2>1. Head(stack)[1] \in Optional
    BY <1>1 DEF Optional
  <2> QED BY <2>1, SpansTable, Zenon
<1>4. ASSUME NEW k \in Arg .. 9, parser.current \in BinaryOps[k],
             parser' \in Advances(parser), Goto(Operand(k) \o <<Binary(Arg)>>)
      PROVE  Moves
  <2> DEFINE f  == IF k <= 2 THEN "inversion" ELSE "unary"
             cs == <<Call(f), Binary(k + 1), Binary(Arg)>>
  <2>1. k \in 1 .. 9 /\ k + 1 \in 1 .. 10
    BY <1>2
  <2>2. f \in Whole /\ f \in Plain \ {"struct_declaration", "parameters_end"}
    BY DEF Whole, Plain
  <2>3. Operand(k) \o <<Binary(Arg)>> = cs
    <3>1. Operand(k) = <<Call(f), Binary(k + 1)>>
      BY DEF Operand
    <3>2. Call(f) \in Entry /\ Binary(k + 1) \in Entry /\ Binary(Arg) \in Entry
      BY <1>2, <2>1, <2>2, UsualEntries, Zenon
    <3> HIDE DEF f
    <3> QED BY <3>1, <3>2, TwoAndOne, Zenon
  <2> HIDE DEF f
  <2>4. /\ Call(f) \in Usual /\ Binary(k + 1) \in Usual /\ Binary(Arg) \in Usual
        /\ cs \in Seq(Usual)
    BY <1>2, <2>1, <2>2, UsualEntries, UsualLists, Zenon
  <2>5. \A x \in Place : Passed(x, parser.current) = Calm(x)
    <3>1. /\ parser.current \notin DOMAIN Closer /\ parser.current \notin Brackets
          /\ parser.current # "SemiColon"
      BY <1>4, <2>1 DEF BinaryOps, Closer, Brackets
    <3> QED BY <3>1, PassedPlain, Zenon
  <2>6. ASSUME NEW x \in Place, NEW z \in Place, Spans(Head(stack), x, z)
        PROVE  Leads(cs, Passed(x, parser.current), z)
    <3>1. z = Calm(x) /\ Calm(x) \in Place
      <4>1. ~x.semi /\ z = x
        BY <1>3, <2>6, Zenon
      <4> QED BY <4>1, CalmPlace, Zenon
    <3>2. /\ Spans(Call(f), Calm(x), Calm(x)) /\ Spans(Binary(k + 1), Calm(x), Calm(x))
          /\ Spans(Binary(Arg), Calm(x), Calm(x))
      BY <2>2, Quiet, Zenon
    <3>3. Leads(cs, Calm(x), Calm(x))
      BY <2>4, <3>1, <3>2, UsualEntries, Leads3, Zenon
    <3> QED BY <2>5, <3>1, <3>3, Zenon
  <2>7. Behind(cs)
    BY <2>6, Zenon DEF Behind
  <2>8. Goto(cs)
    BY <1>4, <2>3
  <2> QED BY <1>1, <1>2, <1>4, <2>4, <2>7, <2>8, Reads, Zenon
<1>5. CASE UNCHANGED parser /\ Goto(<< >>)
  <2>1. Here(<< >>)
    BY <1>3, EndsHere, Zenon
  <2> QED BY <1>1, <1>2, <1>5, <2>1, UsualLists, Stays, Zenon
<1> QED BY <1>4, <1>5 DEF binary

\* expression() makes two calls.
LEMMA ExpressionMoves == ASSUME TypeOK, RejectionInv, expression PROVE Moves
<1> DEFINE cs == <<Call("inversion"), Binary(1)>>
<1>1. stack # << >> /\ Head(stack)[1] = "expression" /\ Head(stack)[1] # "leave_block"
  BY DEF expression, On
<1>2. "inversion" \in Whole /\ Call("inversion") \in Usual /\ Binary(1) \in Usual
  <2>1. 1 \in 1 .. 10
    OBVIOUS
  <2> QED BY <2>1, UsualEntries DEF Whole, Plain
<1>3. ASSUME NEW x \in Place, NEW z \in Place, Spans(Head(stack), x, z)
      PROVE  Leads(cs, x, z)
  <2>1. z = Calm(x)
    BY <1>1, <1>3, SpansTable DEF Whole
  <2>2. Leads(cs, x, Calm(x))
    BY <1>2, UsualEntries, Quiet, CalmPlace, Leads2, Zenon
  <2> QED BY <2>1, <2>2, Zenon
<1>4. Here(cs) /\ cs \in Seq(Usual)
  BY <1>2, <1>3, UsualLists, Zenon DEF Here
<1>5. UNCHANGED parser /\ Goto(cs)
  BY DEF expression
<1> QED BY <1>1, <1>4, <1>5, Stays, Zenon

\* assignment_or_expression(), with or without an assignment.
LEMMA AssignmentOrExpressionMoves ==
  ASSUME TypeOK, RejectionInv, assignment_or_expression PROVE Moves
<1>1. /\ Call("primary") \in Usual /\ Call("assignment") \in Usual
      /\ Call("expression") \in Usual /\ Binary(1) \in Usual
  <2>1. 1 \in 1 .. 10
    OBVIOUS
  <2> QED BY <2>1, UsualEntries DEF Plain
<1>2. ASSUME NEW x \in Place
      PROVE  /\ Leads(<<Call("primary"), Call("assignment")>>, x, Calm(x))
             /\ Leads(<<Call("expression")>>, x, Calm(x))
             /\ Leads(<<Binary(1)>>, Calm(x), Calm(x))
  <2>1. "primary" \in Whole /\ "assignment" \in Optional /\ "expression" \in Whole
    BY DEF Whole, Optional
  <2>2. /\ Spans(Call("primary"), x, Calm(x)) /\ Spans(Call("assignment"), Calm(x), Calm(x))
        /\ Spans(Call("expression"), x, Calm(x)) /\ Spans(Binary(1), Calm(x), Calm(x))
    BY <2>1, Quiet, Zenon
  <2> QED BY <1>1, <2>2, UsualEntries, CalmPlace, Leads1, Leads2, Zenon
<1>3. CASE /\ On("assignment_or_expression") /\ UNCHANGED parser
           /\ Goto(IF parser.current \in {"Identifier", "Self"}
                   THEN <<Call("primary"), Call("assignment")>>
                   ELSE <<Call("expression")>>)
  <2>1. /\ stack # << >> /\ Head(stack)[1] = "assignment_or_expression"
        /\ Head(stack)[1] # "leave_block"
    BY <1>3 DEF On
  <2>2. \A x, z \in Place : Spans(Head(stack), x, z) => z = Calm(x)
    BY <2>1, SpansTable DEF Whole
  <2>3. /\ Here(<<Call("primary"), Call("assignment")>>) /\ Here(<<Call("expression")>>)
    BY <1>2, <2>2, Zenon DEF Here
  <2>4. /\ <<Call("primary"), Call("assignment")>> \in Seq(Usual)
        /\ <<Call("expression")>> \in Seq(Usual)
    BY <1>1, UsualLists, Zenon
  <2>5. CASE Goto(<<Call("primary"), Call("assignment")>>)
    BY <1>3, <2>1, <2>3, <2>4, <2>5, Stays, Zenon
  <2>6. CASE Goto(<<Call("expression")>>)
    BY <1>3, <2>1, <2>3, <2>4, <2>6, Stays, Zenon
  <2> QED BY <1>3, <2>5, <2>6
<1>4. CASE On("assignment") /\ parser.current \in AssignOps
           /\ parser' \in Advances(parser) /\ Goto(<<Call("expression")>>)
  <2>1. /\ stack # << >> /\ Head(stack)[1] = "assignment" /\ Head(stack)[1] # "leave_block"
    BY <1>4 DEF On
  <2>2. \A x, z \in Place : Spans(Head(stack), x, z) => ~x.semi /\ z = x
    BY <2>1, SpansTable DEF Optional
  <2>3. \A x \in Place : Passed(x, parser.current) = Calm(x)
    BY <1>4, PassedPlain DEF AssignOps, Closer, Brackets
  <2>4. ASSUME NEW x \in Place, NEW z \in Place, Spans(Head(stack), x, z)
        PROVE  Leads(<<Call("expression")>>, Passed(x, parser.current), z)
    <3>1. ~x.semi /\ z = x
      BY <2>2, <2>4, Zenon
    <3>2. Calm(x) = x
      BY <3>1, CalmPlace, Zenon
    <3> QED BY <1>2, <2>3, <3>1, <3>2, Zenon
  <2>5. Behind(<<Call("expression")>>) /\ <<Call("expression")>> \in Seq(Usual)
    BY <1>1, <2>4, UsualLists, Zenon DEF Behind
  <2> QED BY <1>4, <2>1, <2>5, Reads, Zenon
<1>5. CASE On("assignment") /\ UNCHANGED parser /\ Goto(<<Binary(1)>>)
  <2>1. /\ stack # << >> /\ Head(stack)[1] = "assignment" /\ Head(stack)[1] # "leave_block"
    BY <1>5 DEF On
  <2>2. \A x, z \in Place : Spans(Head(stack), x, z) => ~x.semi /\ z = x
    BY <2>1, SpansTable DEF Optional
  <2>3. ASSUME NEW x \in Place, NEW z \in Place, Spans(Head(stack), x, z)
        PROVE  Leads(<<Binary(1)>>, x, z)
    <3>1. ~x.semi /\ z = x
      BY <2>2, <2>3, Zenon
    <3>2. Calm(x) = x
      BY <3>1, CalmPlace, Zenon
    <3> QED BY <1>2, <3>1, <3>2, Zenon
  <2>4. Here(<<Binary(1)>>) /\ <<Binary(1)>> \in Seq(Usual)
    BY <1>1, <2>3, UsualLists, Zenon DEF Here
  <2> QED BY <1>5, <2>1, <2>4, Stays, Zenon
<1> QED BY <1>3, <1>4, <1>5 DEF assignment_or_expression

\* A step that calls a declaration, with the token that announces it next.
LEMMA Declares ==
  ASSUME TypeOK, stack # << >>, Head(stack)[1] # "leave_block",
         NEW cs \in Seq(Entry), cs # << >>, Tail(cs) \in Seq(Usual),
         Head(cs)[1] \in Prepared, Goto(cs),
         \/ /\ parser' = parser /\ Here(cs) /\ Announces(Head(cs), parser)
         \/ /\ parser' \in Advances(parser) /\ RejectionInv /\ Behind(cs)
            /\ Announces(Head(cs), parser')
  PROVE  Moves
<1>1. CASE /\ parser' = parser /\ Here(cs) /\ Announces(Head(cs), parser)
  <2>1. Announces(Head(cs), parser') /\ parser'.inside_block = parser.inside_block
    BY <1>1, Zenon
  <2>2. Ordinary(cs)
    BY <2>1, Zenon DEF Ordinary
  <2>3. \A x : At(parser', x) <=> At(parser, x)
    BY <1>1, Zenon
  <2>4. Goes(cs)
    BY <1>1, <2>3, Zenon DEF Goes, Here
  <2> QED BY <2>2, <2>4, Zenon DEF Moves
<1>2. CASE /\ parser' \in Advances(parser) /\ RejectionInv /\ Behind(cs)
           /\ Announces(Head(cs), parser')
  <2>1. parser \in ParserState /\ Sound(parser)
    BY <1>2 DEF TypeOK, RejectionInv
  <2>2. /\ parser'.inside_block = parser.inside_block
        /\ ~parser'.had_error =>
             /\ ~parser.had_error
             /\ \A x \in Place : At(parser, x) => At(parser', Passed(x, parser.current))
    BY <1>2, <2>1, AdvancesAt, Zenon
  <2>3. Ordinary(cs)
    BY <1>2, <2>2, Zenon DEF Ordinary
  <2>4. \A x \in Place : Passed(x, parser.current) \in Place
    BY PassedPlace, Zenon
  <2>5. Goes(cs)
    BY <1>2, <2>2, <2>4, Zenon DEF Goes, Behind
  <2> QED BY <2>3, <2>5, Zenon DEF Moves
<1> QED BY <1>1, <1>2, Zenon

\* A declaration in a list of calls.
LEMMA DeclarationLists ==
  /\ \A d \in Entry : /\ <<d>> \in Seq(Entry) /\ <<d>> # << >> /\ Head(<<d>>) = d
                      /\ Tail(<<d>>) \in Seq(Usual)
  /\ \A d \in Entry, e \in Usual :
       /\ <<d, e>> \in Seq(Entry) /\ <<d, e>> # << >> /\ Head(<<d, e>>) = d
       /\ Tail(<<d, e>>) \in Seq(Usual)
<1>1. \A d \in Entry : /\ <<d>> \in Seq(Entry) /\ <<d>> # << >> /\ Head(<<d>>) = d
                       /\ Tail(<<d>>) \in Seq(Usual)
  <2>1. << >> \in Seq(Usual)
    OBVIOUS
  <2>2. \A d \in Entry : <<d>> \in Seq(Entry) /\ <<d>> # << >> /\ Head(<<d>>) = d
    OBVIOUS
  <2>3. \A d \in Entry : Tail(<<d>>) = << >>
    OBVIOUS
  <2> QED BY <2>1, <2>2, <2>3, Zenon
<1>2. \A d \in Entry, e \in Usual :
        /\ <<d, e>> \in Seq(Entry) /\ <<d, e>> # << >> /\ Head(<<d, e>>) = d
        /\ Tail(<<d, e>>) \in Seq(Usual)
  <2>1. \A e \in Usual : e \in Entry /\ <<e>> \in Seq(Usual)
    BY UsualEntries, UsualLists, Zenon
  <2>2. \A d, e \in Entry : <<d, e>> \in Seq(Entry) /\ <<d, e>> # << >> /\ Head(<<d, e>>) = d
    OBVIOUS
  <2>3. \A d, e \in Entry : Tail(<<d, e>>) = <<e>>
    OBVIOUS
  <2> QED BY <2>1, <2>2, <2>3, Zenon
<1> QED BY <1>1, <1>2

\* What may follow in a parameter list, up to the parenthesis that closes it.
LEMMA ParametersLead ==
  ASSUME NEW x \in Place, NEW z \in Place, Closes(x, z, "RightParen")
  PROVE  /\ Passed(x, "RightParen") = z
         /\ \A f \in {"parameters_self", "parameters_loop", "parameters_more",
                      "parameters_end"} :
              /\ f # "parameters_end" => <<Call(f)>> \in Seq(Usual)
              /\ Leads(<<Call(f)>>, x, z) /\ Leads(<<Call(f)>>, Calm(x), z)
         /\ <<Consume("Comma"), Call("parameters_loop")>> \in Seq(Usual)
         /\ Leads(<<Consume("Comma"), Call("parameters_loop")>>, x, z)
<1> DEFINE F == {"parameters_self", "parameters_loop", "parameters_more", "parameters_end"}
<1>1. "RightParen" \in Brackets /\ "Comma" \in Words /\ "parameters_loop" \in F
  BY DEF Brackets, Words
<1>2. Passed(x, "RightParen") = z /\ Closes(Calm(x), z, "RightParen") /\ Calm(x) \in Place
  BY <1>1, ClosesPlace, CalmPlace, Zenon
<1>3. \A f \in F : Call(f) \in Entry /\ (f # "parameters_end" => Call(f) \in Usual)
  BY Entries, UsualEntries DEF Plain
<1>4. Consume("Comma") \in Usual /\ "parameters_loop" # "parameters_end"
  BY UsualEntries, TokenNames
<1>5. \A f \in F : Spans(Call(f), x, z) /\ Spans(Call(f), Calm(x), z)
  BY <1>2, SpansCalls, Zenon
<1>6. Spans(Consume("Comma"), x, Calm(x))
  BY <1>1, Quiet, Zenon
<1>7. \A f \in F : /\ f # "parameters_end" => <<Call(f)>> \in Seq(Usual)
                   /\ Leads(<<Call(f)>>, x, z) /\ Leads(<<Call(f)>>, Calm(x), z)
  BY <1>2, <1>3, <1>5, UsualEntries, UsualLists, Leads1, Zenon
<1> HIDE DEF F
<1>8. /\ <<Consume("Comma"), Call("parameters_loop")>> \in Seq(Usual)
      /\ Leads(<<Consume("Comma"), Call("parameters_loop")>>, x, z)
  BY <1>1, <1>2, <1>3, <1>4, <1>5, <1>6, UsualEntries, UsualLists, Leads2, Zenon
<1> QED BY <1>2, <1>3, <1>7, <1>8, Zenon DEF F

\* All of them at once, for a parser that is in a parameter list.
LEMMA ParametersHere ==
  ASSUME \A x, z \in Place : Spans(Head(stack), x, z) => Closes(x, z, "RightParen")
  PROVE  /\ parser.current = "RightParen" => Behind(<< >>)
         /\ \A f \in {"parameters_self", "parameters_loop", "parameters_more",
                      "parameters_end"} :
              /\ f # "parameters_end" => <<Call(f)>> \in Seq(Usual)
              /\ Here(<<Call(f)>>)
              /\ parser.current \in {"Identifier", "Self", "Ellipsis"} => Behind(<<Call(f)>>)
         /\ <<Consume("Comma"), Call("parameters_loop")>> \in Seq(Usual)
         /\ Here(<<Consume("Comma"), Call("parameters_loop")>>)
<1> DEFINE F == {"parameters_self", "parameters_loop", "parameters_more", "parameters_end"}
           more == <<Consume("Comma"), Call("parameters_loop")>>
<1>1. parser.current = "RightParen" => Behind(<< >>)
  BY ClosedBehind DEF Brackets
<1>2. /\ \A f \in F : f # "parameters_end" => <<Call(f)>> \in Seq(Usual)
      /\ more \in Seq(Usual)
  <2>1. \A f \in F : f # "parameters_end" => Call(f) \in Usual
    BY UsualEntries DEF Plain
  <2>2. /\ Consume("Comma") \in Usual /\ "parameters_loop" \in F
        /\ "parameters_loop" # "parameters_end"
    BY UsualEntries, TokenNames
  <2> QED BY <2>1, <2>2, UsualLists, Zenon
<1>3. (\A f \in F : Here(<<Call(f)>>)) /\ Here(more)
  BY ParametersLead, Zenon DEF Here
<1>4. ASSUME parser.current \in {"Identifier", "Self", "Ellipsis"}, NEW f \in F
      PROVE  Behind(<<Call(f)>>)
  <2>1. \A x \in Place : Passed(x, parser.current) = Calm(x)
    BY <1>4, PassedPlain DEF Closer, Brackets
  <2>2. ASSUME NEW x \in Place, NEW z \in Place, Spans(Head(stack), x, z)
        PROVE  Leads(<<Call(f)>>, Passed(x, parser.current), z)
    <3>1. Leads(<<Call(f)>>, Calm(x), z)
      BY <2>2, ParametersLead, Zenon
    <3> QED BY <2>1, <3>1, Zenon
  <2> QED BY <2>2, Zenon DEF Behind
<1> QED BY <1>1, <1>2, <1>3, <1>4, Zenon

\* parameters() in front of a parameter and behind one.
LEMMA ParametersMoves == ASSUME TypeOK, RejectionInv, parameters PROVE Moves
<1>1. /\ stack # << >> /\ Head(stack)[1] # "leave_block"
      /\ Head(stack)[1] \in {"parameters", "parameters_self", "parameters_more"}
  BY DEF parameters, On
<1>2. \A x, z \in Place : Spans(Head(stack), x, z) => Closes(x, z, "RightParen")
  BY <1>1, SpansTable
<1> DEFINE more == <<Consume("Comma"), Call("parameters_loop")>>
<1>3. /\ parser.current = "RightParen" => Behind(<< >>)
      /\ \A f \in {"parameters_self", "parameters_loop", "parameters_more"} :
           /\ <<Call(f)>> \in Seq(Usual) /\ Here(<<Call(f)>>)
           /\ parser.current = "Self" => Behind(<<Call(f)>>)
      /\ more \in Seq(Usual) /\ Here(more)
  BY <1>2, ParametersHere
<1>4. << >> \in Seq(Usual)
  OBVIOUS
<1>5. CASE Match("RightParen", << >>,
                 <<Call(IF Arg THEN "parameters_self" ELSE "parameters_loop")>>)
  <2> DEFINE f == IF Arg THEN "parameters_self" ELSE "parameters_loop"
  <2>1. f \in {"parameters_self", "parameters_loop", "parameters_more"}
    OBVIOUS
  <2>2. Match("RightParen", << >>, <<Call(f)>>)
    BY <1>5
  <2> HIDE DEF f
  <2> QED BY <1>1, <1>3, <1>4, <2>1, <2>2, Matches, Zenon
<1>6. CASE Match("Self", <<Call("parameters_more")>>, <<Call("parameters_loop")>>)
  BY <1>1, <1>3, <1>6, Matches
<1>7. CASE Match("RightParen", << >>, more)
  BY <1>1, <1>3, <1>4, <1>7, Matches, Zenon
<1> QED BY <1>5, <1>6, <1>7 DEF parameters

\* The next parameter, or "...".
LEMMA ParametersLoopMoves == ASSUME TypeOK, RejectionInv, parameters_loop PROVE Moves
<1>1. /\ stack # << >> /\ Head(stack)[1] = "parameters_loop"
      /\ Head(stack)[1] # "leave_block"
  BY DEF parameters_loop, On
<1>2. \A x, z \in Place : Spans(Head(stack), x, z) => Closes(x, z, "RightParen")
  BY <1>1, SpansTable
<1>3. parser \in ParserState /\ Sound(parser) /\ << >> \in Seq(Usual)
  BY DEF TypeOK, RejectionInv
<1>4. CASE parser' = Incomplete(parser) /\ Goto(<< >>)
  BY <1>1, <1>3, <1>4, Flags, RunsOut, Zenon
<1>5. CASE /\ parser.current = "Identifier" /\ parser' \in Advances(parser)
           /\ Goto(<<Call("parameters_more")>>)
  <2>1. /\ <<Call("parameters_more")>> \in Seq(Usual)
        /\ Behind(<<Call("parameters_more")>>)
    BY <1>2, <1>5, ParametersHere
  <2> QED BY <1>1, <1>5, <2>1, Reads, Zenon
<1>6. CASE /\ parser.current = "Ellipsis" /\ parser' \in Advances(parser)
           /\ Goto(<<Call("parameters_end")>>)
  <2> DEFINE d == Call("parameters_end")
  <2>1. Behind(<<d>>)
    BY <1>2, <1>6, ParametersHere
  <2>2. d \in Entry /\ d[1] = "parameters_end"
    BY Entries DEF Plain, Call
  <2> HIDE DEF d
  <2>3. /\ <<d>> \in Seq(Entry) /\ <<d>> # << >> /\ Head(<<d>>) = d
        /\ Tail(<<d>>) \in Seq(Usual)
    BY <2>2, DeclarationLists, Zenon
  <2>4. parser'.previous = "Ellipsis"
    BY <1>3, <1>6, AdvancesAt
  <2>5. d[1] \in Prepared /\ Announces(d, parser')
    BY <2>2, <2>4 DEF Prepared, Announces
  <2>6. Goto(<<d>>)
    BY <1>6 DEF d
  <2> QED BY <1>1, <1>6, <2>1, <2>3, <2>5, <2>6, Declares, Zenon
<1>7. CASE parser' = ErrorAt(parser) /\ Goto(<< >>)
  BY <1>1, <1>3, <1>7, Flags, Fails, Zenon
<1> QED BY <1>4, <1>5, <1>6, <1>7 DEF parameters_loop

\* Behind "...".
LEMMA ParametersEndMoves == ASSUME TypeOK, RejectionInv, parameters_end PROVE Moves
<1>1. /\ stack # << >> /\ Head(stack)[1] = "parameters_end"
      /\ Head(stack)[1] # "leave_block" /\ Goto(<< >>)
  BY DEF parameters_end, On
<1>2. \A x, z \in Place : Spans(Head(stack), x, z) => Closes(x, z, "RightParen")
  BY <1>1, SpansTable
<1>3. parser \in ParserState /\ Sound(parser) /\ << >> \in Seq(Usual)
  BY DEF TypeOK, RejectionInv
<1>4. CASE parser.current = "RightParen" /\ parser' \in Advances(parser)
  <2>1. Behind(<< >>)
    BY <1>2, <1>4, ParametersHere
  <2> QED BY <1>1, <1>3, <1>4, <2>1, Reads, Zenon
<1>5. CASE parser' = ErrorAt(parser)
  BY <1>1, <1>3, <1>5, Flags, Fails, Zenon
<1> QED BY <1>4, <1>5 DEF parameters_end

\* let_declaration() and its initial value.
LEMMA LetDeclarationMoves == ASSUME TypeOK, RejectionInv, let_declaration PROVE Moves
<1>1. parser \in ParserState /\ Sound(parser)
  BY DEF TypeOK, RejectionInv
<1>2. CASE /\ On("let_declaration")
           /\ parser' = IF Arg /\ parser.inside_block THEN ErrorAt(parser) ELSE parser
           /\ Goto(<<Consume("Let"), Consume("Identifier"), Call("let_init")>>)
  <2> DEFINE cs == <<Consume("Let"), Consume("Identifier"), Call("let_init")>>
  <2>1. /\ stack # << >> /\ Head(stack)[1] = "let_declaration"
        /\ Head(stack)[1] # "leave_block"
    BY <1>2 DEF On
  <2>2. /\ Consume("Let") \in Usual /\ Consume("Identifier") \in Usual
        /\ Call("let_init") \in Usual
    BY UsualEntries, TokenNames DEF Plain
  <2>3. ASSUME NEW x \in Place PROVE Leads(cs, x, Calm(x))
    <3>1. "Let" \in Words /\ "Identifier" \in Words /\ "let_init" \in Optional
      BY DEF Words, Optional
    <3>2. /\ Spans(Consume("Let"), x, Calm(x)) /\ Spans(Consume("Identifier"), Calm(x), Calm(x))
          /\ Spans(Call("let_init"), Calm(x), Calm(x))
      BY <3>1, Quiet, Zenon
    <3> QED BY <2>2, <3>2, UsualEntries, CalmPlace, Leads3, Zenon
  <2>4. \A x, z \in Place : Spans(Head(stack), x, z) => z = Calm(x)
    BY <2>1, SpansTable DEF Whole
  <2>5. Here(cs) /\ cs \in Seq(Usual)
    BY <2>2, <2>3, <2>4, UsualLists, Zenon DEF Here
  <2>6. CASE parser' = parser
    BY <1>2, <2>1, <2>5, <2>6, Stays, Zenon
  <2>7. CASE parser' = ErrorAt(parser)
    BY <1>1, <1>2, <2>1, <2>5, <2>7, Flags, Fails, Zenon
  <2> QED BY <1>2, <2>6, <2>7
<1>3. CASE On("let_init") /\ Match("Assign", <<Call("expression")>>, << >>)
  <2>1. stack # << >> /\ Head(stack)[1] = "let_init" /\ Head(stack)[1] # "leave_block"
    BY <1>3 DEF On
  <2>2. \A x, z \in Place : Spans(Head(stack), x, z) => ~x.semi /\ z = x
    BY <2>1, SpansTable DEF Optional
  <2>3. Here(<< >>)
    BY <2>2, EndsHere, Zenon
  <2>4. Call("expression") \in Usual /\ <<Call("expression")>> \in Seq(Usual)
        /\ "expression" \in Whole
    BY UsualEntries, UsualLists DEF Plain, Whole
  <2>5. ASSUME parser.current = "Assign", NEW x \in Place, NEW z \in Place,
               Spans(Head(stack), x, z)
        PROVE  Leads(<<Call("expression")>>, Passed(x, parser.current), z)
    <3>1. ~x.semi /\ z = x
      BY <2>2, <2>5, Zenon
    <3>2. Calm(x) = x
      BY <3>1, CalmPlace, Zenon
    <3>3. Passed(x, parser.current) = Calm(x)
      BY <2>5, PassedPlain DEF Closer, Brackets
    <3>4. Leads(<<Call("expression")>>, x, x)
      BY <2>4, <3>2, Quiet, UsualEntries, Leads1, Zenon
    <3> QED BY <3>1, <3>2, <3>3, <3>4, Zenon
  <2>6. parser.current = "Assign" => Behind(<<Call("expression")>>)
    BY <2>5, Zenon DEF Behind
  <2> QED BY <1>3, <2>1, <2>3, <2>4, <2>6, UsualLists, Matches, Zenon
<1> QED BY <1>2, <1>3 DEF let_declaration

\* The head of a function or of a method, and its body.
LEMMA FunctionLeads ==
  ASSUME NEW x \in Place, NEW self \in BOOLEAN
  PROVE  /\ <<Consume("Fn"), Consume("Identifier"), Consume("LeftParen"),
              Parameters(self), Call("block_statement")>> \in Seq(Usual)
         /\ Leads(<<Consume("Fn"), Consume("Identifier"), Consume("LeftParen"),
                    Parameters(self), Call("block_statement")>>, x, Calm(x))
<1> DEFINE cs == <<Consume("Fn"), Consume("Identifier"), Consume("LeftParen"),
                   Parameters(self), Call("block_statement")>>
           v == Push(x, "RightParen")
<1>1. /\ Consume("Fn") \in Usual /\ Consume("Identifier") \in Usual
      /\ Consume("LeftParen") \in Usual /\ Parameters(self) \in Usual
      /\ Call("block_statement") \in Usual
  BY UsualEntries, TokenNames DEF Plain
<1>2. /\ "Fn" \in Words /\ "Identifier" \in Words /\ "block_statement" \in Whole
      /\ "RightParen" \in Brackets
  BY DEF Words, Whole, Brackets
<1>3. /\ Spans(Consume("Fn"), x, Calm(x)) /\ Spans(Consume("Identifier"), Calm(x), Calm(x))
      /\ Spans(Call("block_statement"), Calm(x), Calm(x))
  BY <1>2, Quiet, Zenon
<1>4. v \in Place /\ Closes(v, Calm(x), "RightParen") /\ Calm(x) \in Place
      /\ Push(Calm(x), "RightParen") = v
  <2>1. /\ Push(x, "RightParen") \in Place
        /\ Closes(Push(x, "RightParen"), Calm(x), "RightParen")
        /\ Push(Calm(x), "RightParen") = Push(x, "RightParen")
    BY <1>2, Bracketed
  <2> QED BY <2>1, CalmPlace
<1>5. Spans(Consume("LeftParen"), Calm(x), v)
  <2>1. Spans(Consume("LeftParen"), Calm(x), Push(Calm(x), "RightParen"))
    BY <1>4, Bracketed, Zenon
  <2> QED BY <1>4, <2>1, Zenon
<1>6. Spans(Parameters(self), v, Calm(x))
  BY <1>4, SpansCalls, Zenon
<1>7. Leads(cs, x, Calm(x))
  BY <1>1, <1>3, <1>4, <1>5, <1>6, UsualEntries, Leads5, Zenon
<1>8. cs \in Seq(Usual)
  BY <1>1, UsualLists, Zenon
<1> QED BY <1>7, <1>8

\* function_declaration(), of a function or a method.
LEMMA FunctionDeclarationMoves ==
  ASSUME TypeOK, RejectionInv, function_declaration PROVE Moves
<1> DEFINE cs == <<Consume("Fn"), Consume("Identifier"), Consume("LeftParen"),
                   Parameters(Head(stack)[3]), Call("block_statement")>>
<1>1. /\ stack # << >> /\ Head(stack)[1] = "function_declaration" /\ Head(stack) \in Entry
      /\ Head(stack)[1] # "leave_block" /\ Goto(cs)
  BY DEF function_declaration, On, TypeOK
<1>2. Head(stack)[3] \in BOOLEAN
  BY <1>1, Arguments
<1>3. \A x \in Place : cs \in Seq(Usual) /\ Leads(cs, x, Calm(x))
  BY <1>2, FunctionLeads, Zenon
<1>4. cs \in Seq(Usual)
  <2>1. [closers |-> << >>, inside |-> FALSE, semi |-> FALSE] \in Place
    BY DEF Place
  <2> QED BY <1>3, <2>1, Zenon
<1>5. \A x, z \in Place : Spans(Head(stack), x, z) => z = Calm(x)
  BY <1>1, SpansTable, Zenon
<1>6. Here(cs)
  BY <1>3, <1>5, Zenon DEF Here
<1>7. parser \in ParserState /\ Sound(parser)
  BY DEF TypeOK, RejectionInv
<1>8. CASE parser' = parser
  BY <1>1, <1>4, <1>6, <1>8, Stays, Zenon
<1>9. CASE parser' = ErrorAt(parser)
  BY <1>1, <1>4, <1>7, <1>9, Flags, Fails, Zenon
<1> QED BY <1>8, <1>9 DEF function_declaration

\* struct_declaration() up to its body.
LEMMA StructDeclarationMoves == ASSUME TypeOK, RejectionInv, struct_declaration PROVE Moves
<1>1. parser \in ParserState /\ Sound(parser)
  BY DEF TypeOK, RejectionInv
<1>2. /\ Consume("Struct") \in Usual /\ Consume("Identifier") \in Usual
      /\ Consume("LeftCurBr") \in Usual /\ Call("struct_parent") \in Usual
      /\ Call("struct_body") \in Usual
  BY UsualEntries, TokenNames DEF Plain
<1>3. "Struct" \in Words /\ "Identifier" \in Words /\ "RightCurBr" \in Brackets
  BY DEF Words, Brackets
<1>4. CASE /\ On("struct_declaration")
           /\ parser' = IF parser.inside_block THEN ErrorAt(parser) ELSE parser
           /\ Goto(<<Consume("Struct"), Consume("Identifier"), Call("struct_parent")>>)
  <2> DEFINE cs == <<Consume("Struct"), Consume("Identifier"), Call("struct_parent")>>
  <2>1. /\ stack # << >> /\ Head(stack)[1] = "struct_declaration"
        /\ Head(stack)[1] # "leave_block"
    BY <1>4 DEF On
  <2>2. cs \in Seq(Usual)
    BY <1>2, UsualLists, Zenon
  <2>3. ASSUME ~parser.inside_block, NEW x \in Place, NEW z \in Place, At(parser, x),
               Spans(Head(stack), x, z)
        PROVE  Leads(cs, x, z)
    <3>1. z = Calm(x)
      BY <2>1, <2>3, SpansTable DEF Whole
    <3>2. Calm(x) \in Place /\ ~Calm(x).inside /\ Calm(Calm(x)) = Calm(x)
      <4>1. ~x.inside
        BY <2>3 DEF At
      <4> QED BY <4>1, CalmPlace
    <3>3. Spans(Call("struct_parent"), Calm(x), Calm(x))
      BY <3>2, SpansCalls, Zenon
    <3>4. Spans(Consume("Struct"), x, Calm(x)) /\ Spans(Consume("Identifier"), Calm(x), Calm(x))
      BY <1>3, Quiet, Zenon
    <3>5. Leads(cs, x, Calm(x))
      BY <1>2, <3>2, <3>3, <3>4, UsualEntries, Leads3, Zenon
    <3> QED BY <3>1, <3>5, Zenon
  <2>4. CASE ~parser.inside_block /\ parser' = parser
    <3>1. Here(cs)
      BY <2>3, <2>4, Zenon DEF Here
    <3> QED BY <1>4, <2>1, <2>2, <2>4, <3>1, Stays, Zenon
  <2>5. CASE parser' = ErrorAt(parser)
    BY <1>1, <1>4, <2>1, <2>2, <2>5, Flags, Fails, Zenon
  <2> QED BY <1>4, <2>4, <2>5
<1>5. CASE /\ On("struct_parent")
           /\ Match("Colon",
                    <<Consume("Identifier"), Consume("LeftCurBr"), Call("struct_body")>>,
                    <<Consume("LeftCurBr"), Call("struct_body")>>)
  <2> DEFINE found == <<Consume("Identifier"), Consume("LeftCurBr"), Call("struct_body")>>
             missing == <<Consume("LeftCurBr"), Call("struct_body")>>
  <2>1. /\ stack # << >> /\ Head(stack)[1] = "struct_parent"
        /\ Head(stack)[1] # "leave_block"
    BY <1>5 DEF On
  <2>2. found \in Seq(Usual) /\ missing \in Seq(Usual)
    BY <1>2, UsualLists, Zenon
  <2>3. ASSUME NEW x \in Place, NEW z \in Place, Spans(Head(stack), x, z)
        PROVE  Leads(missing, x, z) /\ Leads(found, Calm(x), z)
    <3> DEFINE v == Push(x, "RightCurBr")
    <3>1. ~x.inside /\ z = Calm(x)
      BY <2>1, <2>3, SpansTable
    <3>2. v \in Place /\ ~v.inside /\ Closes(v, Calm(x), "RightCurBr")
          /\ Push(Calm(x), "RightCurBr") = v /\ Spans(Consume("LeftCurBr"), x, v)
      <4>1. /\ Push(x, "RightCurBr") \in Place
            /\ Push(x, "RightCurBr").inside = x.inside
            /\ Closes(Push(x, "RightCurBr"), Calm(x), "RightCurBr")
            /\ Push(Calm(x), "RightCurBr") = Push(x, "RightCurBr")
            /\ Spans(Consume("LeftCurBr"), x, Push(x, "RightCurBr"))
        BY <1>3, Bracketed
      <4> QED BY <3>1, <4>1
    <3> HIDE DEF v
    <3>3. Spans(Call("struct_body"), v, Calm(x))
      BY <3>2, SpansCalls, Zenon
    <3>4. Calm(x) \in Place
      BY CalmPlace, Zenon
    <3>5. Spans(Consume("LeftCurBr"), Calm(x), v)
      <4>1. Spans(Consume("LeftCurBr"), Calm(x), Push(Calm(x), "RightCurBr"))
        BY <3>4, Bracketed, Zenon
      <4> QED BY <3>2, <4>1, Zenon
    <3>6. Spans(Consume("Identifier"), Calm(x), Calm(x))
      BY <1>3, Quiet, Zenon
    <3>7. Leads(missing, x, Calm(x))
      BY <1>2, <3>2, <3>3, <3>4, UsualEntries, Leads2, Zenon
    <3>8. Leads(found, Calm(x), Calm(x))
      BY <1>2, <3>2, <3>3, <3>4, <3>5, <3>6, UsualEntries, Leads3, Zenon
    <3> QED BY <3>1, <3>7, <3>8, Zenon
  <2>4. Here(missing)
    BY <2>3, Zenon DEF Here
  <2>5. parser.current = "Colon" => Behind(found)
    <3>1. \A x \in Place : Passed(x, "Colon") = Calm(x)
      BY PassedPlain DEF Closer, Brackets
    <3> QED BY <2>3, <3>1, Zenon DEF Behind
  <2> QED BY <1>5, <2>1, <2>2, <2>4, <2>5, Matches, Zenon
<1> QED BY <1>4, <1>5 DEF struct_declaration

\* The members of a struct.
LEMMA StructBodyMoves == ASSUME TypeOK, RejectionInv, struct_body PROVE Moves
<1>1. stack # << >> /\ Head(stack)[1] = "struct_body" /\ Head(stack)[1] # "leave_block"
  BY DEF struct_body, On
<1>2. Call("struct_body") \in Usual /\ "RightCurBr" \in Brackets
  BY UsualEntries DEF Plain, Brackets
<1>3. \A x, z \in Place : Spans(Head(stack), x, z) => ~x.inside /\ Closes(x, z, "RightCurBr")
  BY <1>1, SpansTable
<1>4. ASSUME NEW b \in BOOLEAN
      PROVE  LET cs == <<FunctionDeclaration(b, TRUE), Call("struct_body")>>
             IN  /\ cs \in Seq(Entry) /\ cs # << >> /\ Tail(cs) \in Seq(Usual)
                 /\ Head(cs)[1] \in Prepared
                 /\ \A t : Announces(Head(cs), t)
                 /\ \A x, z \in Place : Spans(Head(stack), x, z)
                                          => Leads(cs, x, z) /\ Leads(cs, Calm(x), z)
  <2> DEFINE d  == FunctionDeclaration(b, TRUE)
             cs == <<d, Call("struct_body")>>
  <2>1. d \in Entry /\ d[1] = "function_declaration" /\ d[3] = TRUE
    <3>1. d \in Entry
      BY Entries, Zenon
    <3> QED BY <3>1 DEF FunctionDeclaration
  <2>2. ASSUME NEW x \in Place, NEW z \in Place, ~x.inside, Closes(x, z, "RightCurBr")
        PROVE  Leads(cs, x, z)
    <3>1. Calm(x) \in Place /\ ~Calm(x).inside /\ Closes(Calm(x), z, "RightCurBr")
      BY <1>2, <2>2, CalmPlace, ClosesPlace
    <3>2. Spans(d, x, Calm(x))
      BY <2>2, SpansCalls, Zenon
    <3>3. Spans(Call("struct_body"), Calm(x), z)
      BY <3>1, SpansCalls, Zenon
    <3> QED BY <1>2, <2>1, <3>1, <3>2, <3>3, UsualEntries, Leads2, Zenon
  <2> HIDE DEF d
  <2>3. \A x, z \in Place : Spans(Head(stack), x, z) => Leads(cs, x, z) /\ Leads(cs, Calm(x), z)
    <3> SUFFICES ASSUME NEW x \in Place, NEW z \in Place, Spans(Head(stack), x, z)
                 PROVE  Leads(cs, x, z) /\ Leads(cs, Calm(x), z)
      OBVIOUS
    <3>1. ~x.inside /\ Closes(x, z, "RightCurBr")
      BY <1>3
    <3>2. Calm(x) \in Place /\ ~Calm(x).inside /\ Closes(Calm(x), z, "RightCurBr")
      BY <1>2, <3>1, CalmPlace, ClosesPlace
    <3> QED BY <2>2, <3>1, <3>2, Zenon
  <2>4. /\ cs \in Seq(Entry) /\ cs # << >> /\ Head(cs) = d /\ Tail(cs) \in Seq(Usual)
    BY <1>2, <2>1, DeclarationLists, Zenon
  <2>5. Head(cs)[1] \in Prepared /\ \A t : Announces(Head(cs), t)
    BY <2>1, <2>4 DEF Prepared, Announces
  <2> QED BY <2>3, <2>4, <2>5 DEF d
<1>5. CASE /\ parser.current = "Pub" /\ parser' \in Advances(parser)
           /\ Goto(<<FunctionDeclaration(TRUE, TRUE), Call("struct_body")>>)
  <2> DEFINE cs == <<FunctionDeclaration(TRUE, TRUE), Call("struct_body")>>
  <2>1. /\ cs \in Seq(Entry) /\ cs # << >> /\ Tail(cs) \in Seq(Usual)
        /\ Head(cs)[1] \in Prepared /\ Announces(Head(cs), parser')
        /\ \A x, z \in Place : Spans(Head(stack), x, z) => Leads(cs, Calm(x), z)
    BY <1>4, Zenon
  <2>2. \A x \in Place : Passed(x, "Pub") = Calm(x)
    BY PassedPlain DEF Closer, Brackets
  <2>3. Behind(cs)
    BY <1>5, <2>1, <2>2, Zenon DEF Behind
  <2> QED BY <1>1, <1>5, <2>1, <2>3, Declares, Zenon
<1>6. CASE Until("RightCurBr", <<FunctionDeclaration(FALSE, TRUE), Call("struct_body")>>)
  <2> DEFINE cs == <<FunctionDeclaration(FALSE, TRUE), Call("struct_body")>>
  <2>1. /\ cs \in Seq(Entry) /\ cs # << >> /\ Tail(cs) \in Seq(Usual)
        /\ Head(cs)[1] \in Prepared /\ Announces(Head(cs), parser)
        /\ \A x, z \in Place : Spans(Head(stack), x, z) => Leads(cs, x, z)
    BY <1>4, Zenon
  <2>2. Here(cs)
    BY <2>1, Zenon DEF Here
  <2>3. parser.current = "RightCurBr" => Behind(<< >>)
    BY <1>2, <1>3, ClosedBehind, Zenon
  <2>4. CASE /\ parser.current = "RightCurBr" /\ parser' \in Advances(parser)
             /\ Goto(<< >>)
    BY <1>1, <2>3, <2>4, UsualLists, Reads, Zenon
  <2>5. CASE parser' = Incomplete(parser) /\ Goto(<< >>)
    <3>1. parser \in ParserState /\ Sound(parser)
      BY DEF TypeOK, RejectionInv
    <3> QED BY <1>1, <2>5, <3>1, Flags, RunsOut, Zenon
  <2>6. CASE UNCHANGED parser /\ Goto(cs)
    BY <1>1, <2>1, <2>2, <2>6, Declares, Zenon
  <2> QED BY <1>6, <2>4, <2>5, <2>6 DEF Until
<1> QED BY <1>5, <1>6 DEF struct_body

\* declaration() calls the declaration its token announces.
LEMMA DeclarationMoves == ASSUME TypeOK, RejectionInv, declaration PROVE Moves
<1>1. /\ stack # << >> /\ Head(stack)[1] = "declaration" /\ Head(stack)[1] # "leave_block"
      /\ Head(stack) \in Entry
  BY DEF declaration, On, TypeOK
<1>2. Arg \in BOOLEAN
  BY <1>1, Arguments DEF Arg
<1>3. \A x, z \in Place : Spans(Head(stack), x, z) => z = Calm(x)
  BY <1>1, SpansTable DEF Whole
<1>4. ASSUME NEW d \in Entry, d[1] \in Prepared, Announces(d, parser),
             \A x \in Place : Spans(d, x, Calm(x)), UNCHANGED parser, Goto(<<d>>)
      PROVE  Moves
  <2>1. \A x \in Place : Leads(<<d>>, x, Calm(x))
    BY <1>4, CalmPlace, Leads1, Zenon
  <2>2. Here(<<d>>)
    BY <1>3, <2>1, Zenon DEF Here
  <2>3. /\ <<d>> \in Seq(Entry) /\ <<d>> # << >> /\ Head(<<d>>) = d
        /\ Tail(<<d>>) \in Seq(Usual)
    BY DeclarationLists, Zenon
  <2> QED BY <1>1, <1>4, <2>2, <2>3, Declares, Zenon
<1>5. CASE /\ parser.current \in DOMAIN DeclarationCalls(Arg) /\ UNCHANGED parser
           /\ Goto(DeclarationCalls(Arg)[parser.current])
  <2>1. CASE parser.current = "Fn"
    <3> DEFINE d == FunctionDeclaration(Arg, FALSE)
    <3>1. Goto(<<d>>)
      BY <1>5, <2>1 DEF DeclarationCalls
    <3>2. d \in Entry
      BY <1>2, Entries, Zenon
    <3>3. d[1] \in Prepared /\ Announces(d, parser)
      BY <2>1 DEF Prepared, Announces, FunctionDeclaration
    <3>4. \A x \in Place : Spans(d, x, Calm(x))
      BY SpansCalls, Zenon
    <3> QED BY <1>4, <1>5, <3>1, <3>2, <3>3, <3>4, Zenon
  <2>2. CASE parser.current = "Struct"
    <3> DEFINE d == Call("struct_declaration")
    <3>1. Goto(<<d>>)
      BY <1>5, <2>2 DEF DeclarationCalls
    <3>2. d \in Entry
      BY Entries DEF Plain
    <3>3. d[1] \in Prepared /\ Announces(d, parser)
      BY <2>2 DEF Prepared, Announces, Call
    <3>4. \A x \in Place : Spans(d, x, Calm(x))
      BY Quiet DEF Whole
    <3> QED BY <1>4, <1>5, <3>1, <3>2, <3>3, <3>4, Zenon
  <2>3. CASE parser.current = "Let"
    <3> DEFINE d == LetDeclaration(Arg)
    <3>1. Goto(<<d>>)
      BY <1>5, <2>3 DEF DeclarationCalls
    <3>2. d \in Entry
      BY <1>2, Entries, Zenon
    <3>3. d[1] \in Prepared /\ Announces(d, parser)
      BY <2>3 DEF Prepared, Announces, LetDeclaration
    <3>4. \A x \in Place : Spans(d, x, Calm(x))
      BY Quiet, Zenon
    <3> QED BY <1>4, <1>5, <3>1, <3>2, <3>3, <3>4, Zenon
  <2> QED BY <1>5, <2>1, <2>2, <2>3 DEF DeclarationCalls
<1>6. CASE /\ parser' = IF parser.current = "EOF" THEN Incomplete(parser) ELSE ErrorAt(parser)
           /\ Goto(<< >>)
  <2>1. parser \in ParserState /\ Sound(parser)
    BY DEF TypeOK, RejectionInv
  <2>2. CASE parser' = Incomplete(parser)
    BY <1>1, <1>6, <2>1, <2>2, Flags, RunsOut, Zenon
  <2>3. CASE parser' = ErrorAt(parser)
    BY <1>1, <1>6, <2>1, <2>3, UsualLists, Flags, Fails, Zenon
  <2> QED BY <1>6, <2>2, <2>3
<1> QED BY <1>5, <1>6 DEF declaration

\* A statement list that is over here is over behind any statement in it.
LEMMA ListPlace ==
  ASSUME NEW x \in Place, NEW z \in Place
  PROVE  /\ ListDone(x, z) => /\ ListDone(Calm(x), z)
                              /\ \A b : Spans(StatementEnd(b), Calm(x), z)
         /\ x.inside => ListDone(Push(x, "RightCurBr"), Calm(x))
         /\ ~x.inside => ListDone(x, Calm(x))
<1>1. "RightCurBr" \in Brackets /\ "RightCurBr" \in TokenType
  BY TokenNames DEF Brackets
<1>2. Calm(x) \in Place /\ Calm(x).inside = x.inside /\ Calm(Calm(x)) = Calm(x)
      /\ Calm(x).semi = FALSE
  BY CalmPlace, Zenon
<1>3. ASSUME ListDone(x, z) PROVE ListDone(Calm(x), z)
  <2>1. CASE x.inside
    <3>1. Closes(x, z, "RightCurBr")
      BY <1>3, <2>1 DEF ListDone
    <3>2. Closes(Calm(x), z, "RightCurBr")
      BY <1>1, <3>1, ClosesPlace, Zenon
    <3> QED BY <1>2, <2>1, <3>2 DEF ListDone
  <2>2. CASE ~x.inside
    BY <1>2, <1>3, <2>2 DEF ListDone
  <2> QED BY <2>1, <2>2
<1>4. ASSUME ListDone(x, z), NEW b PROVE Spans(StatementEnd(b), Calm(x), z)
  <2>1. ~Calm(x).semi
    BY <1>2
  <2> QED BY <1>3, <1>4, <2>1, SpansCalls, Zenon
<1>5. ASSUME x.inside PROVE ListDone(Push(x, "RightCurBr"), Calm(x))
  <2>1. /\ Push(x, "RightCurBr").inside
        /\ Closes(Push(x, "RightCurBr"), Calm(x), "RightCurBr")
    BY <1>1, <1>5, Bracketed
  <2> QED BY <2>1 DEF ListDone
<1>6. ~x.inside => ListDone(x, Calm(x))
  BY DEF ListDone
<1> QED BY <1>3, <1>4, <1>5, <1>6, Zenon

\* statement_list() in a block and outside.
LEMMA StatementListMoves == ASSUME TypeOK, RejectionInv, statement_list PROVE Moves
<1>1. /\ stack # << >> /\ Head(stack)[1] = "statement_list"
      /\ Head(stack)[1] # "leave_block" /\ UNCHANGED parser
  BY DEF statement_list, On
<1>2. Consume("LeftCurBr") \in Usual /\ Statements(FALSE) \in Usual
  BY UsualEntries, TokenNames
<1>3. \A x, z \in Place : Spans(Head(stack), x, z) => z = Calm(x)
  BY <1>1, SpansTable DEF Whole
<1>4. CASE parser.inside_block
  <2> DEFINE cs == <<Consume("LeftCurBr"), Statements(FALSE)>>
  <2>1. Goto(cs)
    BY <1>4 DEF statement_list
  <2>2. cs \in Seq(Usual)
    BY <1>2, UsualLists, Zenon
  <2>3. ASSUME NEW x \in Place, NEW z \in Place, At(parser, x), Spans(Head(stack), x, z)
        PROVE  Leads(cs, x, z)
    <3> DEFINE v == Push(x, "RightCurBr")
    <3>1. x.inside
      BY <1>4, <2>3 DEF At
    <3>2. v \in Place /\ v.semi = FALSE /\ ListDone(v, Calm(x)) /\ Spans(Consume("LeftCurBr"), x, v)
      <4>1. "RightCurBr" \in TokenType
        BY TokenNames
      <4>2. v \in Place /\ v.semi = FALSE
        BY <4>1, PushPlace, Zenon
      <4> QED BY <3>1, <4>2, CalmPlace, ListPlace, Bracketed, Zenon
    <3> HIDE DEF v
    <3>3. Spans(Statements(FALSE), v, Calm(x))
      BY <3>2, SpansCalls
    <3>4. Leads(cs, x, Calm(x))
      BY <1>2, <3>2, <3>3, UsualEntries, CalmPlace, Leads2, Zenon
    <3> QED BY <1>3, <2>3, <3>4, Zenon
  <2>4. Here(cs)
    BY <2>3, Zenon DEF Here
  <2> QED BY <1>1, <2>1, <2>2, <2>4, Stays, Zenon
<1>5. CASE ~parser.inside_block
  <2>1. Goto(<<Statements(FALSE)>>)
    BY <1>5 DEF statement_list
  <2>2. <<Statements(FALSE)>> \in Seq(Usual)
    BY <1>2, UsualLists, Zenon
  <2>3. ASSUME NEW x \in Place, NEW z \in Place, At(parser, x), Spans(Head(stack), x, z)
        PROVE  Leads(<<Statements(FALSE)>>, x, z)
    <3>1. ~x.inside
      BY <1>5, <2>3 DEF At
    <3>2. Spans(Statements(FALSE), x, Calm(x))
      BY <3>1, CalmPlace, ListPlace, SpansCalls, Zenon
    <3>3. Leads(<<Statements(FALSE)>>, x, Calm(x))
      BY <1>2, <3>2, UsualEntries, CalmPlace, Leads1, Zenon
    <3> QED BY <1>3, <2>3, <3>3, Zenon
  <2>4. Here(<<Statements(FALSE)>>)
    BY <2>3, Zenon DEF Here
  <2> QED BY <1>1, <2>1, <2>2, <2>4, Stays, Zenon
<1> QED BY <1>4, <1>5

\* What may follow a return.
LEMMA ReturnValueMoves == ASSUME TypeOK, RejectionInv, return_value PROVE Moves
<1>1. /\ stack # << >> /\ Head(stack)[1] = "return_value"
      /\ Head(stack)[1] # "leave_block" /\ UNCHANGED parser
  BY DEF return_value, On
<1>2. \A x, z \in Place : Spans(Head(stack), x, z) => ~x.semi /\ z = x
  BY <1>1, SpansTable DEF Optional
<1>3. CASE Goto(<< >>)
  <2>1. Here(<< >>)
    BY <1>2, EndsHere, Zenon
  <2> QED BY <1>1, <1>3, <2>1, UsualLists, Stays, Zenon
<1>4. CASE Goto(<<Call("expression")>>)
  <2>1. Call("expression") \in Usual /\ "expression" \in Whole
    BY UsualEntries DEF Plain, Whole
  <2>2. ASSUME NEW x \in Place, NEW z \in Place, Spans(Head(stack), x, z)
        PROVE  Leads(<<Call("expression")>>, x, z)
    <3>1. ~x.semi /\ z = x
      BY <1>2, <2>2, Zenon
    <3>2. Spans(Call("expression"), x, Calm(x)) /\ Calm(x) = x
      BY <2>1, <3>1, Quiet, CalmPlace, Zenon
    <3>3. Spans(Call("expression"), x, z)
      BY <3>1, <3>2, Zenon
    <3> QED BY <2>1, <3>3, UsualEntries, Leads1, Zenon
  <2>3. Here(<<Call("expression")>>)
    BY <2>2, Zenon DEF Here
  <2> QED BY <1>1, <1>4, <2>1, <2>3, UsualLists, Stays, Zenon
<1> QED BY <1>3, <1>4 DEF return_value

\* Behind a statement: recovery, a semicolon, or the end of the list.
LEMMA StatementEndMoves == ASSUME TypeOK, RejectionInv, statement_end PROVE Moves
<1>1. /\ stack # << >> /\ Head(stack)[1] = "statement_end"
      /\ Head(stack)[1] # "leave_block" /\ Head(stack) \in Entry
  BY DEF statement_end, On, TypeOK
<1>2. Arg \in BOOLEAN
  BY <1>1, Arguments DEF Arg
<1>3. \A x, z \in Place : Spans(Head(stack), x, z) => ~x.semi /\ ListDone(x, z)
  BY <1>1, SpansTable
<1>4. CASE /\ parser.panic_mode /\ parser' = [parser EXCEPT !.panic_mode = FALSE]
           /\ Goto(<<Call("synchronize"), Statements(Arg)>>)
  <2>1. Call("synchronize") \in Usual /\ Statements(Arg) \in Usual
    BY <1>2, UsualEntries DEF Plain
  <2>2. parser'.inside_block = parser.inside_block /\ parser'.had_error
    BY <1>4 DEF TypeOK, RejectionInv, ParserState, Sound
  <2> QED BY <1>1, <1>4, <2>1, <2>2, UsualLists, Fails, Zenon
<1>5. CASE Arg /\ Match("SemiColon", <<Statements(TRUE)>>, <<ListEnd(WithoutSemicolon)>>)
  <2>1. /\ Statements(TRUE) \in Usual /\ ListEnd(FALSE) \in Usual
        /\ WithoutSemicolon = FALSE
    BY UsualEntries DEF WithoutSemicolon
  <2>2. ASSUME NEW x \in Place, NEW z \in Place, Spans(Head(stack), x, z)
        PROVE  Leads(<<ListEnd(FALSE)>>, x, z)
    <3>1. ~x.semi /\ ListDone(x, z)
      BY <1>3, <2>2, Zenon
    <3>2. x.semi = FALSE
      BY <3>1 DEF Place
    <3>3. Spans(ListEnd(FALSE), x, z)
      BY <3>1, <3>2, SpansCalls, Zenon
    <3> QED BY <2>1, <3>3, UsualEntries, Leads1, Zenon
  <2>3. ASSUME NEW x \in Place, NEW z \in Place, Spans(Head(stack), x, z)
        PROVE  Leads(<<Statements(TRUE)>>, Passed(x, "SemiColon"), z)
    <3> DEFINE y == Passed(x, "SemiColon")
    <3>1. ListDone(x, z) /\ ~x.semi
      BY <1>3, <2>3, Zenon
    <3>2. y \in Place /\ y.inside = x.inside /\ y.semi = x.inside /\ y.closers = x.closers
      BY PassedPlace DEF Passed, Closer, Brackets, Place
    <3> HIDE DEF y
    <3>3. Calm(y) = Calm(x)
      <4>1. /\ Calm(x) \in Place /\ Calm(x).closers = x.closers
            /\ Calm(x).inside = x.inside /\ Calm(x).semi = FALSE
        BY CalmPlace, Zenon
      <4>2. /\ Calm(y) \in Place /\ Calm(y).closers = y.closers
            /\ Calm(y).inside = y.inside /\ Calm(y).semi = FALSE
        BY <3>2, CalmPlace, Zenon
      <4>3. /\ Calm(y).closers = Calm(x).closers /\ Calm(y).inside = Calm(x).inside
            /\ Calm(y).semi = Calm(x).semi
        BY <3>2, <4>1, <4>2, Zenon
      <4> QED BY <4>1, <4>2, <4>3, SamePlace, Zenon
    <3>4. ListDone(y, z)
      BY <3>1, <3>2, <3>3, Zenon DEF ListDone, Closes
    <3>5. Spans(Statements(TRUE), y, z)
      <4>1. y.inside => y.semi = TRUE
        BY <3>2
      <4> QED BY <3>4, <4>1, SpansCalls, Zenon
    <3> QED BY <2>1, <3>2, <3>5, UsualEntries, Leads1, Zenon DEF y
  <2>4. /\ parser.current = "SemiColon" => Behind(<<Statements(TRUE)>>)
        /\ Here(<<ListEnd(FALSE)>>)
    BY <2>2, <2>3, Zenon DEF Here, Behind
  <2> QED BY <1>1, <1>5, <2>1, <2>4, UsualLists, Matches, Zenon
<1>6. CASE ~Arg /\ UNCHANGED parser /\ Goto(<<Statements(FALSE)>>)
  <2>1. Statements(FALSE) \in Usual
    BY UsualEntries
  <2>2. ASSUME NEW x \in Place, NEW z \in Place, Spans(Head(stack), x, z)
        PROVE  Leads(<<Statements(FALSE)>>, x, z)
    <3>1. ~x.semi /\ ListDone(x, z)
      BY <1>3, <2>2, Zenon
    <3>2. x.semi = FALSE
      BY <3>1 DEF Place
    <3>3. Spans(Statements(FALSE), x, z)
      BY <3>1, <3>2, SpansCalls, Zenon
    <3> QED BY <2>1, <3>3, UsualEntries, Leads1, Zenon
  <2>3. Here(<<Statements(FALSE)>>)
    BY <2>2, Zenon DEF Here
  <2> QED BY <1>1, <1>6, <2>1, <2>3, UsualLists, Stays, Zenon
<1> QED BY <1>4, <1>5, <1>6 DEF statement_end

\* synchronize() runs behind an error only.
LEMMA SynchronizeMoves == ASSUME TypeOK, RejectionInv, synchronize PROVE Moves
<1>1. /\ stack # << >> /\ Head(stack)[1] = "synchronize"
      /\ Head(stack)[1] # "leave_block" /\ Head(stack) \in Entry /\ stack \in Seq(Entry)
  BY DEF synchronize, On, TypeOK
<1>2. \A x, z : ~Spans(Head(stack), x, z)
  BY <1>1, SpansTable, Zenon
<1>3. \A cs : Here(cs) /\ Behind(cs)
  BY <1>2, Zenon DEF Here, Behind
<1>4. CASE UNCHANGED parser /\ Goto(<< >>)
  BY <1>1, <1>3, <1>4, UsualLists, Stays, Zenon
<1>5. CASE parser' \in Advances(parser) /\ UNCHANGED stack
  <2> DEFINE e == Head(stack)
  <2>1. e \in Usual
    BY <1>1 DEF Usual, Prepared
  <2>2. <<e>> \o Tail(stack) = stack
    <3> DEFINE rest == Tail(stack)
    <3>1. /\ rest \in Seq(Entry) /\ Len(stack) = Len(rest) + 1 /\ stack[1] = e
          /\ \A k \in 1 .. Len(rest) : stack[k + 1] = rest[k]
      BY <1>1
    <3> HIDE DEF rest, e
    <3>2. e \in Entry
      BY <1>1 DEF e
    <3> QED BY <1>1, <3>1, <3>2, InFront, Zenon DEF rest
  <2>3. Goto(<<e>>)
    BY <1>5, <2>2 DEF Goto
  <2> HIDE DEF e
  <2> QED BY <1>1, <1>3, <1>5, <2>1, <2>3, UsualLists, Reads, Zenon
<1> QED BY <1>4, <1>5 DEF synchronize

\* The brace at the end of a block.
LEMMA ListEndMoves == ASSUME TypeOK, RejectionInv, list_end PROVE Moves
<1>1. /\ stack # << >> /\ Head(stack)[1] = "list_end"
      /\ Head(stack)[1] # "leave_block" /\ UNCHANGED parser
  BY DEF list_end, On
<1>2. \A x, z \in Place : Spans(Head(stack), x, z) => ListDone(x, z)
  BY <1>1, SpansTable
<1>3. CASE parser.inside_block
  <2>1. Goto(<<Consume("RightCurBr")>>)
    BY <1>3 DEF list_end
  <2>2. Consume("RightCurBr") \in Usual /\ "RightCurBr" \in Brackets
    BY UsualEntries, TokenNames DEF Brackets
  <2>3. ASSUME NEW x \in Place, NEW z \in Place, At(parser, x), Spans(Head(stack), x, z)
        PROVE  Leads(<<Consume("RightCurBr")>>, x, z)
    <3>1. Closes(x, z, "RightCurBr")
      BY <1>2, <1>3, <2>3 DEF At, ListDone
    <3>2. Spans(Consume("RightCurBr"), x, z)
      <4>1. z = Passed(x, "RightCurBr")
        BY <2>2, <3>1, ClosesPlace, Zenon
      <4> QED BY <4>1, SpansCalls, Zenon
    <3> QED BY <2>2, <3>2, UsualEntries, Leads1, Zenon
  <2>4. Here(<<Consume("RightCurBr")>>)
    BY <2>3, Zenon DEF Here
  <2> QED BY <1>1, <2>1, <2>2, <2>4, UsualLists, Stays, Zenon
<1>4. CASE ~parser.inside_block /\ parser.incomplete_input
  BY <1>1, <1>4, RunsOut DEF list_end
<1>5. CASE ~parser.inside_block /\ ~parser.incomplete_input
  <2>1. Goto(<< >>)
    BY <1>5 DEF list_end
  <2>2. ASSUME NEW x \in Place, NEW z \in Place, At(parser, x), Spans(Head(stack), x, z)
        PROVE  Leads(<< >>, x, z)
    <3>1. ~x.inside /\ x.semi = FALSE
      BY <1>5, <2>2 DEF At, Place
    <3>2. z = Calm(x)
      BY <1>2, <2>2, <3>1 DEF ListDone
    <3>3. Calm(x) = x
      BY <3>1, CalmPlace
    <3>4. x = z
      BY <3>2, <3>3, Zenon
    <3> QED BY <3>4, LeadsNone, Zenon
  <2>3. Here(<< >>)
    BY <2>2, Zenon DEF Here
  <2> QED BY <1>1, <2>1, <2>3, UsualLists, Stays, Zenon
<1> QED BY <1>3, <1>4, <1>5

\* The statements, token by token.
LEMMA StatementTable ==
  /\ \A t \in DOMAIN StatementCalls :
       \/ t \in {"Fn", "Struct"}
            /\ StatementCalls[t] = <<Declaration(FALSE), StatementEnd(FALSE)>>
       \/ t = "If" /\ StatementCalls[t] =
            <<Consume("If"), Call("if_suffix"), StatementEnd(FALSE)>>
       \/ t = "While" /\ StatementCalls[t] =
            <<Consume("While"), Call("expression"), Call("block_statement"),
              StatementEnd(FALSE)>>
       \/ t = "For" /\ StatementCalls[t] =
            <<Consume("For"), Consume("Identifier"), Consume("In"), Call("expression"),
              Call("block_statement"), StatementEnd(FALSE)>>
       \/ t = "Let" /\ StatementCalls[t] = <<LetDeclaration(FALSE), StatementEnd(TRUE)>>
  /\ \A t \in DOMAIN JumpCalls :
       \/ t \in {"Break", "Continue"} /\ JumpCalls[t] = <<StatementEnd(TRUE)>>
       \/ t = "Return" /\ JumpCalls[t] = <<Call("return_value"), StatementEnd(TRUE)>>
  /\ StatementCalls["Let"] = <<LetDeclaration(FALSE), StatementEnd(TRUE)>>
<1>1. DOMAIN StatementCalls = {"Fn", "Struct", "If", "While", "For", "Let"}
  BY DEF StatementCalls
<1>2. DOMAIN JumpCalls = {"Break", "Continue", "Return"}
  BY DEF JumpCalls
<1>3. /\ StatementCalls["Fn"] = <<Declaration(FALSE), StatementEnd(FALSE)>>
      /\ StatementCalls["Struct"] = <<Declaration(FALSE), StatementEnd(FALSE)>>
      /\ StatementCalls["If"] = <<Consume("If"), Call("if_suffix"), StatementEnd(FALSE)>>
      /\ StatementCalls["While"] =
           <<Consume("While"), Call("expression"), Call("block_statement"),
             StatementEnd(FALSE)>>
      /\ StatementCalls["For"] =
           <<Consume("For"), Consume("Identifier"), Consume("In"), Call("expression"),
             Call("block_statement"), StatementEnd(FALSE)>>
      /\ StatementCalls["Let"] = <<LetDeclaration(FALSE), StatementEnd(TRUE)>>
  BY DEF StatementCalls
<1>4. /\ JumpCalls["Break"] = <<StatementEnd(TRUE)>>
      /\ JumpCalls["Continue"] = <<StatementEnd(TRUE)>>
      /\ JumpCalls["Return"] = <<Call("return_value"), StatementEnd(TRUE)>>
  BY DEF JumpCalls
<1> QED BY <1>1, <1>2, <1>3, <1>4, Zenon

\* The calls a statement begins with are usual ones, a let aside.
LEMMA StatementCallsUsual ==
  /\ \A t \in DOMAIN StatementCalls : t # "Let" => StatementCalls[t] \in Seq(Usual)
  /\ \A t \in DOMAIN JumpCalls : JumpCalls[t] \in Seq(Usual)
<1>1. /\ Declaration(FALSE) \in Usual /\ StatementEnd(FALSE) \in Usual
      /\ StatementEnd(TRUE) \in Usual
      /\ Consume("If") \in Usual /\ Call("if_suffix") \in Usual
      /\ Consume("While") \in Usual /\ Call("expression") \in Usual
      /\ Call("block_statement") \in Usual /\ Consume("For") \in Usual
      /\ Consume("Identifier") \in Usual /\ Consume("In") \in Usual
      /\ Call("return_value") \in Usual
  BY UsualEntries, TokenNames DEF Plain
<1>2. /\ <<Declaration(FALSE), StatementEnd(FALSE)>> \in Seq(Usual)
      /\ <<Consume("If"), Call("if_suffix"), StatementEnd(FALSE)>> \in Seq(Usual)
      /\ <<Consume("While"), Call("expression"), Call("block_statement"),
           StatementEnd(FALSE)>> \in Seq(Usual)
      /\ <<Consume("For"), Consume("Identifier"), Consume("In"), Call("expression"),
           Call("block_statement"), StatementEnd(FALSE)>> \in Seq(Usual)
      /\ <<StatementEnd(TRUE)>> \in Seq(Usual)
      /\ <<Call("return_value"), StatementEnd(TRUE)>> \in Seq(Usual)
  BY <1>1, UsualLists, Zenon
<1>3. \A t \in DOMAIN StatementCalls : t # "Let" => StatementCalls[t] \in Seq(Usual)
  BY <1>2, StatementTable, Zenon
<1>4. \A t \in DOMAIN JumpCalls : JumpCalls[t] \in Seq(Usual)
  BY <1>2, StatementTable, Zenon
<1> QED BY <1>3, <1>4

\* Every statement leads on in its list.
LEMMA StatementLeads ==
  ASSUME NEW x \in Place, NEW z \in Place, ListDone(x, z)
  PROVE  /\ \A t \in DOMAIN StatementCalls : Leads(StatementCalls[t], x, z)
         /\ \A t \in DOMAIN JumpCalls : Leads(JumpCalls[t], Calm(x), z)
         /\ \A b \in BOOLEAN : Leads(<<Declaration(TRUE), StatementEnd(b)>>, Calm(x), z)
         /\ Leads(<<Call("assignment_or_expression"), StatementEnd(TRUE)>>, x, z)
<1> DEFINE w == Calm(x)
<1>1. w \in Place /\ Calm(w) = w
  BY CalmPlace, Zenon
<1>2. /\ Spans(Declaration(FALSE), x, w) /\ Spans(Declaration(TRUE), w, w)
      /\ Spans(Consume("If"), x, w) /\ Spans(Call("if_suffix"), w, w)
      /\ Spans(Consume("While"), x, w) /\ Spans(Call("expression"), w, w)
      /\ Spans(Call("block_statement"), w, w) /\ Spans(Consume("For"), x, w)
      /\ Spans(Consume("Identifier"), w, w) /\ Spans(Consume("In"), w, w)
      /\ Spans(LetDeclaration(FALSE), x, w) /\ Spans(Call("return_value"), w, w)
      /\ Spans(Call("assignment_or_expression"), x, w)
  <2>1. /\ "If" \in Words /\ "While" \in Words /\ "For" \in Words /\ "In" \in Words
        /\ "Identifier" \in Words
    BY DEF Words
  <2>2. /\ "if_suffix" \in Whole /\ "expression" \in Whole /\ "block_statement" \in Whole
        /\ "assignment_or_expression" \in Whole /\ "return_value" \in Optional
    BY DEF Whole, Optional
  <2>3. /\ Spans(Declaration(FALSE), x, w) /\ Spans(Declaration(TRUE), w, w)
        /\ Spans(LetDeclaration(FALSE), x, w)
    BY Quiet, Zenon
  <2>4. /\ Spans(Consume("If"), x, w) /\ Spans(Consume("While"), x, w)
        /\ Spans(Consume("For"), x, w) /\ Spans(Consume("Identifier"), w, w)
        /\ Spans(Consume("In"), w, w)
    BY <2>1, Quiet, Zenon
  <2>5. /\ Spans(Call("if_suffix"), w, w) /\ Spans(Call("expression"), w, w)
        /\ Spans(Call("block_statement"), w, w) /\ Spans(Call("return_value"), w, w)
        /\ Spans(Call("assignment_or_expression"), x, w)
    BY <2>2, Quiet, Zenon
  <2> QED BY <2>3, <2>4, <2>5
<1>3. \A b : Spans(StatementEnd(b), w, z)
  BY ListPlace, Zenon
<1>4. /\ Declaration(FALSE) \in Entry /\ Declaration(TRUE) \in Entry
      /\ StatementEnd(FALSE) \in Entry /\ StatementEnd(TRUE) \in Entry
      /\ Consume("If") \in Entry /\ Call("if_suffix") \in Entry
      /\ Consume("While") \in Entry /\ Call("expression") \in Entry
      /\ Call("block_statement") \in Entry /\ Consume("For") \in Entry
      /\ Consume("Identifier") \in Entry /\ Consume("In") \in Entry
      /\ LetDeclaration(FALSE) \in Entry /\ Call("return_value") \in Entry
      /\ Call("assignment_or_expression") \in Entry
  BY Entries, TokenNames DEF Plain
<1> HIDE DEF w
<1>5. /\ Leads(<<Declaration(FALSE), StatementEnd(FALSE)>>, x, z)
      /\ Leads(<<LetDeclaration(FALSE), StatementEnd(TRUE)>>, x, z)
      /\ Leads(<<Call("assignment_or_expression"), StatementEnd(TRUE)>>, x, z)
      /\ Leads(<<Call("return_value"), StatementEnd(TRUE)>>, w, z)
      /\ Leads(<<StatementEnd(TRUE)>>, w, z)
  BY <1>1, <1>2, <1>3, <1>4, Leads1, Leads2, Zenon
<1>6. Leads(<<Consume("If"), Call("if_suffix"), StatementEnd(FALSE)>>, x, z)
  BY <1>1, <1>2, <1>3, <1>4, Leads3, Zenon
<1>7. Leads(<<Consume("While"), Call("expression"), Call("block_statement"),
              StatementEnd(FALSE)>>, x, z)
  BY <1>1, <1>2, <1>3, <1>4, Leads4, Zenon
<1>8. Leads(<<Consume("For"), Consume("Identifier"), Consume("In"), Call("expression"),
              Call("block_statement"), StatementEnd(FALSE)>>, x, z)
  BY <1>1, <1>2, <1>3, <1>4, Leads6, Zenon
<1>9. \A b \in BOOLEAN : Leads(<<Declaration(TRUE), StatementEnd(b)>>, w, z)
  <2> TAKE b \in BOOLEAN
  <2>1. StatementEnd(b) \in Entry
    BY Entries, Zenon
  <2> QED BY <1>1, <1>2, <1>3, <1>4, <2>1, Leads2, Zenon
<1>10. \A t \in DOMAIN StatementCalls : Leads(StatementCalls[t], x, z)
  BY <1>5, <1>6, <1>7, <1>8, StatementTable, Zenon
<1>11. \A t \in DOMAIN JumpCalls : Leads(JumpCalls[t], w, z)
  BY <1>5, StatementTable, Zenon
<1> QED BY <1>5, <1>9, <1>10, <1>11, Zenon DEF w

\* The head of the statement loop.
LEMMA StatementsMoves == ASSUME TypeOK, RejectionInv, statements PROVE Moves
<1>1. /\ stack # << >> /\ Head(stack)[1] = "statements" /\ Head(stack)[1] # "leave_block"
      /\ Head(stack) \in Entry
  BY DEF statements, On, TypeOK
<1>2. Arg \in BOOLEAN /\ parser \in ParserState /\ Sound(parser)
  BY <1>1, Arguments DEF Arg, TypeOK, RejectionInv
<1>3. \A x, z \in Place : Spans(Head(stack), x, z) =>
        ListDone(x, z) /\ (x.inside => x.semi = Arg)
  BY <1>1, SpansTable DEF Arg
<1>4. CASE UNCHANGED parser /\ Goto(<<ListEnd(Arg)>>)
  <2>1. ListEnd(Arg) \in Usual
    BY <1>2, UsualEntries, Zenon
  <2>2. ASSUME NEW x \in Place, NEW z \in Place, Spans(Head(stack), x, z)
        PROVE  Leads(<<ListEnd(Arg)>>, x, z)
    <3>1. Spans(ListEnd(Arg), x, z)
      BY <1>3, <2>2, SpansCalls, Zenon
    <3> QED BY <2>1, <3>1, UsualEntries, Leads1, Zenon
  <2>3. Here(<<ListEnd(Arg)>>)
    BY <2>2, Zenon DEF Here
  <2> QED BY <1>1, <1>4, <2>1, <2>3, UsualLists, Stays, Zenon
<1>5. ASSUME parser.current = "Pub", NEW p \in Advances(parser), parser' = p,
             Goto(<<Declaration(TRUE), StatementEnd(p.current = "Let")>>)
      PROVE  Moves
  <2> DEFINE b == p.current = "Let"
             cs == <<Declaration(TRUE), StatementEnd(b)>>
  <2>1. b \in BOOLEAN /\ Goto(cs)
    BY <1>5
  <2> HIDE DEF b
  <2>2. Declaration(TRUE) \in Usual /\ StatementEnd(b) \in Usual
    BY <2>1, UsualEntries, Zenon
  <2>3. \A x \in Place : Passed(x, "Pub") = Calm(x)
    BY PassedPlain DEF Closer, Brackets
  <2>4. ASSUME NEW x \in Place, NEW z \in Place, Spans(Head(stack), x, z)
        PROVE  Leads(cs, Passed(x, parser.current), z)
    <3>1. Leads(cs, Calm(x), z)
      BY <1>3, <2>1, <2>4, StatementLeads, Zenon
    <3> QED BY <1>5, <2>3, <3>1, Zenon
  <2>5. Behind(cs)
    BY <2>4, Zenon DEF Behind
  <2>6. cs \in Seq(Usual)
    BY <2>2, UsualLists, Zenon
  <2> QED BY <1>1, <1>5, <2>1, <2>5, <2>6, Reads, Zenon
<1>6. CASE /\ parser.current \in DOMAIN StatementCalls /\ UNCHANGED parser
           /\ Goto(StatementCalls[parser.current])
  <2> DEFINE cs == StatementCalls[parser.current]
  <2>1. Here(cs)
    BY <1>3, <1>6, StatementLeads, Zenon DEF Here
  <2>2. CASE parser.current # "Let"
    <3>1. cs \in Seq(Usual)
      BY <1>6, <2>2, StatementCallsUsual, Zenon
    <3> QED BY <1>1, <1>6, <2>1, <3>1, Stays, Zenon
  <2>3. CASE parser.current = "Let"
    <3> DEFINE d == LetDeclaration(FALSE)
               e == StatementEnd(TRUE)
    <3>1. d \in Entry /\ e \in Usual
      BY Entries, UsualEntries
    <3>2. cs = <<d, e>>
      BY <2>3, StatementTable, Zenon
    <3>3. d[1] \in Prepared /\ Announces(d, parser)
      BY <2>3 DEF Prepared, Announces, LetDeclaration
    <3> HIDE DEF d, e, cs
    <3>4. cs \in Seq(Entry) /\ cs # << >> /\ Head(cs) = d /\ Tail(cs) \in Seq(Usual)
      BY <3>1, <3>2, DeclarationLists, Zenon
    <3>5. Goto(cs)
      BY <1>6 DEF cs
    <3> QED BY <1>1, <1>6, <2>1, <3>3, <3>4, <3>5, Declares, Zenon
  <2> QED BY <2>2, <2>3
<1>7. CASE /\ parser.current \in DOMAIN JumpCalls
           /\ parser' \in Advances(IF parser.inside_block THEN parser ELSE ErrorAt(parser))
           /\ Goto(JumpCalls[parser.current])
  <2> DEFINE cs == JumpCalls[parser.current]
  <2>1. cs \in Seq(Usual)
    BY <1>7, StatementCallsUsual, Zenon
  <2>2. \A x \in Place : Passed(x, parser.current) = Calm(x)
    BY <1>7, PassedPlain DEF JumpCalls, Closer, Brackets
  <2>3. ASSUME NEW x \in Place, NEW z \in Place, Spans(Head(stack), x, z)
        PROVE  Leads(cs, Passed(x, parser.current), z)
    <3>1. Leads(cs, Calm(x), z)
      BY <1>3, <1>7, <2>3, StatementLeads, Zenon
    <3> QED BY <2>2, <3>1, Zenon
  <2>4. Behind(cs)
    BY <2>3, Zenon DEF Behind
  <2>5. CASE parser.inside_block
    <3>1. parser' \in Advances(parser)
      BY <1>7, <2>5
    <3> QED BY <1>1, <1>7, <2>1, <2>4, <3>1, Reads, Zenon
  <2>6. CASE ~parser.inside_block
    <3> DEFINE p == ErrorAt(parser)
    <3>1. parser' \in Advances(p)
      BY <1>7, <2>6
    <3>2. p \in ParserState /\ Sound(p) /\ p.inside_block = parser.inside_block /\ p.had_error
      BY <1>2, ErrorAtType, ErrorAtSound, ParserStateUnread, Flags
    <3> HIDE DEF p
    <3>3. parser'.inside_block = parser.inside_block /\ parser'.had_error
      <4>1. p \in Unread
        BY <3>2, ParserStateUnread
      <4>2. Grows(p, parser')
        BY <3>1, <3>2, <4>1, AdvancesSound, Zenon
      <4>3. parser'.inside_block = p.inside_block
        BY <3>1, <3>2, AdvancesAt, Zenon
      <4> QED BY <3>2, <4>2, <4>3 DEF Grows
    <3> QED BY <1>1, <1>7, <2>1, <3>3, Fails, Zenon
  <2> QED BY <2>5, <2>6
<1>8. CASE /\ UNCHANGED parser
           /\ Goto(<<Call("assignment_or_expression"), StatementEnd(TRUE)>>)
  <2> DEFINE cs == <<Call("assignment_or_expression"), StatementEnd(TRUE)>>
  <2>1. Call("assignment_or_expression") \in Usual /\ StatementEnd(TRUE) \in Usual
    BY UsualEntries DEF Plain
  <2>2. Here(cs)
    BY <1>3, StatementLeads, Zenon DEF Here
  <2>3. cs \in Seq(Usual)
    BY <2>1, UsualLists, Zenon
  <2> QED BY <1>1, <1>8, <2>2, <2>3, Stays, Zenon
<1> QED BY <1>4, <1>5, <1>6, <1>7, <1>8 DEF statements


(***************************************************************************)
(* Blocks.                                                                 *)
(***************************************************************************)

\* Behind a block's statement list the parser is as it was in front of it.
LEMMA BlockLeads ==
  ASSUME NEW x \in Place, NEW y \in Place, NEW b \in BOOLEAN,
         x.inside = b, y.closers = x.closers, y.inside
  PROVE  /\ Leads(<<Call("statement_list"), LeaveBlock(b)>>, y, Calm(x))
         /\ <<Call("statement_list"), LeaveBlock(b)>> \in Seq(Entry)
<1> DEFINE z == Calm(x)
           w == Calm(y)
           out == LeaveBlock(b)
           in == Call("statement_list")
<1>1. /\ w \in Place /\ w.closers = x.closers /\ w.inside = TRUE /\ w.semi = FALSE
      /\ z \in Place /\ z.closers = x.closers /\ z.inside = b /\ z.semi = FALSE
  BY CalmPlace
<1>2. Spans(in, y, w)
  BY Quiet DEF Whole
<1>3. out \in Entry /\ in \in Entry
  BY Entries DEF Plain
<1>4. z = [w EXCEPT !.inside = b, !.semi = @ /\ b]
  BY <1>1 DEF Place
<1>5. Spans(out, w, z)
  BY <1>4, SpansCalls, Zenon
<1> HIDE DEF z, w, out, in
<1>6. Leads(<<in, out>>, y, z)
  BY <1>1, <1>2, <1>3, <1>5, Leads2, Zenon
<1>7. <<in, out>> \in Seq(Entry)
  BY <1>3
<1> QED BY <1>6, <1>7, Zenon DEF z, in, out

\* block_statement() goes inside.
LEMMA BlockStatementGoes ==
  ASSUME TypeOK, block_statement
  PROVE  Goes(<<Call("statement_list"), LeaveBlock(parser.inside_block)>>)
<1> DEFINE b == parser.inside_block
<1>1. /\ stack # << >> /\ Head(stack)[1] = "block_statement"
      /\ parser' = [parser EXCEPT !.inside_block = TRUE] /\ parser \in ParserState
  BY DEF block_statement, On, TypeOK
<1>2. /\ b \in BOOLEAN /\ parser'.inside_block = TRUE /\ parser'.had_error = parser.had_error
      /\ parser'.incomplete_input = parser.incomplete_input
      /\ parser'.nesting = parser.nesting /\ parser'.previous = parser.previous
  BY <1>1 DEF ParserState
<1>3. ASSUME NEW x \in Place, NEW z \in Place, At(parser, x), Spans(Head(stack), x, z)
      PROVE  \E y \in Place :
               At(parser', y) /\ Leads(<<Call("statement_list"), LeaveBlock(b)>>, y, z)
  <2> DEFINE y == [x EXCEPT !.inside = TRUE, !.semi = (parser.previous = "SemiColon")]
  <2>1. y \in Place /\ y.closers = x.closers /\ y.inside = TRUE
        /\ y.semi = (parser.previous = "SemiColon") /\ x.inside = b
    BY <1>3 DEF Place, At
  <2>2. z = Calm(x)
    <3>1. Head(stack)[1] \in Whole
      BY <1>1 DEF Whole
    <3> QED BY <1>3, <3>1, SpansTable, Zenon
  <2> HIDE DEF y
  <2>3. At(parser', y)
    BY <1>2, <1>3, <2>1 DEF At
  <2>4. Leads(<<Call("statement_list"), LeaveBlock(b)>>, y, z)
    BY <1>2, <2>1, <2>2, BlockLeads, Zenon
  <2> QED BY <2>1, <2>3, <2>4, Zenon
<1> QED BY <1>2, <1>3, Zenon DEF Goes

\* And at its end outside again.
LEMMA LeaveBlockGoes ==
  ASSUME TypeOK, leave_block, parser.inside_block
  PROVE  Goes(<< >>)
<1>1. /\ stack # << >> /\ Head(stack)[1] = "leave_block" /\ Head(stack) \in Entry
      /\ parser' = [parser EXCEPT !.inside_block = Arg] /\ parser \in ParserState
  BY DEF leave_block, On, TypeOK
<1>2. /\ Arg \in BOOLEAN /\ parser'.inside_block = Arg
      /\ parser'.had_error = parser.had_error
      /\ parser'.incomplete_input = parser.incomplete_input
      /\ parser'.nesting = parser.nesting /\ parser'.previous = parser.previous
  BY <1>1, Arguments DEF ParserState, Arg
<1>3. ASSUME NEW x \in Place, NEW z \in Place, At(parser, x), Spans(Head(stack), x, z)
      PROVE  At(parser', z) /\ Leads(<< >>, z, z)
  <2>1. z = [x EXCEPT !.inside = Arg, !.semi = @ /\ Arg]
    BY <1>1, <1>3, SpansTable DEF Arg
  <2>2. z.closers = x.closers /\ z.inside = Arg /\ z.semi = (x.semi /\ Arg)
    BY <2>1 DEF Place
  <2>3. At(parser', z)
    BY <1>2, <1>3, <2>2 DEF At
  <2> QED BY <2>3, LeadsNone, Zenon
<1> QED BY <1>2, <1>3, Zenon DEF Goes


-----------------------------------------------------------------------------
(***************************************************************************)
(* The invariant.                                                          *)
(***************************************************************************)

\* Only the call on top may be of the kind that has a token of its own, and the
\* parser is at that token (or behind it).
Announced ==
  /\ \A k \in 2 .. Len(stack) : stack[k][1] \notin Prepared
  /\ stack # << >> => Announces(Head(stack), parser)

StackInv == BlockDiscipline /\ OnTrack /\ Announced

\* Every step is one of those of this module, or one of parse().
LEMMA NextMoves ==
  ASSUME TypeOK, RejectionInv, Next
  PROVE  Moves \/ block_statement \/ leave_block \/ parse \/ Returned
BY ConsumeMoves, ExpressionsMoves, ExpressionsLoopMoves, DictionaryOrSetMoves,
   IfStatementSuffixMoves, AtomMoves, PrimaryMoves, UnaryMoves, InversionMoves,
   BinaryMoves, ExpressionMoves, AssignmentOrExpressionMoves, ParametersMoves,
   ParametersLoopMoves, ParametersEndMoves, LetDeclarationMoves,
   FunctionDeclarationMoves, StructDeclarationMoves, StructBodyMoves,
   DeclarationMoves, StatementListMoves, StatementsMoves, ReturnValueMoves,
   StatementEndMoves, SynchronizeMoves, ListEndMoves, Zenon DEF Next

\* Where the calls are when cs has replaced the one on top of s.
LEMMA Replaced ==
  ASSUME NEW s \in Seq(Entry), s # << >>, NEW cs \in Seq(Entry)
  PROVE  /\ Tail(s) \in Seq(Entry) /\ cs \o Tail(s) \in Seq(Entry)
         /\ Len(s) \in Nat \ {0} /\ Len(cs) \in Nat
         /\ Len(cs \o Tail(s)) = Len(cs) + Len(s) - 1
         /\ \A k \in 1 .. Len(cs) : (cs \o Tail(s))[k] = cs[k]
         /\ \A k \in 2 .. Len(s) : (cs \o Tail(s))[Len(cs) + k - 1] = s[k]
         /\ \A k \in Len(cs) + 1 .. Len(cs) + Len(s) - 1 :
              (cs \o Tail(s))[k] = s[k - Len(cs) + 1]
<1> DEFINE rest == Tail(s)
<1>1. /\ rest \in Seq(Entry) /\ Len(rest) = Len(s) - 1 /\ Len(s) \in Nat \ {0}
      /\ Len(cs) \in Nat /\ \A k \in 1 .. Len(s) - 1 : rest[k] = s[k + 1]
  OBVIOUS
<1> HIDE DEF rest
<1>2. /\ cs \o rest \in Seq(Entry) /\ Len(cs \o rest) = Len(cs) + Len(rest)
      /\ \A k \in 1 .. Len(cs) + Len(rest) :
           (cs \o rest)[k] = IF k <= Len(cs) THEN cs[k] ELSE rest[k - Len(cs)]
  BY <1>1, ConcatProperties, Zenon
<1> DEFINE t == cs \o rest
<1>3. /\ t \in Seq(Entry) /\ Len(t) = Len(cs) + Len(s) - 1
      /\ \A k \in 1 .. Len(cs) + Len(s) - 1 :
           t[k] = IF k <= Len(cs) THEN cs[k] ELSE rest[k - Len(cs)]
  <2>1. Len(cs) + Len(rest) = Len(cs) + Len(s) - 1
    BY <1>1
  <2> QED BY <1>2, <2>1, Zenon
<1> HIDE DEF t
<1>4. ASSUME NEW k \in 1 .. Len(cs) PROVE t[k] = cs[k]
  <2>1. k <= Len(cs) /\ k \in 1 .. Len(cs) + Len(s) - 1
    BY <1>1
  <2> QED BY <1>3, <2>1
<1>5. ASSUME NEW k \in Len(cs) + 1 .. Len(cs) + Len(s) - 1
      PROVE  t[k] = s[k - Len(cs) + 1]
  <2>1. k - Len(cs) \in 1 .. Len(s) - 1 /\ ~(k <= Len(cs))
        /\ k \in 1 .. Len(cs) + Len(s) - 1
    BY <1>1
  <2>2. t[k] = rest[k - Len(cs)]
    BY <1>3, <2>1
  <2> QED BY <1>1, <2>1, <2>2
<1>6. ASSUME NEW k \in 2 .. Len(s) PROVE t[Len(cs) + k - 1] = s[k]
  <2>1. Len(cs) + k - 1 \in Len(cs) + 1 .. Len(cs) + Len(s) - 1
        /\ (Len(cs) + k - 1) - Len(cs) + 1 = k
    BY <1>1
  <2> QED BY <1>5, <2>1
<1> QED BY <1>1, <1>3, <1>4, <1>5, <1>6, Zenon DEF t, rest

\* BlockDiscipline of any stack s and any flag b.
Opens(s, from) == \E i \in from .. Len(s) : s[i][1] = "leave_block"
Disciplined(s, b) ==
  /\ b <=> Opens(s, 1)
  /\ \A i \in 1 .. Len(s) : s[i][1] = "leave_block" => (s[i][2] <=> Opens(s, i + 1))

\* Which blocks are open, when calls replace the one on top.
LEMMA OpensReplaced ==
  ASSUME NEW s \in Seq(Entry), s # << >>, NEW cs \in Seq(Entry),
         NEW t, t = cs \o Tail(s)
  PROVE  /\ \A i \in 1 .. Len(s) : Opens(t, Len(cs) + i) <=> Opens(s, i + 1)
         /\ Head(s)[1] # "leave_block" => (Opens(s, 1) <=> Opens(s, 2))
<1>1. /\ t \in Seq(Entry) /\ Len(t) = Len(cs) + Len(s) - 1
      /\ Len(s) \in Nat \ {0} /\ Len(cs) \in Nat
      /\ \A k \in 2 .. Len(s) : t[Len(cs) + k - 1] = s[k]
      /\ \A k \in Len(cs) + 1 .. Len(cs) + Len(s) - 1 : t[k] = s[k - Len(cs) + 1]
  BY Replaced, Zenon
<1>2. ASSUME NEW i \in 1 .. Len(s) PROVE Opens(t, Len(cs) + i) <=> Opens(s, i + 1)
  <2>1. ASSUME Opens(t, Len(cs) + i) PROVE Opens(s, i + 1)
    <3>1. PICK k \in Len(cs) + i .. Len(t) : t[k][1] = "leave_block"
      BY <2>1 DEF Opens
    <3>2. k - Len(cs) + 1 \in i + 1 .. Len(s) /\ t[k] = s[k - Len(cs) + 1]
      BY <1>1
    <3> QED BY <3>1, <3>2 DEF Opens
  <2>2. ASSUME Opens(s, i + 1) PROVE Opens(t, Len(cs) + i)
    <3>1. PICK k \in i + 1 .. Len(s) : s[k][1] = "leave_block"
      BY <2>2 DEF Opens
    <3>2. Len(cs) + k - 1 \in Len(cs) + i .. Len(t) /\ t[Len(cs) + k - 1] = s[k]
      BY <1>1
    <3> QED BY <3>1, <3>2 DEF Opens
  <2> QED BY <2>1, <2>2
<1>3. ASSUME Head(s)[1] # "leave_block" PROVE Opens(s, 1) <=> Opens(s, 2)
  <2>1. s[1][1] # "leave_block"
    BY <1>3
  <2> QED BY <1>1, <2>1 DEF Opens
<1> QED BY <1>2, <1>3, Zenon

\* Calls that leave no block keep the discipline.
LEMMA DisciplineKept ==
  ASSUME NEW s \in Seq(Entry), s # << >>, NEW cs \in Seq(Entry), NEW b \in BOOLEAN,
         \A k \in 1 .. Len(cs) : cs[k][1] # "leave_block",
         Head(s)[1] # "leave_block", Disciplined(s, b)
  PROVE  Disciplined(cs \o Tail(s), b)
<1> DEFINE t == cs \o Tail(s)
<1>1. /\ t \in Seq(Entry) /\ Len(t) = Len(cs) + Len(s) - 1
      /\ Len(s) \in Nat \ {0} /\ Len(cs) \in Nat
      /\ \A k \in 1 .. Len(cs) : t[k] = cs[k]
      /\ \A k \in Len(cs) + 1 .. Len(cs) + Len(s) - 1 : t[k] = s[k - Len(cs) + 1]
  BY Replaced, Zenon
<1>2. /\ \A i \in 1 .. Len(s) : Opens(t, Len(cs) + i) <=> Opens(s, i + 1)
      /\ Opens(s, 1) <=> Opens(s, 2)
  BY OpensReplaced, Zenon
<1> HIDE DEF t
<1>3. b <=> Opens(t, 1)
  <2>1. Opens(t, 1) <=> Opens(t, Len(cs) + 1)
    <3>1. ASSUME Opens(t, 1) PROVE Opens(t, Len(cs) + 1)
      <4>1. PICK k \in 1 .. Len(t) : t[k][1] = "leave_block"
        BY <3>1 DEF Opens
      <4>2. k \notin 1 .. Len(cs)
        BY <1>1, <4>1
      <4>3. k \in Len(cs) + 1 .. Len(t)
        BY <1>1, <4>2
      <4> QED BY <4>1, <4>3 DEF Opens
    <3>2. ASSUME Opens(t, Len(cs) + 1) PROVE Opens(t, 1)
      BY <1>1, <3>2 DEF Opens
    <3> QED BY <3>1, <3>2
  <2>2. 1 \in 1 .. Len(s) /\ 1 + 1 = 2
    BY <1>1
  <2> QED BY <1>2, <2>1, <2>2 DEF Disciplined
<1>4. ASSUME NEW i \in 1 .. Len(t), t[i][1] = "leave_block"
      PROVE  t[i][2] <=> Opens(t, i + 1)
  <2> DEFINE j == i - Len(cs) + 1
  <2>1. i > Len(cs)
    BY <1>1, <1>4
  <2>2. j \in 2 .. Len(s) /\ t[i] = s[j] /\ i + 1 = Len(cs) + j
    BY <1>1, <2>1
  <2> HIDE DEF j
  <2>3. j \in 1 .. Len(s)
    BY <1>1, <2>2
  <2> QED BY <1>2, <1>4, <2>2, <2>3, Zenon DEF Disciplined
<1> QED BY <1>3, <1>4, Zenon DEF Disciplined, t

\* A block that opens remembers what held outside it.
LEMMA DisciplineEntered ==
  ASSUME NEW s \in Seq(Entry), s # << >>, NEW b \in BOOLEAN,
         Head(s)[1] # "leave_block", Disciplined(s, b)
  PROVE  Disciplined(<<Call("statement_list"), LeaveBlock(b)>> \o Tail(s), TRUE)
<1> DEFINE cs == <<Call("statement_list"), LeaveBlock(b)>>
           t == cs \o Tail(s)
<1>1. /\ cs \in Seq(Entry) /\ Len(cs) = 2 /\ cs[1][1] = "statement_list"
      /\ cs[2][1] = "leave_block" /\ cs[2][2] = b
  <2>1. Call("statement_list") \in Entry /\ LeaveBlock(b) \in Entry
    BY Entries DEF Plain
  <2> QED BY <2>1 DEF Call, LeaveBlock
<1> HIDE DEF cs
<1>2. /\ t \in Seq(Entry) /\ Len(t) = Len(cs) + Len(s) - 1
      /\ Len(s) \in Nat \ {0} /\ Len(cs) \in Nat
      /\ \A k \in 1 .. Len(cs) : t[k] = cs[k]
      /\ \A k \in Len(cs) + 1 .. Len(cs) + Len(s) - 1 : t[k] = s[k - Len(cs) + 1]
  BY <1>1, Replaced, Zenon
<1>3. /\ \A i \in 1 .. Len(s) : Opens(t, Len(cs) + i) <=> Opens(s, i + 1)
      /\ Opens(s, 1) <=> Opens(s, 2)
  BY <1>1, OpensReplaced, Zenon
<1> HIDE DEF t
<1>4. Opens(t, 1)
  BY <1>1, <1>2 DEF Opens
<1>5. ASSUME NEW i \in 1 .. Len(t), t[i][1] = "leave_block"
      PROVE  t[i][2] <=> Opens(t, i + 1)
  <2> DEFINE j == i - 1
  <2>1. i # 1
    BY <1>1, <1>2, <1>5
  <2>2. j \in 1 .. Len(s) /\ i + 1 = Len(cs) + j
    BY <1>1, <1>2, <2>1
  <2>3. Opens(t, i + 1) <=> Opens(s, j + 1)
    BY <1>3, <2>2, Zenon
  <2>4. CASE i = 2
    <3>1. t[i][2] = b /\ j + 1 = 2
      BY <1>1, <1>2, <2>4
    <3> QED BY <1>3, <2>3, <3>1 DEF Disciplined
  <2>5. CASE i # 2
    <3>1. t[i] = s[j] /\ j \in 1 .. Len(s)
      BY <1>1, <1>2, <2>1, <2>2, <2>5
    <3> QED BY <1>5, <2>3, <3>1 DEF Disciplined
  <2> QED BY <2>4, <2>5
<1> QED BY <1>4, <1>5, Zenon DEF Disciplined, t, cs

\* Leaving a block restores what held outside it.
LEMMA DisciplineLeft ==
  ASSUME NEW s \in Seq(Entry), s # << >>, NEW b \in BOOLEAN,
         Head(s)[1] = "leave_block", Disciplined(s, b)
  PROVE  b /\ Disciplined(<< >> \o Tail(s), Head(s)[2])
<1> DEFINE cs == << >>
           t == cs \o Tail(s)
<1>1. cs \in Seq(Entry) /\ Len(cs) = 0 /\ Head(s) = s[1]
  OBVIOUS
<1> HIDE DEF cs
<1>2. /\ t \in Seq(Entry) /\ Len(t) = Len(cs) + Len(s) - 1
      /\ Len(s) \in Nat \ {0} /\ Len(cs) \in Nat
      /\ \A k \in Len(cs) + 1 .. Len(cs) + Len(s) - 1 : t[k] = s[k - Len(cs) + 1]
  BY <1>1, Replaced, Zenon
<1>3. \A i \in 1 .. Len(s) : Opens(t, Len(cs) + i) <=> Opens(s, i + 1)
  BY <1>1, OpensReplaced, Zenon
<1> HIDE DEF t
<1>4. b
  BY <1>1, <1>2 DEF Disciplined, Opens
<1>5. Head(s)[2] <=> Opens(t, 1)
  <2>1. 1 \in 1 .. Len(s) /\ Len(cs) + 1 = 1
    BY <1>1, <1>2
  <2> QED BY <1>1, <1>3, <2>1 DEF Disciplined
<1>6. ASSUME NEW i \in 1 .. Len(t), t[i][1] = "leave_block"
      PROVE  t[i][2] <=> Opens(t, i + 1)
  <2> DEFINE j == i + 1
  <2>1. j \in 1 .. Len(s) /\ t[i] = s[j] /\ i + 1 = j /\ Len(cs) + j = j
    BY <1>1, <1>2
  <2> HIDE DEF j
  <2>2. Opens(t, j) <=> Opens(s, j + 1)
    BY <1>3, <2>1
  <2> QED BY <1>6, <2>1, <2>2, Zenon DEF Disciplined
<1>7. Disciplined(t, Head(s)[2])
  BY <1>5, <1>6, Zenon DEF Disciplined
<1> QED BY <1>4, <1>7, Zenon DEF t, cs


\* The calls that replace the one on top announce what they declare.
LEMMA AnnouncedKept ==
  ASSUME TypeOK, stack # << >>, Announced, NEW cs \in Seq(Entry), Goto(cs),
         \A k \in 2 .. Len(cs) : cs[k][1] \notin Prepared,
         cs # << >> => Announces(Head(cs), parser')
  PROVE  Announced'
<1> DEFINE t == stack'
<1>1. stack \in Seq(Entry) /\ t = cs \o Tail(stack)
  BY DEF TypeOK, Goto
<1>2. /\ t \in Seq(Entry) /\ Len(t) = Len(cs) + Len(stack) - 1
      /\ Len(stack) \in Nat \ {0} /\ Len(cs) \in Nat
      /\ \A k \in 1 .. Len(cs) : t[k] = cs[k]
      /\ \A k \in Len(cs) + 1 .. Len(cs) + Len(stack) - 1 : t[k] = stack[k - Len(cs) + 1]
  BY <1>1, Replaced, Zenon
<1> HIDE DEF t
<1>3. ASSUME NEW k \in 1 .. Len(t), k > Len(cs) PROVE t[k][1] \notin Prepared
  <2>1. k - Len(cs) + 1 \in 2 .. Len(stack) /\ t[k] = stack[k - Len(cs) + 1]
    BY <1>2, <1>3
  <2> QED BY <2>1 DEF Announced
<1>4. ASSUME NEW k \in 2 .. Len(t) PROVE t[k][1] \notin Prepared
  BY <1>2, <1>3, <1>4
<1>5. ASSUME t # << >> PROVE Announces(Head(t), parser')
  <2>1. 1 \in 1 .. Len(t) /\ Head(t) = t[1]
    BY <1>2, <1>5
  <2>2. CASE cs = << >>
    <3>1. t[1][1] \notin Prepared
      BY <1>2, <1>3, <2>1, <2>2
    <3> QED BY <2>1, <3>1 DEF Announces, Prepared
  <2>3. CASE cs # << >>
    <3>1. t[1] = Head(cs)
      BY <1>2, <2>3
    <3> QED BY <2>1, <2>3, <3>1
  <2> QED BY <2>2, <2>3
<1> QED BY <1>4, <1>5, Zenon DEF Announced, t

\* Calls that lead where the one on top was to lead keep the stack on track.
LEMMA OnTrackKept ==
  ASSUME TypeOK, stack # << >>, OnTrack, NEW cs \in Seq(Entry), Goto(cs), Goes(cs)
  PROVE  OnTrack'
<1> SUFFICES ASSUME ~parser'.had_error
             PROVE  \E x, z \in Place :
                      At(parser', x) /\ Leads(stack', x, z) /\ z.closers = << >>
  BY Zenon DEF OnTrack
<1>1. ~parser.had_error
  BY Zenon DEF Goes
<1>2. PICK x \in Place, z \in Place :
        At(parser, x) /\ Leads(stack, x, z) /\ z.closers = << >>
  BY <1>1, Zenon DEF OnTrack
<1>3. stack \in Seq(Entry) /\ Tail(stack) \in Seq(Entry)
  BY DEF TypeOK
<1>4. PICK w \in Place : Spans(Head(stack), x, w) /\ Leads(Tail(stack), w, z)
  BY <1>2, <1>3, LeadsFirst, Zenon
<1>5. PICK y \in Place : At(parser', y) /\ Leads(cs, y, w)
  BY <1>2, <1>4, Zenon DEF Goes
<1>6. Leads(cs \o Tail(stack), y, z)
  BY <1>3, <1>4, <1>5, LeadsOn, Zenon
<1> QED BY <1>2, <1>5, <1>6, Zenon DEF Goto

\* What the two definitions above are made for.
LEMMA DisciplinedStack == BlockDiscipline <=> Disciplined(stack, parser.inside_block)
BY Zenon DEF BlockDiscipline, Disciplined, Opens

\* The invariant holds when parse() starts.
LEMMA InitStack == Init => StackInv
<1> SUFFICES ASSUME Init PROVE StackInv
  OBVIOUS
<1>1. PICK s \in Sources : parser \in Advances(Start(s))
  BY DEF Init
<1>2. stack = <<Call("statement_list")>> /\ stack \in Seq(Entry) /\ Len(stack) = 1
      /\ stack[1] = Call("statement_list") /\ Head(stack) = Call("statement_list")
  BY Entries DEF Init, Plain
<1>3. Call("statement_list")[1] = "statement_list"
  BY DEF Call
<1>4. /\ parser.inside_block = FALSE
      /\ ~parser.had_error => parser.nesting = << >> /\ ~parser.incomplete_input
  <2> DEFINE p == Start(s)
  <2>1. /\ p \in Unread /\ p.inside_block = FALSE /\ p.nesting = << >>
        /\ p.incomplete_input = FALSE /\ p.current = "Undefined" /\ p.had_error = FALSE
        /\ p.panic_mode = FALSE
    BY StartType DEF Start
  <2> HIDE DEF p
  <2> DEFINE m == [p EXCEPT !.previous = p.current, !.nesting = Nesting(p)]
  <2>2. Nesting(p) = << >>
    BY <2>1 DEF Nesting, Closer
  <2>3. /\ m.inside_block = FALSE /\ m.incomplete_input = FALSE /\ m.nesting = << >>
        /\ m \in Unread
    BY <2>1, <2>2 DEF Unread
  <2>4. parser \in NextToken(m) \/ parser \in NextToken(ErrorAt(m))
    BY <1>1 DEF Advances, p
  <2> HIDE DEF m
  <2>5. /\ ErrorAt(m).inside_block = FALSE /\ ErrorAt(m).incomplete_input = FALSE
        /\ ErrorAt(m).nesting = << >> /\ ErrorAt(m) \in Unread
    BY <2>3 DEF ErrorAt, Unread
  <2>6. ASSUME NEW q \in Unread, q.inside_block = FALSE, q.incomplete_input = FALSE,
               q.nesting = << >>, parser \in NextToken(q)
        PROVE  /\ parser.inside_block = FALSE /\ parser.incomplete_input = FALSE
               /\ parser.nesting = << >>
    BY <2>6 DEF NextToken, Unread
  <2> QED BY <2>3, <2>4, <2>5, <2>6
<1>5. BlockDiscipline
  BY <1>2, <1>3, <1>4 DEF BlockDiscipline
<1>6. Announced
  BY <1>2, <1>3 DEF Announced, Announces
<1>7. OnTrack
  <2> SUFFICES ASSUME ~parser.had_error
               PROVE  \E x, z \in Place :
                        At(parser, x) /\ Leads(stack, x, z) /\ z.closers = << >>
    BY Zenon DEF OnTrack
  <2> DEFINE x == [closers |-> << >>, inside |-> FALSE, semi |-> FALSE]
  <2>1. x \in Place /\ x.closers = << >> /\ x.inside = FALSE /\ x.semi = FALSE
    BY DEF Place
  <2>2. At(parser, x)
    BY <1>4, <2>1 DEF At
  <2> HIDE DEF x
  <2>3. Calm(x) \in Place /\ Calm(x).closers = << >>
    BY <2>1, CalmPlace
  <2>4. Spans(Call("statement_list"), x, Calm(x)) /\ Call("statement_list") \in Entry
    BY <2>1, Quiet, Entries DEF Whole, Plain
  <2>5. Leads(stack, x, Calm(x))
    BY <1>2, <2>1, <2>3, <2>4, Leads1, Zenon
  <2> QED BY <2>1, <2>2, <2>3, <2>5, Zenon
<1> QED BY <1>5, <1>6, <1>7 DEF StackInv

\* Every step keeps it.
LEMMA StepStack == TypeOK /\ RejectionInv /\ StackInv /\ Next => StackInv'
<1> SUFFICES ASSUME TypeOK, RejectionInv, StackInv, Next PROVE StackInv'
  OBVIOUS
<1>1. /\ stack \in Seq(Entry) /\ parser.inside_block \in BOOLEAN
      /\ Disciplined(stack, parser.inside_block) /\ OnTrack /\ Announced
  BY DisciplinedStack DEF TypeOK, StackInv, ParserState
<1>2. Disciplined(stack', parser'.inside_block) => BlockDiscipline'
  BY Zenon DEF BlockDiscipline, Disciplined, Opens
<1>3. CASE Moves
  <2>1. PICK cs : Ordinary(cs) /\ Goes(cs)
    BY <1>3, Zenon DEF Moves
  <2>2. /\ stack # << >> /\ cs \in Seq(Entry) /\ stack' = cs \o Tail(stack) /\ Goto(cs)
        /\ Head(stack)[1] # "leave_block" /\ parser'.inside_block = parser.inside_block
    BY <2>1, Zenon DEF Ordinary, Goto
  <2>3. /\ \A k \in 1 .. Len(cs) : cs[k][1] # "leave_block"
        /\ \A k \in 2 .. Len(cs) : cs[k][1] \notin Prepared
        /\ cs # << >> => Announces(Head(cs), parser')
    <3>1. CASE cs \in Seq(Usual)
      <4>1. \A k \in 1 .. Len(cs) : cs[k] \in Usual
        BY <3>1
      <4>2. cs # << >> => Head(cs) \in Usual
        BY <3>1
      <4> QED BY <4>1, <4>2 DEF Usual, Announces, Prepared
    <3>2. CASE /\ cs # << >> /\ Tail(cs) \in Seq(Usual)
               /\ Head(cs)[1] \in Prepared /\ Announces(Head(cs), parser')
      <4>1. ASSUME NEW k \in 2 .. Len(cs) PROVE cs[k] \in Usual
        <5>1. k - 1 \in 1 .. Len(Tail(cs)) /\ cs[k] = Tail(cs)[k - 1]
          BY <2>2, <3>2
        <5> QED BY <3>2, <5>1
      <4>2. cs[1][1] # "leave_block"
        BY <2>2, <3>2 DEF Prepared
      <4> QED BY <3>2, <4>1, <4>2 DEF Usual
    <3> QED BY <2>1, <3>1, <3>2 DEF Ordinary
  <2>4. BlockDiscipline'
    BY <1>1, <1>2, <2>2, <2>3, DisciplineKept, Zenon
  <2>5. OnTrack'
    BY <1>1, <2>1, <2>2, OnTrackKept, Zenon
  <2>6. Announced'
    BY <1>1, <2>2, <2>3, AnnouncedKept, Zenon
  <2> QED BY <2>4, <2>5, <2>6 DEF StackInv
<1>4. CASE block_statement
  <2> DEFINE b == parser.inside_block
             cs == <<Call("statement_list"), LeaveBlock(b)>>
  <2>1. /\ stack # << >> /\ Head(stack)[1] = "block_statement" /\ Goto(cs)
        /\ stack' = cs \o Tail(stack) /\ parser'.inside_block = TRUE
    BY <1>4 DEF block_statement, On, Goto, TypeOK, ParserState
  <2>2. Goes(cs)
    BY <1>4, BlockStatementGoes, Zenon
  <2>3. Call("statement_list") \in Entry /\ LeaveBlock(b) \in Entry
    BY <1>1, Entries DEF Plain
  <2>4. /\ cs \in Seq(Entry) /\ Len(cs) = 2 /\ cs # << >>
        /\ Head(cs)[1] = "statement_list" /\ cs[2][1] = "leave_block"
    BY <2>3 DEF Call, LeaveBlock
  <2>5. Head(stack)[1] # "leave_block"
    BY <2>1
  <2>6. BlockDiscipline'
    BY <1>1, <1>2, <2>1, <2>5, DisciplineEntered, Zenon
  <2> HIDE DEF cs
  <2>7. OnTrack'
    BY <1>1, <2>1, <2>2, <2>4, OnTrackKept, Zenon
  <2>8. /\ \A k \in 2 .. Len(cs) : cs[k][1] \notin Prepared
        /\ Announces(Head(cs), parser')
    BY <2>4 DEF Prepared, Announces
  <2>9. Announced'
    BY <1>1, <2>1, <2>4, <2>8, AnnouncedKept, Zenon
  <2> QED BY <2>6, <2>7, <2>9 DEF StackInv
<1>5. CASE leave_block
  <2>1. /\ stack # << >> /\ Head(stack)[1] = "leave_block" /\ Goto(<< >>)
        /\ stack' = << >> \o Tail(stack) /\ << >> \in Seq(Entry)
        /\ parser'.inside_block = Head(stack)[2]
    BY <1>5 DEF leave_block, On, Goto, TypeOK, ParserState, Arg
  <2>2. parser.inside_block /\ Disciplined(<< >> \o Tail(stack), Head(stack)[2])
    BY <1>1, <2>1, DisciplineLeft, Zenon
  <2>3. BlockDiscipline'
    BY <1>2, <2>1, <2>2, Zenon
  <2>4. Goes(<< >>)
    BY <1>5, <2>2, LeaveBlockGoes, Zenon
  <2>5. OnTrack'
    BY <1>1, <2>1, <2>4, OnTrackKept, Zenon
  <2>6. \A k \in 2 .. Len(<< >>) : << >>[k][1] \notin Prepared
    OBVIOUS
  <2>7. Announced'
    BY <1>1, <2>1, <2>6, AnnouncedKept, Zenon
  <2> QED BY <2>3, <2>5, <2>7 DEF StackInv
<1>6. CASE parse
  <2>1. /\ stack = << >> /\ stack' = << >>
        /\ parser' = parser \/ parser' = ErrorAt(parser)
        /\ parser \in ParserState /\ Sound(parser)
    BY <1>6 DEF parse, TypeOK, RejectionInv
  <2>2. ErrorAt(parser).inside_block = parser.inside_block /\ ErrorAt(parser).had_error
    BY <2>1, Flags, Zenon
  <2>3. BlockDiscipline'
    BY <1>1, <1>2, <2>1, <2>2, Zenon
  <2>4. Announced'
    BY <2>1 DEF Announced
  <2>5. CASE parser' = parser
    <3>1. OnTrack'
      BY <1>1, <2>1, <2>5, Zenon DEF OnTrack
    <3> QED BY <2>3, <2>4, <3>1 DEF StackInv
  <2>6. CASE parser' = ErrorAt(parser)
    <3>1. OnTrack'
      BY <2>2, <2>6 DEF OnTrack
    <3> QED BY <2>3, <2>4, <3>1 DEF StackInv
  <2> QED BY <2>1, <2>5, <2>6
<1>7. CASE Returned
  <2>1. parser' = parser /\ stack' = stack
    BY <1>7 DEF Returned, vars
  <2>2. BlockDiscipline'
    BY <1>1, <1>2, <2>1, Zenon
  <2>3. OnTrack' /\ Announced'
    BY <1>1, <2>1, Zenon DEF OnTrack, Announced
  <2> QED BY <2>2, <2>3 DEF StackInv
<1> QED BY <1>3, <1>4, <1>5, <1>6, <1>7, NextMoves, Zenon


\* Only parse() gives a verdict.
LEMMA CallsReturnNoVerdict == ASSUME Next, stack # << >> PROVE result' = result
<1>1. Tree \/ NoTree => result' = result
  BY DEF Tree, NoTree
<1>2. ASSUME \/ consume \/ expressions \/ expressions_loop \/ dictionary_or_set
             \/ if_statement_suffix \/ primary \/ binary \/ expression
             \/ assignment_or_expression
      PROVE  Tree
  BY <1>2, Zenon
     DEF consume, expressions, expressions_loop, dictionary_or_set, if_statement_suffix,
         primary, binary, expression, assignment_or_expression
<1>3. ASSUME \/ parameters \/ parameters_loop \/ parameters_end \/ let_declaration
             \/ function_declaration \/ struct_declaration \/ struct_body
      PROVE  Tree
  BY <1>3, Zenon
     DEF parameters, parameters_loop, parameters_end, let_declaration,
         function_declaration, struct_declaration, struct_body
<1>4. ASSUME \/ block_statement \/ leave_block \/ statement_list \/ statements
             \/ return_value \/ statement_end \/ synchronize \/ list_end
      PROVE  Tree
  BY <1>4, Zenon
     DEF block_statement, leave_block, statement_list, statements, return_value,
         statement_end, synchronize, list_end
<1>5. ASSUME atom \/ unary \/ inversion \/ declaration PROVE Tree \/ NoTree
  BY <1>5, Zenon DEF atom, unary, inversion, Prefixed, declaration
<1>6. ~parse
  BY DEF parse
<1>7. Returned => result' = result
  BY DEF Returned, vars
<1> QED BY <1>1, <1>2, <1>3, <1>4, <1>5, <1>6, <1>7, Zenon DEF Next

\* So it always holds.
LEMMA StackHolds == Spec => [](TypeOK /\ RejectionInv /\ StackInv)
<1>1. Init => TypeOK /\ RejectionInv /\ StackInv
  BY InitType, InitRejection, InitStack
<1>2. TypeOK /\ RejectionInv /\ StackInv /\ [Next]_vars
        => (TypeOK /\ RejectionInv /\ StackInv)'
  <2>1. ASSUME TypeOK, RejectionInv, StackInv, UNCHANGED vars
        PROVE  (TypeOK /\ RejectionInv /\ StackInv)'
    <3>1. /\ parser' = parser /\ stack' = stack /\ null_ast' = null_ast
          /\ result' = result
      BY <2>1 DEF vars
    <3>2. TypeOK' /\ RejectionInv'
      BY <2>1, <3>1 DEF TypeOK, RejectionInv
    <3>3. BlockDiscipline'
      BY <2>1, <3>1, Zenon DEF StackInv, BlockDiscipline
    <3>4. OnTrack' /\ Announced'
      BY <2>1, <3>1, Zenon DEF StackInv, OnTrack, Announced
    <3> QED BY <3>2, <3>3, <3>4 DEF StackInv
  <2> QED BY <2>1, StepType, StepRejection, StepStack
<1> QED BY <1>1, <1>2, PTL DEF Spec

-----------------------------------------------------------------------------
(***************************************************************************)
(* Theorems.                                                               *)
(***************************************************************************)

\* inside_block is true iff a block_statement() has yet to return, and each of them
\* remembers what to put back (parser.c:662-668).
THEOREM BlocksAreDisciplined == Spec => []BlockDiscipline
<1>1. StackInv => BlockDiscipline
  BY DEF StackInv
<1> QED BY <1>1, StackHolds, PTL

\* is_semicolon_statement, which becomes last_had_semicolon of the block's tree, says
\* at the end of a clean block whether a semicolon is in front of its brace.
THEOREM BlocksTellTheirSemicolon == Spec => []BlockReturnFlag
<1>1. TypeOK /\ RejectionInv /\ StackInv => BlockReturnFlag
  <2> SUFFICES ASSUME TypeOK, RejectionInv, StackInv, On("list_end"),
                      parser.inside_block, ~parser.had_error,
                      parser.current = "RightCurBr"
               PROVE  Arg <=> parser.previous = "SemiColon"
    BY DEF BlockReturnFlag
  <2>1. PICK x \in Place, z \in Place :
          At(parser, x) /\ Leads(stack, x, z) /\ z.closers = << >>
    BY Zenon DEF StackInv, OnTrack
  <2>2. stack \in Seq(Entry) /\ stack # << >> /\ Head(stack)[1] = "list_end"
        /\ Head(stack) \in Entry
    BY DEF On, TypeOK
  <2>3. PICK w \in Place : Spans(Head(stack), x, w)
    BY <2>1, <2>2, LeadsFirst, Zenon
  <2>4. x.inside => x.semi = Arg
    BY <2>2, <2>3, SpansTable DEF Arg
  <2>5. ~parser.incomplete_input
    BY DEF RejectionInv, Sound
  <2>6. Arg \in BOOLEAN /\ x.semi \in BOOLEAN
    BY <2>2, Arguments DEF Arg, Place
  <2> QED BY <2>1, <2>4, <2>5, <2>6 DEF At
<1> QED BY <1>1, StackHolds, PTL

\* An accepted source was read to its end, and its brackets are balanced.
THEOREM AcceptedSourcesAreBalanced == Spec => []AcceptedIsBalanced
<1>1. Init => AcceptedIsBalanced
  BY DEF Init, AcceptedIsBalanced
<1>2. TypeOK /\ RejectionInv /\ StackInv /\ AcceptedIsBalanced /\ [Next]_vars
        => AcceptedIsBalanced'
  <2> SUFFICES ASSUME TypeOK, RejectionInv, StackInv, AcceptedIsBalanced, [Next]_vars
               PROVE  AcceptedIsBalanced'
    OBVIOUS
  <2>1. CASE UNCHANGED vars
    BY <2>1 DEF vars, AcceptedIsBalanced
  <2>2. CASE parse
    <3> SUFFICES ASSUME result'.ast = "tree"
                 PROVE  parser'.current = "EOF" /\ parser'.nesting = << >>
      BY DEF AcceptedIsBalanced
    <3>1. /\ stack = << >> /\ ~parser.had_error /\ ~parser.incomplete_input
          /\ parser.current = "EOF" /\ parser' = parser
      BY <2>2 DEF parse
    <3>2. PICK x \in Place, z \in Place :
            At(parser, x) /\ Leads(stack, x, z) /\ z.closers = << >>
      BY <3>1, Zenon DEF StackInv, OnTrack
    <3>3. x = z
      BY <3>1, <3>2, LeadsNone, Zenon
    <3> QED BY <3>1, <3>2, <3>3 DEF At
  <2>3. ASSUME Next, Moves \/ block_statement \/ leave_block
        PROVE  AcceptedIsBalanced'
    <3>1. stack # << >>
      BY <2>3, Zenon DEF Moves, Ordinary, block_statement, leave_block, On
    <3>2. result = Pending
      BY <3>1 DEF RejectionInv
    <3>3. result' = result
      BY <2>3, <3>1, CallsReturnNoVerdict, Zenon
    <3> QED BY <3>2, <3>3 DEF AcceptedIsBalanced
  <2>4. CASE Returned
    BY <2>1, <2>4 DEF Returned
  <2> QED BY <2>1, <2>2, <2>3, <2>4, NextMoves, Zenon
<1> QED BY <1>1, <1>2, StackHolds, PTL DEF Spec


-----------------------------------------------------------------------------
(***************************************************************************)
(* The end of the source.                                                  *)
(***************************************************************************)

\* Where a call may find an error without a token that is wrong: behind the "..." of
\* a parameter list, and at a declaration that may not be made inside a block.
Refused ==
  \/ On("parameters_end")
  \/ parser.inside_block /\ On("let_declaration") /\ Arg
  \/ parser.inside_block /\ On("function_declaration") /\ Arg
  \/ parser.inside_block /\ On("struct_declaration")

\* What a step may make of the parser.
Steps ==
  \/ parser' = parser
  \/ parser' \in Advances(parser)
  \/ parser' = Incomplete(parser)
  \/ (parser.current # "EOF" \/ Refused) /\ parser' = ErrorAt(parser)
  \/ parser.current # "EOF" /\ \E p \in Advances(parser) : parser' = ErrorAt(p)
  \/ \E p \in Advances(parser) : parser' = Incomplete(p)
  \/ parser.current # "EOF" /\ parser' \in Advances(ErrorAt(parser))
  \/ \E b \in BOOLEAN : parser' = [parser EXCEPT !.inside_block = b]
  \/ parser' = [parser EXCEPT !.panic_mode = FALSE]

\* No step makes anything else of the parser.
LEMMA NextSteps == ASSUME TypeOK, Next PROVE Steps
<1>1. ASSUME \/ consume \/ expressions \/ expressions_loop \/ dictionary_or_set
             \/ if_statement_suffix \/ primary \/ binary \/ expression
             \/ assignment_or_expression \/ unary \/ inversion
      PROVE  Steps
  BY <1>1, Zenon
     DEF Steps, consume, expressions, expressions_loop, dictionary_or_set,
         if_statement_suffix, primary, binary, expression, assignment_or_expression,
         unary, inversion, Prefixed, Match, Until
<1>2. CASE atom
  <2>1. PICK p \in Advances(parser) :
          \/ parser' = p
          \/ parser' = IF parser.current = "EOF" THEN Incomplete(p) ELSE ErrorAt(p)
    BY <1>2, Zenon DEF atom
  <2>2. CASE parser' = p
    BY <2>2, Zenon DEF Steps
  <2>3. CASE parser' = IF parser.current = "EOF" THEN Incomplete(p) ELSE ErrorAt(p)
    BY <2>3, Zenon DEF Steps
  <2> QED BY <2>1, <2>2, <2>3
<1>3. ASSUME \/ parameters \/ parameters_loop \/ parameters_end \/ let_declaration
             \/ function_declaration \/ struct_declaration \/ struct_body \/ declaration
      PROVE  Steps
  <2>1. ASSUME parameters \/ parameters_loop \/ parameters_end \/ struct_body \/ declaration
        PROVE  Steps
    BY <2>1
       DEF Steps, Refused, parameters, parameters_loop, parameters_end, struct_body,
           declaration, Match, Until
  <2>2. ASSUME let_declaration \/ function_declaration \/ struct_declaration
        PROVE  Steps
    BY <2>2
       DEF Steps, Refused, let_declaration, function_declaration, struct_declaration, Match
  <2> QED BY <1>3, <2>1, <2>2, Zenon
<1>4. CASE block_statement \/ leave_block
  <2>1. ASSUME leave_block PROVE Arg \in BOOLEAN
    BY <2>1, Arguments DEF leave_block, On, Arg, TypeOK
  <2> QED BY <1>4, <2>1, Zenon DEF Steps, block_statement, leave_block
<1>5. CASE statements
  <2>1. \/ parser' = parser
        \/ \E p \in Advances(parser) : parser' = p
        \/ /\ parser.current # "EOF"
           /\ parser' \in Advances(IF parser.inside_block THEN parser ELSE ErrorAt(parser))
    BY <1>5, Zenon DEF statements, ListIsOver
  <2> QED BY <2>1, Zenon DEF Steps
<1>6. ASSUME statement_list \/ return_value \/ statement_end \/ synchronize \/ list_end
      PROVE  Steps
  BY <1>6, Zenon
     DEF Steps, statement_list, return_value, statement_end, synchronize, list_end, Match
<1>7. ASSUME parse \/ Returned PROVE Steps
  BY <1>7, Zenon DEF Steps, parse, Returned, vars
<1> QED BY <1>1, <1>2, <1>3, <1>4, <1>5, <1>6, <1>7, Zenon DEF Next


\* Reading on at the end of the source finds no error.
LEMMA AdvancesQuietly ==
  ASSUME NEW p \in ParserState, Sound(p), p.current = "EOF", NEW q \in Advances(p)
  PROVE  q.had_error = p.had_error
<1> DEFINE moved == [p EXCEPT !.previous = p.current, !.nesting = Nesting(p)]
<1>1. p.lexer = 0
  BY DEF Sound
<1>2. q \in NextToken(moved)
  BY <1>1 DEF Advances
<1>3. moved.had_error = p.had_error /\ moved \in Unread
  BY NestingType, ParserStateUnread DEF ParserState, Unread
<1> HIDE DEF moved
<1>4. q.had_error = moved.had_error
  BY <1>2, <1>3 DEF NextToken, Unread
<1> QED BY <1>3, <1>4

\* The only error the parser finds at the end of the source is behind a "...": a
\* declaration refused inside a block is refused at its first token.
LEMMA EndIsQuiet ==
  ASSUME TypeOK, RejectionInv, StackInv, Next, parser.current = "EOF", ~parser.had_error,
         parser.previous # "Ellipsis"
  PROVE  ~parser'.had_error
<1>1. parser \in ParserState /\ Sound(parser)
  BY DEF TypeOK, RejectionInv
<1>2. ~Refused
  <2>1. /\ stack # << >> => Announces(Head(stack), parser)
        /\ stack \in Seq(Entry)
    BY DEF StackInv, Announced, TypeOK
  <2>2. ~On("parameters_end")
    BY <2>1 DEF On, Announces
  <2>3. ~(On("let_declaration") /\ Arg) /\ ~On("struct_declaration")
    BY <2>1 DEF On, Announces, Arg
  <2>4. ASSUME On("function_declaration"), Arg, parser.inside_block PROVE FALSE
    <3>1. stack # << >> /\ Head(stack) \in Entry /\ Head(stack)[1] = "function_declaration"
      BY <2>1, <2>4 DEF On
    <3>2. Head(stack)[3] \in BOOLEAN
      BY <3>1, Arguments
    <3>3. Head(stack)[3]
      BY <2>1, <2>4, <3>1, <3>2 DEF Announces, Arg
    <3>4. PICK x \in Place, z \in Place :
            At(parser, x) /\ Leads(stack, x, z) /\ z.closers = << >>
      BY Zenon DEF StackInv, OnTrack
    <3>5. PICK w \in Place : Spans(Head(stack), x, w)
      BY <2>1, <3>1, <3>4, LeadsFirst, Zenon
    <3>6. ~x.inside
      BY <3>1, <3>3, <3>5, SpansTable, Zenon
    <3> QED BY <2>4, <3>4, <3>6 DEF At
  <2> QED BY <2>2, <2>3, <2>4 DEF Refused
<1>3. Steps
  BY NextSteps, Zenon
<1>4. \A p \in Advances(parser) : p \in ParserState /\ ~p.had_error
  BY <1>1, AdvancesQuietly, AdvancesType, ParserStateUnread
<1>5. /\ ~Incomplete(parser).had_error
      /\ \A p \in Advances(parser) : ~Incomplete(p).had_error
  BY <1>1, <1>4 DEF Incomplete, ParserState
<1>6. /\ \A b \in BOOLEAN : ~[parser EXCEPT !.inside_block = b].had_error
      /\ ~[parser EXCEPT !.panic_mode = FALSE].had_error
  BY <1>1 DEF ParserState
<1> QED
  BY <1>2, <1>3, <1>4, <1>5, <1>6, Zenon DEF Steps

\* EofIsNotAnError with its one exception: running out of input is an error behind a
\* "..." and nowhere else.
EofIsAnErrorAfterEllipsisOnly ==
  [][parser.current = "EOF" /\ ~parser.had_error /\ parser.previous # "Ellipsis"
       => ~parser'.had_error]_vars

\* No step at the end of the source turns a clean parse into a failed one, but for the
\* one that looks for the parenthesis behind "...", which the run MCParser_variadic_eof
\* shows.
THEOREM EndIsNoError == Spec => EofIsAnErrorAfterEllipsisOnly
<1>1. TypeOK /\ RejectionInv /\ StackInv /\ [Next]_vars
        => [parser.current = "EOF" /\ ~parser.had_error /\ parser.previous # "Ellipsis"
              => ~parser'.had_error]_vars
  BY EndIsQuiet DEF vars
<1> QED BY <1>1, StackHolds, PTL DEF Spec, EofIsAnErrorAfterEllipsisOnly

\* What is left to read, and what was just read, holds no "...".
NoEllipsis(p) ==
  /\ "Ellipsis" \notin p.source
  /\ p.opening \in Seq(TokenType \ {"Ellipsis"})
  /\ p.current # "Ellipsis" /\ p.previous # "Ellipsis"

\* None turns up when a token is read.
LEMMA AdvancesNoEllipsis ==
  ASSUME NEW p \in Unread, NoEllipsis(p), NEW q \in Advances(p)
  PROVE  NoEllipsis(q)
<1> DEFINE moved == [p EXCEPT !.previous = p.current, !.nesting = Nesting(p)]
<1>1. moved \in Unread /\ NoEllipsis(moved)
  BY NestingType DEF Unread, NoEllipsis
<1> HIDE DEF moved
<1>2. ErrorAt(moved) \in Unread /\ NoEllipsis(ErrorAt(moved))
  BY <1>1 DEF ErrorAt, Unread, NoEllipsis
<1>3. ASSUME NEW r \in Unread, NoEllipsis(r), q \in NextToken(r)
      PROVE  NoEllipsis(q)
  <2>1. /\ "Ellipsis" \notin NextTypes(r)
        /\ Opened(r) \in Seq(TokenType \ {"Ellipsis"})
    BY <1>3 DEF NextTypes, Opened, NoEllipsis
  <2>2. << >> \in Seq(TokenType \ {"Ellipsis"})
    OBVIOUS
  <2>3. CASE q = [r EXCEPT !.current = "EOF", !.lexer = 0, !.opening = << >>]
    BY <1>3, <2>2, <2>3 DEF NoEllipsis, Unread
  <2>4. CASE \E t \in NextTypes(r) :
               q = [r EXCEPT !.current = t, !.lexer = r.lexer - 1, !.opening = Opened(r)]
    <3>1. PICK t \in NextTypes(r) :
            q = [r EXCEPT !.current = t, !.lexer = r.lexer - 1, !.opening = Opened(r)]
      BY <2>4
    <3>2. /\ q.source = r.source /\ q.opening = Opened(r) /\ q.current = t
          /\ q.previous = r.previous
      BY <1>3, <3>1 DEF Unread
    <3> QED BY <1>3, <2>1, <3>2 DEF NoEllipsis
  <2>5. \/ q = [r EXCEPT !.current = "EOF", !.lexer = 0, !.opening = << >>]
        \/ \E t \in NextTypes(r) :
             q = [r EXCEPT !.current = t, !.lexer = r.lexer - 1, !.opening = Opened(r)]
    BY <1>3 DEF NextToken
  <2> QED BY <2>3, <2>4, <2>5
<1>4. q \in NextToken(moved) \/ q \in NextToken(ErrorAt(moved))
  BY DEF Advances, moved
<1> QED BY <1>1, <1>2, <1>3, <1>4

\* On sources without "..." running out of input is never an error.
THEOREM EndIsNoErrorWithoutEllipsis ==
  ASSUME \A s \in Sources : /\ "Ellipsis" \notin s.tokens
                            /\ s.opening \in Seq(TokenType \ {"Ellipsis"})
  PROVE  Spec => EofIsNotAnError
<1>1. Init => NoEllipsis(parser)
  <2> SUFFICES ASSUME NEW s \in Sources, parser \in Advances(Start(s))
               PROVE  NoEllipsis(parser)
    BY DEF Init
  <2>1. Start(s) \in Unread
    BY StartType
  <2>2. NoEllipsis(Start(s))
    BY DEF NoEllipsis, Start
  <2> QED BY <2>1, <2>2, AdvancesNoEllipsis, Zenon
<1>2. TypeOK /\ NoEllipsis(parser) /\ [Next]_vars => NoEllipsis(parser)'
  <2> SUFFICES ASSUME TypeOK, NoEllipsis(parser), [Next]_vars PROVE NoEllipsis(parser')
    OBVIOUS
  <2>1. parser \in ParserState /\ parser \in Unread
    BY ParserStateUnread DEF TypeOK
  <2>2. \A p \in Advances(parser) : p \in Unread /\ NoEllipsis(p)
    BY <2>1, AdvancesType, AdvancesNoEllipsis, ParserStateUnread
  <2>3. ASSUME NEW p \in Unread, NoEllipsis(p)
        PROVE  /\ NoEllipsis(ErrorAt(p)) /\ ErrorAt(p) \in Unread
               /\ NoEllipsis(Incomplete(p))
               /\ \A b \in BOOLEAN : NoEllipsis([p EXCEPT !.inside_block = b])
               /\ NoEllipsis([p EXCEPT !.panic_mode = FALSE])
    BY <2>3 DEF ErrorAt, Incomplete, Unread, NoEllipsis
  <2>4. \A p \in Advances(ErrorAt(parser)) : NoEllipsis(p)
    BY <2>1, <2>3, AdvancesNoEllipsis, Zenon
  <2>5. CASE Steps
    BY <2>1, <2>2, <2>3, <2>4, <2>5, Zenon DEF Steps
  <2>6. CASE UNCHANGED vars
    BY <2>6 DEF vars
  <2> QED BY <2>5, <2>6, NextSteps
<1>3. NoEllipsis(parser) => parser.previous # "Ellipsis"
  BY DEF NoEllipsis
<1>4. TypeOK /\ RejectionInv /\ StackInv /\ NoEllipsis(parser) /\ [Next]_vars
        => [parser.current = "EOF" /\ ~parser.had_error => ~parser'.had_error]_vars
  BY <1>3, EndIsQuiet DEF vars
<1> QED BY <1>1, <1>2, <1>4, StackHolds, PTL DEF Spec, EofIsNotAnError

=============================================================================
