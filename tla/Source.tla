------------------------------- MODULE Source -------------------------------
(***************************************************************************)
(* What parse() makes of a source, as far as the REPL can tell: a program, *)
(* an error, or the remark that more input is needed.  Module Parser has   *)
(* the parser itself.                                                      *)
(*                                                                         *)
(* A source is a sequence of characters.  Some stand for a statement each, *)
(* "(" and ")" for any construct that is opened and closed, "!" for        *)
(* anything a parser refuses.                                              *)
(***************************************************************************)
EXTENDS Sequences, SequencesExt, Integers

CONSTANT Statements  \* a function from characters to trees

Refused == -1

\* How many constructs are open at the end, if nothing was refused before.
Open(source) ==
    FoldLeft(LAMBDA open, ch :
                CASE open = Refused \/ ch = "!" \/ (ch = ")" /\ open = 0) -> Refused
                  [] ch = "(" -> open + 1
                  [] ch = ")" -> open - 1
                  [] OTHER    -> open,
             0, source)

\* An error outweighs the end of the source.
Verdict(source) ==
    CASE Open(source) = Refused -> "error"
      [] Open(source) = 0       -> "program"
      [] OTHER                  -> "incomplete"

\* The statements of the tree parse() returns.
Program(source) ==
    LET front[n \in 0..Len(source)] ==
          CASE n = 0 -> <<>>
            [] n > 0 /\ source[n] \in DOMAIN Statements -> Append(front[n - 1], Statements[source[n]])
            [] OTHER -> front[n - 1]
    IN front[Len(source)]

=============================================================================
