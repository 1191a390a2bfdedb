------------------------------ MODULE ReadEval ------------------------------
(***************************************************************************)
(* What the REPL promises: it reads a line at a time and evaluates it,     *)
(* together with the lines before it for as long as these are incomplete.  *)
(*                                                                         *)
(* The end of the input is nothing it promises anything about, and         *)
(* LastAgain is what bsc.c happens to do: it does not look for the end,    *)
(* but evaluates what is left of the last line, and then the last source   *)
(* again and again.                                                        *)
(***************************************************************************)
EXTENDS Source

VARIABLES rest,    \* what is still to be read
          source,  \* what is evaluated, or was last
          prompt,  \* ">>>" or "..."
          phase    \* "asking", "evaluating" or "stopped"

vars == <<rest, source, prompt, phase>>

IsLine(n) == rest[n] = "\n" /\ \A m \in 1..(n - 1) : rest[m] # "\n"
Pending == IF prompt = "..." THEN source ELSE <<>>

ReadLine ==
    /\ phase = "asking"
    /\ \E n \in DOMAIN rest :
         /\ IsLine(n)
         /\ source' = Pending \o SubSeq(rest, 1, n)
         /\ rest' = SubSeq(rest, n + 1, Len(rest))
    /\ phase' = "evaluating"
    /\ UNCHANGED prompt

LastAgain ==
    /\ phase = "asking"
    /\ \A n \in DOMAIN rest : rest[n] # "\n"
    /\ source' = IF rest = <<>> THEN source ELSE Pending \o rest
    /\ rest' = <<>>
    /\ phase' = "evaluating"
    /\ UNCHANGED prompt

\* Only more input can be waited for; everything else starts anew.
Answer ==
    /\ phase = "evaluating"
    /\ prompt' = IF Verdict(source) = "incomplete" THEN "..." ELSE ">>>"
    /\ phase' = "asking"
    /\ UNCHANGED <<rest, source>>

\* A program may end the process.
Stop ==
    /\ phase = "evaluating"
    /\ Verdict(source) = "program"
    /\ phase' = "stopped"
    /\ UNCHANGED <<rest, source, prompt>>

Init ==
    /\ rest \in Seq(STRING)
    /\ source = <<>>
    /\ prompt = ">>>"
    /\ phase = "asking"

Next == ReadLine \/ LastAgain \/ Answer \/ Stop

Spec == Init /\ [][Next]_vars

=============================================================================
