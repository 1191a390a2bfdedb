------------------------------ MODULE MCLexer -------------------------------
(***************************************************************************)
(* Sets of sources for checking Lexer: every source up to a length over a  *)
(* small alphabet, and every name that is nearly a keyword.                *)
(***************************************************************************)
EXTENDS Lexer

UpTo(n, alphabet) == UNION {[1 .. k -> alphabet] : k \in 0 .. n}

\* Operators, also with comments between them.
OperatorSources ==
  UpTo(5, {"<", ">", "=", "/", "newline"}) \cup UpTo(4, {".", ";", "!", "=", "|", "*", "space"})
    \cup {<<c, d>> : c \in OperatorStarts, d \in OperatorStarts}

\* Numbers, names and points, each point with a digit behind it.
NumberSources ==
  {s \in UpTo(7, {"0", ".", "a", "space"}) :
     \A k \in DOMAIN s : s[k] = "." => k < Len(s) /\ s[k + 1] = "0"}

\* Strings with escapes, and with the bytes of non-ASCII characters; a token
\* follows the latter, for the text of the end is checked with the last one's.
StringSources ==
  UpTo(6, {"quote", "backslash", "a", "space"})
    \cup {<<"quote">> \o s \o <<"a", "quote", ";">> : s \in UpTo(4, {"backslash", "lead", "cont"})}

\* Lines: strings and comments that span and end them.
LineSources == UpTo(6, {"quote", "newline", "/", "a", "dollar"})

\* Every keyword but nil: cut short, prolonged, and with any letter changed.
Near(w) ==
  {w} \cup {Append(w, c) : c \in {"e", "s", "_", "0"}} \cup {SubSeq(w, 1, k) : k \in 1 .. Len(w) - 1}
      \cup {[w EXCEPT ![k] = c] : k \in 1 .. Len(w), c \in {"a", "i", "o", "t", "n"}}
KeywordSources ==
  (UNION {Near(Keywords[w]) : w \in DOMAIN Keywords}) \ {<<"n", "i", "l">>, <<"n", "i", "i">>}

AllSources ==
  OperatorSources \cup NumberSources \cup StringSources \cup LineSources \cup KeywordSources

\* Sources with points in every place.
PointSources == UpTo(3, {"0", ".", "a"})
=============================================================================
