------------------------------- MODULE Trees -------------------------------
(***************************************************************************)
(* What the parser promises about the tree it builds: trees are values.    *)
(*                                                                         *)
(* The parser holds a stack of items: a tree, or a list of trees still to  *)
(* be put into one, or both (a callee and its arguments).  A step may use  *)
(* the trees of the topmost items, each once and in their order, and       *)
(* leaves every other tree as it is.  Only a compound assignment has a     *)
(* tree twice, and a for loop is the block that parser.c:670-684 writes    *)
(* it out as.  How nodes and vectors are stored is left to the             *)
(* implementation (TreeBuilder), which must not let it show.               *)
(***************************************************************************)
EXTENDS Integers, Sequences, SequencesExt

VARIABLE trees  \* the stack, innermost C variable last

Missing == [type |-> "missing", data |-> "", fields |-> <<>>]
Term(type, data, fields) == [type |-> type, data |-> data, fields |-> fields]
Item(kind, term, list) == [kind |-> kind, term |-> term, list |-> list]

Top(n) == trees[Len(trees) - n + 1]
Below(n) == SubSeq(trees, 1, Len(trees) - n)

\* The trees of a sequence of items, in their order, without missing ones.
Present(terms) == SelectSeq(terms, LAMBDA t : t # Missing)
TreesIn(items) == Present(FlattenSeq([i \in DOMAIN items |-> <<items[i].term>> \o items[i].list]))

\* An empty list is begun or a tree without subtrees is made.
Begin ==
    /\ Len(trees') = Len(trees) + 1
    /\ Front(trees') = trees
    /\ LET new == Last(trees') IN /\ new.list = <<>>
                                  /\ Present(FlattenSeq(new.term.fields)) = <<>>

\* The topmost items become one: a new tree over all their trees, or an item
\* that holds just the same trees.
Combine ==
    \E n \in 1..Len(trees) :
        /\ Len(trees') = Len(trees) - n + 1
        /\ Front(trees') = Below(n)
        /\ LET new  == Last(trees')
               used == TreesIn(SubSeq(trees, Len(trees) - n + 1, Len(trees)))
           IN \/ used = Present(FlattenSeq(new.term.fields)) \o new.list
              \/ used = TreesIn(<<new>>)

\* A tree without subtrees is made inside the innermost list.
Include ==
    /\ Len(trees) > 0
    /\ Len(trees') = Len(trees)
    /\ Front(trees') = Below(1)
    /\ LET new == Last(trees')
       IN /\ new.list # <<>>
          /\ Present(FlattenSeq(Last(new.list).fields)) = <<>>
          /\ new = [Top(1) EXCEPT !.list = Append(@, Last(new.list))]

\* lhs op= rhs is lhs = lhs op rhs.
Compound ==
    /\ Len(trees) >= 2
    /\ \E op \in {"+", "-"} :
         LET lhs == Top(2).term
             sum == Term("Binary", op, << <<lhs>>, <<Top(1).term>> >>)
         IN trees' = Append(Below(2),
                        Item("statement", Term("Assignment", "", << <<lhs>>, <<sum>> >>), <<>>))

\* for i in generator { ... } is
\* { let __iter = generator; let i = next(__iter);
\*   while i != nil { ...; i = next(__iter); } }
ForLoop ==
    /\ Len(trees) >= 2
    /\ Top(1).term.type = "Block"
    /\ LET name(s) == Term("Identifier", s, <<>>)
           next    == Term("Call", "", << <<name("next")>>, <<name("__iter")>> >>)
           body    == Top(1).term
           update  == Term("Assignment", "", << <<name("i")>>, <<next>> >>)
           more    == Term("Binary", "!=", << <<name("i")>>, <<Term("Nil", "", <<>>)>> >>)
           loop    == Term("While", "", << <<more>>,
                           <<Term("Block", body.data, << Append(body.fields[1], update) >>)>> >>)
           let(s, rhs) == Term("Let", s, << <<rhs>> >>)
       IN trees' = Append(Below(2), Item("statement",
                      Term("Block", "noret", << <<let("__iter", Top(2).term), let("i", next), loop>> >>),
                      <<>>))

\* The finished tree is given up.
Drop == Len(trees) = 1 /\ trees' = <<>>

Init == trees = << Item("statements", Missing, <<>>) >>
Next == Begin \/ Include \/ Combine \/ Compound \/ ForLoop \/ Drop
Spec == Init /\ [][Next]_trees

=============================================================================
