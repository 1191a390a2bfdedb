---------------------------- MODULE TreeBuilder ----------------------------
(***************************************************************************)
(* The tree-building part of parser.c and the life of a tree afterwards:   *)
(* each action is one call of an ast_..._create() function with what the   *)
(* parser does around it to the C variables that hold trees and vectors,   *)
(* or one of the functions parse() and bs_interpret() call on the result.  *)
(*                                                                         *)
(* Which action may come when is the grammar of parser.c (module Parser),  *)
(* here reduced to the kinds of the items on the stack.  A syntax error    *)
(* does not stop the parser from building: a tree it could not read is a   *)
(* NULL, and parse() frees what was built.                                 *)
(***************************************************************************)
EXTENDS Ast, TLC

CONSTANT Menus  \* records of actions that occur together, and of bounds on the
                \* blocks and the C variables in use before an action

VARIABLES menu,       \* the actions and bounds of this behaviour
          heap,       \* the blocks, see Ast
          locals,     \* the C variables that hold trees or vectors, innermost last
          fault       \* a block was used after it was freed, freed twice, or overrun

vars == <<menu, heap, locals, fault>>

\* A C variable: its kind, the tree it points to and the vector it holds.
\* A "primary" or "arguments" item is a frame of primary() with ret and
\* arguments, the latter while the parser is between the parentheses of a call.
Kinds == {"expression", "statement", "block", "struct body", "struct", "program", "primary", "arguments",
          "expressions", "parameters", "members", "statements", "pairs"}
Item(kind, at, vec) == [kind |-> kind, at |-> at, vec |-> vec]
Tree(kind, at) == Item(kind, at, EmptyVec)
List(kind) == Item(kind, NULL, EmptyVec)

Top(n) == locals[Len(locals) - n + 1]
Below(n) == SubSeq(locals, 1, Len(locals) - n)
KindsOnTop(kinds) ==
    /\ Len(locals) >= Len(kinds)
    /\ \A n \in DOMAIN kinds : Top(Len(kinds) - n + 1).kind \in kinds[n]

\* A finished statement may always be put into the program.
Allowed(name) ==
    /\ name \in menu.actions
    /\ Len(locals) =< menu.depth
    /\ Len(heap) =< menu.blocks \/ (name = "append" /\ Len(locals) = 2)

Push(item) == locals' = Append(locals, item)

\* ast_..._create() of a node over the n topmost items, which it replaces.
Create(type, data, fields, kind, n) ==
    /\ heap' = Append(heap, Node(type, data, fields))
    /\ locals' = Append(Below(n), Tree(kind, Len(heap) + 1))
    /\ UNCHANGED <<menu, fault>>

Init ==
    /\ menu \in Menus
    /\ heap = <<>>
    /\ locals = <<List("statements")>>
    /\ fault = FALSE

-----------------------------------------------------------------------------
(***************************************************************************)
(* Trees without children, and no tree at all.                             *)
(***************************************************************************)
\* Names that are none of the words of the language and print like a value.
OddNames == {"nil", "inf"}

\* What a leaf of each type may hold.
LeafData == [type \in {"Nil", "Self", "Varargs"} |-> {""}]
              @@ [type \in {"Boolean", "Integer", "String", "Require"} |-> {type}]
              @@ [Float      |-> DOMAIN Decimals,
                  Identifier |-> {"Identifier"} \cup IF "odd names" \in menu.actions THEN OddNames ELSE {}]

leaf ==
    \E leaf_type \in DOMAIN LeafData : \E data \in LeafData[leaf_type] :
        /\ Allowed(leaf_type)
        /\ Create(leaf_type, data, <<>>, "expression", 0)

no_tree ==
    /\ Allowed("no_tree")
    /\ Push(Tree("expression", NULL))
    /\ UNCHANGED <<menu, heap, fault>>

jump ==
    \/ \E type \in {"Break", "Continue"} :
        /\ Allowed(type)
        /\ Create(type, "", <<>>, "statement", 0)
    \/ /\ Allowed("Return")
       /\ Create("Return", "", <<NULL>>, "statement", 0)
    \/ /\ Allowed("Return")
       /\ KindsOnTop(<<{"expression"}>>)
       /\ Create("Return", "", <<Top(1).at>>, "statement", 1)

-----------------------------------------------------------------------------
(***************************************************************************)
(* Operators, yield, if, while.                                            *)
(***************************************************************************)
unary ==
    \E op \in {"-", "not"} :
        /\ Allowed("unary")
        /\ KindsOnTop(<<{"expression"}>>)
        /\ Create("Unary", op, <<Top(1).at>>, "expression", 1)

binary ==
    \E op \in {"+", "-"} :
        /\ Allowed("binary")
        /\ KindsOnTop(<<{"expression"}, {"expression"}>>)
        /\ Create("Binary", op, <<Top(2).at, Top(1).at>>, "expression", 2)

yield ==
    /\ Allowed("yield")
    /\ KindsOnTop(<<{"expression"}>>)
    /\ Create("Yield", "", <<Top(1).at>>, "expression", 1)

if_statement_suffix ==
    \/ /\ Allowed("if")
       /\ KindsOnTop(<<{"expression"}, {"block"}>>)
       /\ Create("If", "", <<Top(2).at, Top(1).at, NULL>>, "expression", 2)
    \/ /\ Allowed("if")
       /\ KindsOnTop(<<{"expression"}, {"block"}, {"block"}>>)
       /\ Create("If", "", <<Top(3).at, Top(2).at, Top(1).at>>, "expression", 3)

while_statement ==
    /\ Allowed("while")
    /\ KindsOnTop(<<{"expression"}, {"block"}>>)
    /\ Create("While", "", <<Top(2).at, Top(1).at>>, "statement", 2)

-----------------------------------------------------------------------------
(***************************************************************************)
(* Vectors: each is begun empty, filled with the tree on top, and moved    *)
(* into a node.                                                            *)
(***************************************************************************)
vec_init ==
    \E kind \in {"expressions", "parameters", "members", "statements", "pairs"} :
        /\ Allowed(kind)
        /\ Push(List(kind))
        /\ UNCHANGED <<menu, heap, fault>>

\* Which trees a vector takes.
Elements == [expressions |-> {"expression"}, arguments |-> {"expression"},
             members |-> {"statement"}, statements |-> {"expression", "statement"}]

append ==
    \E kind \in DOMAIN Elements :
        /\ Allowed("append")
        /\ KindsOnTop(<<{kind}, Elements[kind]>>)
        /\ LET pushed == vec_push(heap, Top(2).vec, <<Top(1).at>>)
           IN /\ heap' = pushed.heap
              /\ locals' = Append(Below(2), [Top(2) EXCEPT !.vec = pushed.vec])
        /\ UNCHANGED <<menu, fault>>

\* parameters() creates the node of a parameter and pushes it at once.
parameters ==
    \E type \in {"Self", "Identifier", "Ellipsis"} :
        /\ Allowed("parameter")
        /\ KindsOnTop(<<{"parameters"}>>)
        /\ LET created == Append(heap, Node(type, IF type = "Identifier" THEN type ELSE "", <<>>))
               pushed  == vec_push(created, Top(1).vec, <<Len(created)>>)
           IN /\ heap' = pushed.heap
              /\ locals' = Append(Below(1), [Top(1) EXCEPT !.vec = pushed.vec])
        /\ UNCHANGED <<menu, fault>>

append_pair ==
    /\ Allowed("append")
    /\ KindsOnTop(<<{"pairs"}, {"expression"}, {"expression"}>>)
    /\ LET pushed == vec_push(heap, Top(3).vec, <<Top(2).at, Top(1).at>>)
       IN /\ heap' = pushed.heap
          /\ locals' = Append(Below(3), [Top(3) EXCEPT !.vec = pushed.vec])
    /\ UNCHANGED <<menu, fault>>

array_or_set ==
    \E type \in {"Array", "Set"} :
        /\ Allowed(type)
        /\ KindsOnTop(<<{"expressions"}>>)
        /\ Create(type, "", <<Top(1).vec>>, "expression", 1)

dictionary ==
    /\ Allowed("pairs")
    /\ KindsOnTop(<<{"pairs"}>>)
    /\ Create("Dictionary", "", <<Top(1).vec>>, "expression", 1)

block_statement ==
    \E flag \in {"ret", "noret"} :
        /\ Allowed("block")
        /\ Len(locals) > 1
        /\ KindsOnTop(<<{"statements"}>>)
        /\ Create("Block", flag, <<Top(1).vec>>, "block", 1)

-----------------------------------------------------------------------------
(***************************************************************************)
(* primary(): its frame holds the tree read so far (ret) and the vector    *)
(* for arguments, which is initialised once for all calls of a chain.      *)
(***************************************************************************)
primary ==
    /\ Allowed("primary")
    /\ KindsOnTop(<<{"expression"}>>)
    /\ locals' = Append(Below(1), Tree("primary", Top(1).at))
    /\ UNCHANGED <<menu, heap, fault>>

member ==
    /\ Allowed("member")
    /\ KindsOnTop(<<{"primary"}>>)
    /\ heap' = Append(heap, Node("Member", "name", <<Top(1).at>>))
    /\ locals' = Append(Below(1), [Top(1) EXCEPT !.at = Len(heap) + 1])
    /\ UNCHANGED <<menu, fault>>

index ==
    /\ Allowed("index")
    /\ KindsOnTop(<<{"primary"}, {"expression"}>>)
    /\ heap' = Append(heap, Node("Index", "", <<Top(2).at, Top(1).at>>))
    /\ locals' = Append(Below(2), [Top(2) EXCEPT !.at = Len(heap) + 1])
    /\ UNCHANGED <<menu, fault>>

\* "call" is a call while the vector is empty; "another call" is one behind a
\* call that had arguments.
call_open ==
    /\ KindsOnTop(<<{"primary"}>>)
    /\ Allowed(IF Top(1).vec = EmptyVec THEN "call" ELSE "another call")
    /\ locals' = Append(Below(1), [Top(1) EXCEPT !.kind = "arguments"])
    /\ UNCHANGED <<menu, heap, fault>>

call_close ==
    /\ Allowed("call")
    /\ KindsOnTop(<<{"arguments"}>>)
    /\ heap' = Append(heap, Node("Call", "", <<Top(1).at, Top(1).vec>>))
    /\ locals' = Append(Below(1), Item("primary", Len(heap) + 1, Top(1).vec))
    /\ UNCHANGED <<menu, fault>>

primary_end ==
    /\ Allowed("primary")
    /\ KindsOnTop(<<{"primary"}>>)
    /\ locals' = Append(Below(1), Tree("expression", Top(1).at))
    /\ UNCHANGED <<menu, heap, fault>>

-----------------------------------------------------------------------------
(***************************************************************************)
(* Assignments.  A compound one clones its left-hand side.  "assign" and   *)
(* "compound" are those whose left side has no dictionary that overruns    *)
(* its clone; "compound any" has them all.                                 *)
(***************************************************************************)
Assignable ==
    LET lhs[at \in Nat] ==
          /\ at # NULL
          /\ \/ heap[at].type \in {"Identifier", "Self"}
             \/ heap[at].type \in {"Member", "Index", "Call"} /\ lhs[heap[at].fields[1]]
    IN lhs

assignment ==
    /\ Allowed("assign")
    /\ KindsOnTop(<<{"expression"}, {"expression"}>>)
    /\ Assignable[Top(2).at]
    /\ Create("Assignment", "", <<Top(2).at, Top(1).at>>, "statement", 2)

\* Mutant: the operands of a compound assignment are swapped.
Compound_swapped(copy, rhs) == <<rhs, copy>>

Compound(copy, rhs) == <<copy, rhs>>

compound_assignment ==
    /\ KindsOnTop(<<{"expression"}, {"expression"}>>)
    /\ Assignable[Top(2).at]
    /\ \E op \in {"+", "-"} :
         LET clone == ast_clone(heap, Top(2).at)
             h1 == Append(clone.heap, Node("Binary", op, Compound(clone.at, Top(1).at)))
             h2 == Append(h1, Node("Assignment", "", <<Top(2).at, Len(h1)>>))
         IN /\ Allowed(IF clone.fits THEN "compound" ELSE "compound any")
            /\ heap' = h2
            /\ locals' = Append(Below(2), Tree("statement", Len(h2)))
            /\ fault' = (fault \/ ~clone.fits)
    /\ UNCHANGED menu

-----------------------------------------------------------------------------
(***************************************************************************)
(* Declarations.                                                           *)
(***************************************************************************)
lambda ==
    /\ Allowed("function")
    /\ KindsOnTop(<<{"parameters"}, {"block"}>>)
    /\ Create("Function", "", <<Top(2).vec, Top(1).at>>, "expression", 2)

let_declaration ==
    /\ Allowed("let")
    /\ KindsOnTop(<<{"expression", "struct"}>>)
    /\ Create("Let", "name", <<Top(1).at>>, "statement", 1)

struct_declaration ==
    /\ Allowed("members")
    /\ \/ /\ KindsOnTop(<<{"members"}>>)
          /\ Create("Block", "noret", <<Top(1).vec>>, "struct body", 1)
       \/ /\ KindsOnTop(<<{"struct body"}>>)
          /\ Create("Struct", "name", <<Top(1).at>>, "struct", 1)

-----------------------------------------------------------------------------
(***************************************************************************)
(* for_statement(): the loop is rewritten with clones of four identifiers  *)
(* and of a call.  ast_iterator and ast_next are only cloned from; nobody  *)
(* keeps them.                                                             *)
(***************************************************************************)
Lost == {"__iter", "next"}

\* A statement of the function: what it assigns to, whether it clones, pushes or
\* creates a node of a type, and the variables it uses.
Do(to, how, data, from) == [to |-> to, how |-> how, data |-> data, from |-> from]

Desugared == <<
    Do("ast_iterator", "Identifier", "__iter", <<>>),
    Do("ast_identifier", "Identifier", "i", <<>>),
    Do("ast_next", "Identifier", "next", <<>>),
    Do("iterator2", "clone", "", <<"ast_iterator">>),
    Do("next_args", "push", "", <<"iterator2">>),
    Do("next2", "clone", "", <<"ast_next">>),
    Do("call_next", "Call", "", <<"next2", "next_args">>),
    Do("let1", "Let", "__iter", <<"generator">>),
    Do("statements", "push", "", <<"let1">>),
    Do("call2", "clone", "", <<"call_next">>),
    Do("let2", "Let", "i", <<"call2">>),
    Do("statements", "push", "", <<"let2">>),
    Do("identifier2", "clone", "", <<"ast_identifier">>),
    Do("nil", "Nil", "", <<>>),
    Do("condition", "Binary", "!=", <<"identifier2", "nil">>),
    Do("update", "Assignment", "", <<"ast_identifier", "call_next">>),
    Do("body->statements", "push", "", <<"update">>),
    Do("while", "While", "", <<"condition", "body">>),
    Do("statements", "push", "", <<"while">>),
    Do("block", "Block", "noret", <<"statements">>) >>

\* Carrying one out on a heap and the values of the variables.
Done(s, do) ==
    LET made == CASE do.how = "clone" -> ast_clone(s.heap, s.var[do.from[1]])
                  [] do.how = "push"  -> vec_push(s.heap, s.var[do.to], <<s.var[do.from[1]]>>)
                  [] OTHER -> [heap |-> Append(s.heap, Node(do.how, do.data,
                                          [n \in DOMAIN do.from |-> s.var[do.from[n]]])),
                               at   |-> Len(s.heap) + 1]
    IN [heap |-> made.heap,
        var  |-> (do.to :> IF do.how = "push" THEN made.vec ELSE made.at) @@ s.var]

for_statement ==
    /\ Allowed("for")
    /\ KindsOnTop(<<{"expression"}, {"block"}>>)
    /\ LET body == Top(1).at
           var  == [generator |-> Top(2).at, body |-> body,
                    statements |-> EmptyVec, next_args |-> EmptyVec]
                     @@ ("body->statements" :> heap[body].fields[1])
           done == FoldLeft(Done, [heap |-> heap, var |-> var], Desugared)
       IN /\ heap' = [done.heap EXCEPT ![body].fields[1] = done.var["body->statements"]]
          /\ locals' = Append(Below(2), Tree("statement", done.var["block"]))
    /\ UNCHANGED <<menu, fault>>

-----------------------------------------------------------------------------
(***************************************************************************)
(* The end: parse() keeps the program or frees it, bs_interpret() prints   *)
(* it, generates code from it and frees it.  A tree with a NULL in it is   *)
(* never kept (NullNeverAccepted of Parser); one without may still follow  *)
(* a syntax error.                                                         *)
(***************************************************************************)
HasHole(h) ==
    \E a \in LiveNodes(h) : \E i \in DOMAIN h[a].fields :
        /\ Fields[h[a].type][i] # "else" /\ h[a].type # "Return"
        /\ NULL \in ToSet(FieldTrees(h, Fields[h[a].type][i], h[a].fields[i]))

parse ==
    /\ Len(locals) = 1
    /\ KindsOnTop(<<{"statements"}>>)
    /\ LET program == Append(heap, Node("Program", "", <<Top(1).vec>>))
           root    == Len(heap) + 1
       IN \/ /\ ~HasHole(program)
             /\ heap' = program
             /\ locals' = <<Tree("program", root)>>
             /\ UNCHANGED fault
          \/ /\ heap' = ast_free(program, root)
             /\ locals' = <<>>
             /\ fault' = (fault \/ ~FreeIsSafe(program, root))
    /\ UNCHANGED menu

bs_interpret ==
    /\ KindsOnTop(<<{"program"}>>)
    /\ heap' = ast_free(heap, Top(1).at)
    /\ locals' = <<>>
    /\ fault' = (fault \/ ~FreeIsSafe(heap, Top(1).at))
    /\ UNCHANGED menu

Next ==
    \/ leaf \/ no_tree \/ jump \/ unary \/ binary \/ yield
    \/ if_statement_suffix \/ while_statement
    \/ vec_init \/ append \/ parameters \/ append_pair
    \/ array_or_set \/ dictionary \/ block_statement
    \/ primary \/ member \/ index \/ call_open \/ call_close \/ primary_end
    \/ assignment \/ compound_assignment
    \/ lambda \/ let_declaration \/ struct_declaration \/ for_statement
    \/ parse \/ bs_interpret

Spec == Init /\ [][Next]_vars

-----------------------------------------------------------------------------
(***************************************************************************)
(* Properties.                                                             *)
(***************************************************************************)
VecOK(vec) ==
    /\ vec.data \in 0..Len(heap)
    /\ vec.capacity \in Nat
    /\ vec.length \in 0..vec.capacity

\* The variables keep their shape: pointers stay inside the heap, a vector is
\* never longer than its capacity.
TypeOK ==
    /\ menu \in Menus
    /\ fault \in BOOLEAN
    /\ \A a \in LiveNodes(heap) :
         /\ heap[a].type \in Types
         /\ Len(heap[a].fields) = Len(Fields[heap[a].type])
         /\ \A i \in DOMAIN heap[a].fields :
              IF Fields[heap[a].type][i] \in VecSorts THEN VecOK(heap[a].fields[i])
              ELSE heap[a].fields[i] \in 0..Len(heap)
    /\ \A n \in DOMAIN locals :
         locals[n].kind \in Kinds /\ locals[n].at \in 0..Len(heap) /\ VecOK(locals[n].vec)

\* No block is used after it was freed or freed twice, and no buffer overrun,
\* whatever is built, cloned, moved and freed (ast.c as used by parser.c).
NoFault == ~fault

\* The owners of blocks: fields of live nodes, slots of buffers, C variables.
\* The vector of a primary() frame owns its buffer only during a call.
Owners ==
    LET held(x) == <<x.at>> \o IF x.kind = "primary" THEN <<>> ELSE <<x.vec.data>>
        in(a)   == IF heap[a] = Freed THEN <<>> ELSE Pointers(heap, a)
        all     == FlattenSeq([a \in DOMAIN heap |-> in(a)])
                     \o FlattenSeq([n \in DOMAIN locals |-> held(locals[n])])
    IN SelectSeq(all, LAMBDA p : p # NULL)

\* Each node and each buffer has one owner at most, and what is owned is live:
\* the nodes of parser.c form trees, and a clone shares nothing with its origin.
OneOwner == IsInjective(Owners) /\ ToSet(Owners) \subseteq Live(heap)

\* What nobody owns any more has been freed, also behind a syntax error; all
\* that is ever lost are two identifiers of each for loop.
NothingElseLost ==
    \A a \in Live(heap) \ ToSet(Owners) : heap[a].type = "Identifier" /\ heap[a].data \in Lost

\* bs_interpret() prints two different trees of a program in different ways, but for
\* leaves that are printed alike: floats that agree in six decimals, and a name that
\* looks like a value.
PrintsTellTreesApart ==
    KindsOnTop(<<{"program"}>>) =>
        LET print == [a \in LiveNodes(heap) |-> Printed(heap)[a]]
            shown == [a \in DOMAIN heap |->
                        IF heap[a].type \in {"Float", "Identifier", "Nil"} THEN Node("word", print[a][1], <<>>)
                        ELSE heap[a]]
            value == [a \in LiveNodes(heap) |-> Value(shown)[a]]
        IN \A a, b \in LiveNodes(heap) : print[a] = print[b] => value[a] = value[b]

\* The stack of C variables as a stack of values.
ItemValue(x) ==
    LET slots == Slots(heap, x.kind, x.vec)
    IN [kind |-> x.kind,
        term |-> Value(heap)[x.at],
        list |-> IF x.kind = "primary" THEN <<>>
                 ELSE [j \in DOMAIN slots |-> Value(heap)[slots[j]]]]

Values == INSTANCE Trees WITH trees <- [n \in DOMAIN locals |-> ItemValue(locals[n])]

\* Pointers, vectors moved by value and clones never show: the parser builds
\* trees as if they were values, and a for loop is what its comment says.
TreesAreValues == Values!Spec

=============================================================================
