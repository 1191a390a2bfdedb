-------------------------------- MODULE Ast --------------------------------
(***************************************************************************)
(* The tree of bs-c (ast.c, ast.h) as blocks of a C heap: nodes, and the   *)
(* buffers of the vectors inside nodes.                                    *)
(*                                                                         *)
(* A heap is the sequence of all blocks ever allocated; a freed block is   *)
(* replaced by Freed and its address is never handed out again, so a use   *)
(* after free is visible.  A pointer is an index or NULL.  Every operation *)
(* is an operator from heaps to heaps.                                     *)
(*                                                                         *)
(* What the four functions of a node type do (create, clone, print, free)  *)
(* differs only in the node's fields: create stores them, clone copies     *)
(* them, print prints them and free frees them, each in the order of the   *)
(* layout below.  A line number is data nobody looks at and is left out.   *)
(***************************************************************************)
EXTENDS Integers, Sequences, FiniteSets, SequencesExt

CONSTANT FirstCapacity  \* slots of a vector after the first push, 8 in the code

ASSUME FirstCapacityAssumption == FirstCapacity \in Nat \ {0}

NULL == 0

(***************************************************************************)
(* The layout of a node type, as it is printed: "ast" is a child, "else"   *)
(* a child printed inside "(else ...)", "vec" a vector of children,        *)
(* "pairs" a vector of pairs, "data" the plain data of the node (name,     *)
(* operation, value or flag), "decimals" the same of a float.  Anything    *)
(* else is text.                                                           *)
(***************************************************************************)
Lists == [Program |-> <<"(program", "vec", ")">>,
          Block   |-> <<"(block", "data", "vec", ")">>]

Definitions == [Struct   |-> <<"(struct", "data", "ast", ")">>,
                Function |-> <<"(fn", "(params", "vec", ")", "ast", ")">>]

Control == [If    |-> <<"(if", "ast", "ast", "else", ")">>,
            While |-> <<"(while", "ast", "ast", ")">>]

Keywords == [Let     |-> <<"(let", "data", "ast", ")">>,
             Require |-> <<"(require", "data", ")">>,
             Yield   |-> <<"(yield", "ast", ")">>]

Jumps == [Break    |-> <<"(break)">>,
          Continue |-> <<"(continue)">>,
          Return   |-> <<"(return", "ast", ")">>]

Access == [Member |-> <<"(.", "ast", "data", ")">>,
           Index  |-> <<"([]", "ast", "ast", ")">>]

Operations == [Binary     |-> <<"(", "data", "ast", "ast", ")">>,
               Assignment |-> <<"(", "=", "ast", "ast", ")">>,
               Unary      |-> <<"(", "data", "ast", ")">>]

Calls == [Call    |-> <<"(call", "ast", "vec", ")">>,
          Self    |-> <<"self">>,
          Varargs |-> <<"varargs">>]

\* Mutant: sets print as arrays.
Collections_same_name == [Array      |-> <<"(arr", "vec", ")">>,
                          Set        |-> <<"(arr", "vec", ")">>,
                          Dictionary |-> <<"(dict", "pairs", ")">>]

Collections == [Array      |-> <<"(arr", "vec", ")">>,
                Set        |-> <<"(set", "vec", ")">>,
                Dictionary |-> <<"(dict", "pairs", ")">>]

Leaves == [String     |-> <<"quote", "data", "quote">>,
           Identifier |-> <<"data">>,
           Float      |-> <<"decimals">>,
           Integer    |-> <<"data">>,
           Boolean    |-> <<"data">>,
           Ellipsis   |-> <<"...">>,
           Nil        |-> <<"nil">>]

Layout == Lists @@ Definitions @@ Control @@ Keywords @@ Jumps @@ Access
            @@ Operations @@ Calls @@ Collections @@ Leaves

Types == DOMAIN Layout
VecSorts == {"vec", "pairs"}
FieldSorts == {"ast", "else"} \cup VecSorts

\* The sorts of the fields of a node type, in order.
Fields == [type \in Types |-> SelectSeq(Layout[type], LAMBDA s : s \in FieldSorts)]

-----------------------------------------------------------------------------
(***************************************************************************)
(* Blocks.                                                                 *)
(***************************************************************************)
Freed == [type |-> "freed"]
Node(type, data, fields) == [type |-> type, data |-> data, fields |-> fields]
Buffer(items, room) == [type |-> "buffer", items |-> items, room |-> room]

Live(h) == {a \in DOMAIN h : h[a] # Freed}
LiveNodes(h) == {a \in Live(h) : h[a].type # "buffer"}

\* A vector, as a struct held by value: struct AstVec or struct AstPairVec.
\* length and capacity count elements; a pair takes two slots of a buffer.
EmptyVec == [data |-> NULL, length |-> 0, capacity |-> 0]
Width(sort) == IF sort = "pairs" THEN 2 ELSE 1

Slots(h, sort, vec) ==
    IF vec.data \notin Live(h) THEN <<>>
    ELSE SubSeq(h[vec.data].items, 1, Width(sort) * vec.length)

\* The children in one field of a node, in order.
FieldTrees(h, sort, field) == IF sort \in VecSorts THEN Slots(h, sort, field) ELSE <<field>>

\* Mutant: the address realloc() returns is not stored in a vector that grows.
Moved_not_stored(h, vec) == IF vec.data = NULL THEN Len(h) + 1 ELSE vec.data

\* Where realloc() leaves the buffer of a full vector: it may move it, and here
\* always does.
Moved(h, vec) == Len(h) + 1

\* Mutant: doubling a capacity of zero.
Grown_never_first(vec) == 2 * vec.capacity

\* The capacity of a full vector after a push.
Grown(vec) == IF vec.capacity = 0 THEN FirstCapacity ELSE 2 * vec.capacity

\* Pushing one element, a pointer or a pair of pointers.  The result is a heap
\* and a vector.
vec_push(h, vec, element) ==
    LET w     == Len(element)
        grown == Grown(vec)
        old   == IF vec.data = NULL THEN <<>> ELSE h[vec.data].items
        items == SubSeq(old, 1, w * vec.length) \o element
        freed == IF vec.data = NULL THEN h ELSE [h EXCEPT ![vec.data] = Freed]
    IN IF vec.length = vec.capacity
       THEN [heap |-> Append(freed, Buffer(items, w * grown)),
             vec  |-> [data     |-> Moved(h, vec),
                       length   |-> vec.length + 1,
                       capacity |-> grown]]
       ELSE [heap |-> [h EXCEPT ![vec.data].items = items],
             vec  |-> [vec EXCEPT !.length = @ + 1]]

\* Room for the elements of a cloned vector: one pointer for each, also where
\* an element is a pair (sizeof(struct AstPair*)).
CloneRoom(sort, vec) == vec.capacity

-----------------------------------------------------------------------------
(***************************************************************************)
(* ast_clone().  The result is a heap and the address of the copy; fits    *)
(* says whether every buffer had room for what was written to it.          *)
(***************************************************************************)
RECURSIVE ast_clone(_, _)

\* The copies of a sequence of pointers, made one after the other.
CloneAll(h, pointers) ==
    FoldLeft(LAMBDA done, p :
                LET copy == ast_clone(done.heap, p)
                IN [heap |-> copy.heap,
                    fits |-> done.fits /\ copy.fits,
                    at   |-> Append(done.at, copy.at)],
             [heap |-> h, fits |-> TRUE, at |-> <<>>],
             pointers)

\* Mutant: a cloned vector keeps the buffer of its origin.
vec_clone_shared(h, sort, vec) == [heap |-> h, fits |-> TRUE, field |-> vec]

vec_clone(h, sort, vec) ==
    LET slots == Slots(h, sort, vec)
        room  == CloneRoom(sort, vec)
        here  == Len(h) + 1
        all   == CloneAll(Append(h, Buffer(<<>>, room)), slots)
    IN [heap  |-> [all.heap EXCEPT ![here].items = all.at],
        fits  |-> all.fits /\ Len(slots) =< room,
        field |-> [vec EXCEPT !.data = here]]

field_clone(h, sort, field) ==
    IF sort \in VecSorts THEN vec_clone(h, sort, field)
    ELSE LET copy == ast_clone(h, field)
         IN [heap |-> copy.heap, fits |-> copy.fits, field |-> copy.at]

ast_clone(h, a) ==
    IF a = NULL THEN [heap |-> h, fits |-> TRUE, at |-> NULL]
    ELSE LET node  == h[a]
             here  == Len(h) + 1
             sorts == Fields[node.type]
             all   == FoldLeft(LAMBDA done, i :
                                 LET copy == field_clone(done.heap, sorts[i], node.fields[i])
                                 IN [heap   |-> copy.heap,
                                     fits   |-> done.fits /\ copy.fits,
                                     fields |-> Append(done.fields, copy.field)],
                               [heap |-> Append(h, node), fits |-> TRUE, fields |-> <<>>],
                               [i \in DOMAIN sorts |-> i])
         IN [heap |-> [all.heap EXCEPT ![here].fields = all.fields],
             fits |-> all.fits, at |-> here]

-----------------------------------------------------------------------------
(***************************************************************************)
(* ast_free(): Released(h)[a] is the sequence of blocks it passes to       *)
(* free(), as the heap is before.  The walk reads each node and buffer     *)
(* before it frees it, so an address that comes twice, or is dead already, *)
(* is a use after free or a double free.                                   *)
(***************************************************************************)
\* Mutant: ast_free() forgets the buffers of vectors.
BufferOf_leaked(sort, field) == <<>>

BufferOf(sort, field) ==
    IF sort \in VecSorts /\ field.data # NULL THEN <<field.data>> ELSE <<>>

Released(h) ==
    LET r[a \in Nat] ==
            IF a = NULL THEN <<>>
            ELSE IF a \notin Live(h) THEN <<a>>
            ELSE LET sorts == Fields[h[a].type]
                     below(i) ==
                       LET field == h[a].fields[i]
                           trees == FieldTrees(h, sorts[i], field)
                       IN FlattenSeq([j \in DOMAIN trees |-> r[trees[j]]])
                             \o BufferOf(sorts[i], field)
                 IN FlattenSeq([i \in DOMAIN sorts |-> below(i)]) \o <<a>>
    IN r

FreeIsSafe(h, a) == LET walk == Released(h)[a]
                    IN IsInjective(walk) /\ ToSet(walk) \subseteq Live(h)

ast_free(h, a) == LET walk == ToSet(Released(h)[a])
                  IN [x \in DOMAIN h |-> IF x \in walk THEN Freed ELSE h[x]]

-----------------------------------------------------------------------------
\* Floats, as a source has them, and what "%lf" makes of them: it has six decimals, and
\* a number no double can hold has been read as infinity.
Decimals == ("0.5" :> "0.500000") @@ ("0.0000001" :> "0.000000") @@ ("0.0000002" :> "0.000000")
              @@ ("1000...0.0" :> "inf")

(***************************************************************************)
(* ast_print(): the pieces of text in the order of writing.                *)
(***************************************************************************)
Printed(h) ==
    LET p[a \in Nat] ==
          IF a = NULL THEN <<>>
          ELSE LET node   == h[a]
                   layout == Layout[node.type]
                   nth(i) == Len(SelectSeq(SubSeq(layout, 1, i), LAMBDA s : s \in FieldSorts))
                   piece(i) ==
                     LET s == layout[i]
                     IN CASE s = "data" -> <<node.data>>
                          [] s = "decimals" -> <<Decimals[node.data]>>
                          [] s = "ast"  -> p[node.fields[nth(i)]]
                          [] s = "vec"  ->
                               LET slots == Slots(h, s, node.fields[nth(i)])
                               IN FlattenSeq([j \in DOMAIN slots |-> p[slots[j]]])
                          [] s = "else" ->
                               LET part == node.fields[nth(i)]
                               IN IF part = NULL THEN <<>> ELSE <<"(else">> \o p[part] \o <<")">>
                          [] s = "pairs" ->
                               LET slots == Slots(h, s, node.fields[nth(i)])
                               IN FlattenSeq([j \in 1..(Len(slots) \div 2) |->
                                     <<"(kvpair">> \o p[slots[2 * j - 1]] \o p[slots[2 * j]] \o <<")">>])
                          [] OTHER -> <<s>>
               IN FlattenSeq([i \in DOMAIN layout |-> piece(i)])
    IN p

-----------------------------------------------------------------------------
(***************************************************************************)
(* The tree at an address as a value: type, data, and for each field the   *)
(* sequence of the values in it.                                           *)
(***************************************************************************)
Missing == [type |-> "missing", data |-> "", fields |-> <<>>]
Term(type, data, fields) == [type |-> type, data |-> data, fields |-> fields]

Value(h) ==
    LET v[a \in Nat] ==
          IF a \notin Live(h) THEN Missing
          ELSE LET node == h[a]
               IN Term(node.type, node.data,
                       [i \in DOMAIN node.fields |->
                          LET trees == FieldTrees(h, Fields[node.type][i], node.fields[i])
                          IN [j \in DOMAIN trees |-> v[trees[j]]]])
    IN v

\* The pointers a node or a buffer holds.
Pointers(h, a) ==
    LET block == h[a]
    IN IF block.type = "buffer" THEN block.items
       ELSE [i \in DOMAIN block.fields |->
               IF Fields[block.type][i] \in VecSorts THEN block.fields[i].data ELSE block.fields[i]]

=============================================================================
