------------------------------- MODULE CodeGen -------------------------------
(***************************************************************************)
(* The code generator (code-gen.c).  emit() is recursive; todo is its      *)
(* call stack: trees for which emit() is still to be called, and, when the *)
(* calls before them have returned, operators whose opcode is to be pushed *)
(* and bytes to be pushed.  Nothing ever returns false; what is not        *)
(* implemented ends the process.                                           *)
(***************************************************************************)
EXTENDS Chunk

CONSTANT Trees  \* what emit() may be called with, but for a whole program

VARIABLES chunk,  \* the chunk that is written to, with the memory tracker
          todo    \* pending calls, the next one first

\* Operators the code generator has no code for, and those that have an opcode
\* of the same name.
ShortCircuit == {"LogicalAnd", "LogicalOr"}
UnaryOperators == {"Minus", "BitNot", "LogicalNot"}
Operators == {OpCodes[op] : op \in 7..Len(OpCodes)}

\* The data of a leaf is its value, that of an operation its operator.
ASSUME TreesAssumption ==
    /\ Trees \subseteq [type : STRING, data : STRING, parts : Seq(Trees)]
    /\ \A tree \in Trees :
         /\ tree.type # "Program"
         /\ tree.type = "Binary" =>
              tree.data \in (Operators \ UnaryOperators) \cup ShortCircuit /\ Len(tree.parts) = 2
         /\ tree.type = "Unary" => tree.data \in UnaryOperators /\ Len(tree.parts) = 1
         /\ tree.type = "Boolean" => tree.data \in {"true", "false"}
         /\ tree.type = "Nil" => tree.data = ""
         /\ tree.type \in {"Float", "Integer", "Boolean", "Nil"} => tree.parts = <<>>

Ast(type, data, parts) == [type |-> type, data |-> data, parts |-> parts]

Emit(tree) == [what |-> "emit", tree |-> tree]
Operate(op) == [what |-> "operate", op |-> op]
Push(bytes) == [k \in DOMAIN bytes |-> [what |-> "push", byte |-> bytes[k]]]

IsNext(type) == todo # <<>> /\ Head(todo).what = "emit" /\ Head(todo).tree.type = type
EmitAll(trees) == [k \in DOMAIN trees |-> Emit(trees[k])]

emit_program ==
    /\ IsNext("Program")
    /\ todo' = EmitAll(Head(todo).tree.parts) \o Tail(todo)
    /\ UNCHANGED chunk

\* and, or: UNIMPLEMENTED() comes when the operands have been emitted.
emit_binary ==
    /\ IsNext("Binary")
    /\ LET tree == Head(todo).tree
       IN todo' = EmitAll(tree.parts) \o <<Operate(tree.data)>> \o Tail(todo)
    /\ UNCHANGED chunk

emit_unary ==
    /\ IsNext("Unary")
    /\ LET tree == Head(todo).tree
       IN todo' = EmitAll(tree.parts) \o <<Operate(tree.data)>> \o Tail(todo)
    /\ UNCHANGED chunk

\* chunk_push_byte(), and each byte of chunk_push_word() and chunk_push_dword().
push_byte ==
    /\ todo # <<>> /\ Head(todo).what = "push"
    /\ chunk' = code_vec_push(chunk, Head(todo).byte)
    /\ todo' = Tail(todo)

\* The end of emit_binary() and emit_unary(): the opcode of the operator's name.
push_operation ==
    /\ todo # <<>> /\ Head(todo).what = "operate" /\ Head(todo).op \notin ShortCircuit
    /\ todo' = Push(<<OP(Head(todo).op)>>) \o Tail(todo)
    /\ UNCHANGED chunk

\* Mutant: <= instead of < at the limit of one byte.
emit_const_one_byte_more(index) ==
    CASE index =< Byte -> <<OP("Const1B"), index % Byte>>
      [] Byte < index /\ index < Byte * Byte -> <<OP("Const2B")>> \o chunk_push_word(index)
      [] OTHER -> <<OP("Const4B")>> \o chunk_push_dword(index)

emit_const(index) ==
    CASE index < Byte -> <<OP("Const1B"), index>>
      [] Byte =< index /\ index < Byte * Byte -> <<OP("Const2B")>> \o chunk_push_word(index)
      [] OTHER -> <<OP("Const4B")>> \o chunk_push_dword(index)

\* There is no instruction for more constants.
ConstantsSuffice == Len(chunk.values.items) < (Byte * Byte) * (Byte * Byte)

emit_number ==
    /\ IsNext("Float") \/ IsNext("Integer")
    /\ ConstantsSuffice
    /\ LET tree == Head(todo).tree
       IN chunk' = value_vec_push(chunk, [type |-> tree.type, value |-> tree.data])
    /\ todo' = Push(emit_const(Len(chunk.values.items))) \o Tail(todo)

emit_literal ==
    /\ IsNext("Boolean") \/ IsNext("Nil")
    /\ LET tree == Head(todo).tree
           op   == CASE tree.type = "Nil"    -> "Nil"
                     [] tree.data = "true"  -> "True"
                     [] tree.data = "false" -> "False"
       IN todo' = Push(<<OP(op)>>) \o Tail(todo)
    /\ UNCHANGED chunk

\* What emit() has a case for.
Implemented == {"Program", "Binary", "Unary", "Float", "Integer", "Boolean", "Nil"}

\* UNIMPLEMENTED() is about to end the process.
AtUnimplemented ==
    /\ todo # <<>>
    /\ \/ Head(todo).what = "operate" /\ Head(todo).op \in ShortCircuit
       \/ /\ Head(todo).what = "emit"
          /\ \/ Head(todo).tree.type \notin Implemented
             \/ Head(todo).tree.type \in {"Float", "Integer"} /\ ~ConstantsSuffice

emit == \/ emit_program \/ emit_binary \/ emit_unary \/ push_operation
        \/ emit_number \/ emit_literal \/ push_byte

=============================================================================
