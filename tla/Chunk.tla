-------------------------------- MODULE Chunk --------------------------------
(***************************************************************************)
(* A chunk of bytecode (bytecode.c, and the vector of value.c): code, and  *)
(* the constants it refers to, in two vectors that grow by doubling and    *)
(* report their sizes to the memory tracker.  A chunk and its tracker are  *)
(* one record here, [mem, code, values], and every operation is an         *)
(* operator on it.                                                         *)
(***************************************************************************)
EXTENDS Memory, Sequences, SequencesExt

CONSTANTS
    Byte,           \* how many values a byte has, 256 in the code
    FirstCapacity   \* elements of a vector after the first push, 8 in the code

ASSUME ByteAssumption == Byte \in Nat /\ Byte >= 2
ASSUME FirstCapacityAssumption == FirstCapacity \in Nat \ {0}

ValueSize == 16  \* sizeof(struct Value)

\* enum OpCode, in its order: an opcode is an index of this sequence.
OpCodes == <<"Nil", "True", "False", "Const1B", "Const2B", "Const4B",
             "Equal", "NotEqual", "LessEqual", "LessThan", "GreaterEqual", "GreaterThan",
             "ShiftLeft", "ShiftRight", "Add", "Subtract", "Multiply", "Divide", "Modulo",
             "BitOr", "BitAnd", "BitXor",
             "Minus", "BitNot", "LogicalNot">>

OP(name) == CHOOSE op \in DOMAIN OpCodes : OpCodes[op] = name

-----------------------------------------------------------------------------
EmptyVec == [items |-> <<>>, capacity |-> 0]
\* Mutant: a vector grows one push too late.
Full_one_late(vec) == Len(vec.items) > vec.capacity

Full(vec) == Len(vec.items) >= vec.capacity

Grown(vec) == IF vec.capacity = 0 THEN FirstCapacity ELSE 2 * vec.capacity
Pushed(vec, x) == [items    |-> Append(vec.items, x),
                   capacity |-> IF Full(vec) THEN Grown(vec) ELSE vec.capacity]

chunk_init(mem) == [mem |-> mem, code |-> EmptyVec, values |-> EmptyVec]

code_vec_push(c, byte) ==
    [c EXCEPT !.code = Pushed(c.code, byte),
              !.mem  = IF Full(c.code) THEN mem_realloc(@, c.code.capacity, Grown(c.code)) ELSE @]

\* Mutant: the old size is given in elements, not in bytes.
value_vec_push_counts_elements(c, value) ==
    [c EXCEPT !.values = Pushed(c.values, value),
              !.mem    = IF Full(c.values)
                         THEN mem_realloc(@, c.values.capacity, Grown(c.values) * ValueSize)
                         ELSE @]

value_vec_push(c, value) ==
    [c EXCEPT !.values = Pushed(c.values, value),
              !.mem    = IF Full(c.values)
                         THEN mem_realloc(@, c.values.capacity * ValueSize, Grown(c.values) * ValueSize)
                         ELSE @]

chunk_fini(c) ==
    [c EXCEPT !.mem = mem_free(mem_free(@, c.code.capacity), c.values.capacity * ValueSize),
              !.code = EmptyVec, !.values = EmptyVec]

\* Mutant: the second byte is forgotten.
chunk_push_word_one_byte(word) == <<word % Byte>>

\* The bytes of little-endian numbers of two and four bytes, which are pushed
\* one by one.
chunk_push_word(word) == <<word % Byte, (word \div Byte) % Byte>>

chunk_push_dword(dword) ==
    LET upper == dword \div (Byte * Byte)
    IN <<dword % Byte, (dword \div Byte) % Byte, upper % Byte, (upper \div Byte) % Byte>>

-----------------------------------------------------------------------------
(***************************************************************************)
(* The disassembler.  Offsets count from zero, as in the code.             *)
(***************************************************************************)
ByteAt(c, offset) == c.code.items[offset + 1]
read_u16(c, at) == ByteAt(c, at) + Byte * ByteAt(c, at + 1)
read_u32(c, at) == read_u16(c, at) + Byte * Byte * read_u16(c, at + 2)

\* The operand bytes of the instruction at offset, zero for all but three.
OperandSize(c, offset) ==
    CASE ByteAt(c, offset) = OP("Const1B") -> 1
      [] ByteAt(c, offset) = OP("Const2B") -> 2
      [] ByteAt(c, offset) = OP("Const4B") -> 4
      [] OTHER -> 0

Index(c, offset) ==
    CASE OperandSize(c, offset) = 1 -> ByteAt(c, offset + 1)
      [] OperandSize(c, offset) = 2 -> read_u16(c, offset + 1)
      [] OperandSize(c, offset) = 4 -> read_u32(c, offset + 1)

\* The assertions of disassemble_..._instruction(), the second of which is
\* reached when the first holds.
ChecksPass(c, offset) ==
    /\ ByteAt(c, offset) \in DOMAIN OpCodes
    /\ LET size == OperandSize(c, offset)
       IN size > 0 => /\ offset + size < Len(c.code.items)
                      /\ Index(c, offset) < Len(c.values.items)

\* The line printed for the instruction, with the constant where there is one.
Line(c, offset) ==
    [name     |-> OpCodes[ByteAt(c, offset)],
     constant |-> IF OperandSize(c, offset) = 0 THEN <<>>
                  ELSE <<c.values.items[Index(c, offset) + 1]>>]

=============================================================================
