----------------------------- MODULE ReplProofs -----------------------------
(***************************************************************************)
(* Proofs about the interpreter of Repl.tla, for every input, byte width,  *)
(* capacity and amount of memory, and that it implements ReadEval.tla.     *)
(***************************************************************************)
EXTENDS Repl, TLAPS, SequenceTheorems, WellFoundedInduction

(***************************************************************************)
(* Numbers are read as they are written.                                   *)
(***************************************************************************)

\* Division with remainder.
LEMMA Division ==
  ASSUME NEW n \in Nat, NEW b \in Nat, b > 0
  PROVE  /\ n \div b \in Nat /\ n % b \in 0..(b - 1)
         /\ n = b * (n \div b) + (n % b)
BY SMTT(30)

\* The upper byte of a number of two bytes is a byte.
LEMMA UpperByte ==
  ASSUME NEW n \in Nat, NEW b \in Nat, b > 0, n < b * b
  PROVE  (n \div b) % b = n \div b
<1>1. n \div b \in Nat /\ n % b \in Nat /\ n = b * (n \div b) + (n % b)
  BY Division
<1>2. n \div b < b
  <2> DEFINE q == n \div b
             r == n % b
  <2>1. q \in Nat /\ r \in Nat /\ b * q + r < b * b
    BY <1>1
  <2> HIDE DEF q, r
  <2>2. CASE q >= b
    <3>1. b * q >= b * b
      BY <2>1, <2>2
    <3> QED BY <2>1, <3>1
  <2>3. CASE q < b
    BY <2>3 DEF q
  <2> QED BY <2>1, <2>2, <2>3
<1> QED
  <2> DEFINE q == n \div b
  <2>1. q \in Nat /\ q < b
    BY <1>1, <1>2
  <2> HIDE DEF q
  <2>2. q % b = q
    BY <2>1
  <2> QED BY <2>2 DEF q

\* chunk_push_word() writes the bytes of a number that fits into two of them,
\* and read_u16() of the disassembler reads the number.
THEOREM WordsAreReadBack ==
  ASSUME NEW word \in Nat, word < Byte * Byte,
         NEW c, NEW at \in Nat,
         ByteAt(c, at) = chunk_push_word(word)[1],
         ByteAt(c, at + 1) = chunk_push_word(word)[2]
  PROVE  read_u16(c, at) = word
<1>1. Byte \in Nat /\ Byte > 0
  BY ByteAssumption
<1>2. word = Byte * (word \div Byte) + (word % Byte) /\ word \div Byte \in Nat /\ word % Byte \in Nat
  BY <1>1, Division
<1>3. (word \div Byte) % Byte = word \div Byte
  BY <1>1, UpperByte
<1> DEFINE low  == word % Byte
           high == word \div Byte
<1>4. ByteAt(c, at) = low /\ ByteAt(c, at + 1) = high
  BY <1>3 DEF chunk_push_word
<1>5. low \in Nat /\ high \in Nat /\ word = Byte * high + low
  BY <1>2
<1> HIDE DEF low, high
<1>6. read_u16(c, at) = low + Byte * high
  BY <1>4 DEF read_u16
<1> QED
  BY <1>1, <1>5, <1>6

(***************************************************************************)
(* Memory is counted.                                                      *)
(***************************************************************************)

\* The shape of a chunk, as far as counting goes.
IsVec(vec) == vec \in [items : {vec.items}, capacity : Nat]
Tracker == [used : Nat, room : Nat, died : {"no", "miscounted", "out of memory"}]
IsChunk(c) ==
  /\ c \in [mem : Tracker, code : {c.code}, values : {c.values}]
  /\ IsVec(c.code) /\ IsVec(c.values)

Held(c) == c.code.capacity + ValueSize * c.values.capacity

\* As long as the process lives the tracker has what the vectors hold.
Counted(c) ==
  /\ IsChunk(c)
  /\ c.mem.died # "miscounted"
  /\ c.mem.died = "no" => c.mem.used = Held(c)

\* The program counters at which there is no chunk.
NoChunk == {"prompt", "read", "interpret", "answer"}

\* MemoryIsCounted, with what it takes to be preserved: the process has exited
\* when the tracker found a fault, and a chunk that is not in use is empty.
MemoryInv ==
  /\ Counted(chunk)
  /\ chunk.mem.died # "no" => pc = "exited"
  /\ pc \in NoChunk => chunk.code = EmptyVec /\ chunk.values = EmptyVec

\* mem_realloc() with the right old size keeps the count, or fails.
LEMMA ReallocCounts ==
  ASSUME NEW mem \in Tracker, mem.died = "no",
         NEW old \in Nat, NEW new \in Nat, NEW rest \in Nat,
         mem.used = old + rest
  PROVE  LET after == mem_realloc(mem, old, new)
         IN /\ after \in Tracker
            /\ after.died \in {"no", "out of memory"}
            /\ after.died = "no" => after.used = new + rest
<1>1. mem.used \in Nat
  BY DEF Tracker
<1>2. ~(old > mem.used) /\ old =< mem.used /\ mem.used - old + new = new + rest
  BY <1>1
<1>3. CASE mem.used - old + new > mem.room
  <2>1. mem_realloc(mem, old, new) = [mem EXCEPT !.died = "out of memory"]
    BY <1>2, <1>3 DEF mem_realloc
  <2> QED BY <2>1 DEF Tracker
<1>4. CASE ~(mem.used - old + new > mem.room)
  <2>1. mem_realloc(mem, old, new) = [mem EXCEPT !.used = mem.used - old + new]
    BY <1>2, <1>4 DEF mem_realloc
  <2>2. mem.used - old + new \in Nat
    BY <1>2
  <2> QED BY <1>2, <2>1, <2>2 DEF Tracker
<1> QED
  BY <1>3, <1>4

\* A vector grows to some capacity.
LEMMA GrownType ==
  ASSUME NEW vec, IsVec(vec)
  PROVE  Grown(vec) \in Nat
BY FirstCapacityAssumption DEF Grown, IsVec

\* A push leaves a vector, larger exactly if it was full.
LEMMA PushedType ==
  ASSUME NEW vec, IsVec(vec), NEW x
  PROVE  /\ IsVec(Pushed(vec, x))
         /\ Pushed(vec, x).capacity = IF Full(vec) THEN Grown(vec) ELSE vec.capacity
BY GrownType DEF Pushed, IsVec

\* Pushing a byte keeps the count.
LEMMA PushByteCounts ==
  ASSUME NEW c, Counted(c), c.mem.died = "no", NEW byte
  PROVE  Counted(code_vec_push(c, byte))
<1>1. IsChunk(c) /\ IsVec(c.code) /\ IsVec(c.values) /\ c.mem \in Tracker
  BY DEF Counted, IsChunk
<1>2. c.code.capacity \in Nat /\ c.values.capacity \in Nat /\ Grown(c.code) \in Nat
  BY <1>1, GrownType DEF IsVec
<1> DEFINE rest  == ValueSize * c.values.capacity
           after == mem_realloc(c.mem, c.code.capacity, Grown(c.code))
           mem   == IF Full(c.code) THEN after ELSE c.mem
           vec   == Pushed(c.code, byte)
<1>3. c.mem.used = c.code.capacity + rest /\ rest \in Nat
  BY <1>2 DEF Counted, Held, ValueSize
<1>4. IsVec(vec) /\ vec.capacity = IF Full(c.code) THEN Grown(c.code) ELSE c.code.capacity
  BY <1>1, PushedType
<1>5. /\ after \in Tracker
      /\ after.died \in {"no", "out of memory"}
      /\ after.died = "no" => after.used = Grown(c.code) + rest
  <2> HIDE DEF rest
  <2> QED BY <1>1, <1>2, <1>3, ReallocCounts
<1>6. /\ mem \in Tracker
      /\ mem.died \in {"no", "out of memory"}
      /\ mem.died = "no" => mem.used = vec.capacity + rest
  <2> HIDE DEF rest, after, vec
  <2> QED BY <1>1, <1>3, <1>4, <1>5
<1> DEFINE d == code_vec_push(c, byte)
<1>7. d = [c EXCEPT !.code = vec, !.mem = mem]
  BY DEF code_vec_push
<1> HIDE DEF mem, vec, d
<1>8. d.mem = mem /\ d.code = vec /\ d.values = c.values
  BY <1>1, <1>7 DEF IsChunk
<1>9. d \in [mem : Tracker, code : {vec}, values : {c.values}]
  BY <1>1, <1>6, <1>7 DEF IsChunk
<1>10. IsChunk(d)
  BY <1>1, <1>4, <1>8, <1>9 DEF IsChunk
<1>11. Counted(d)
  BY <1>6, <1>8, <1>10 DEF Counted, Held
<1> QED
  BY <1>11 DEF d

\* Pushing a value keeps the count.
LEMMA PushValueCounts ==
  ASSUME NEW c, Counted(c), c.mem.died = "no", NEW value
  PROVE  Counted(value_vec_push(c, value))
<1>1. IsChunk(c) /\ IsVec(c.code) /\ IsVec(c.values) /\ c.mem \in Tracker
  BY DEF Counted, IsChunk
<1>2. c.code.capacity \in Nat /\ c.values.capacity \in Nat /\ Grown(c.values) \in Nat
  BY <1>1, GrownType DEF IsVec
<1> DEFINE old   == c.values.capacity * ValueSize
           new   == Grown(c.values) * ValueSize
           after == mem_realloc(c.mem, old, new)
           mem   == IF Full(c.values) THEN after ELSE c.mem
           vec   == Pushed(c.values, value)
<1>3. /\ old \in Nat /\ new \in Nat
      /\ c.mem.used = old + c.code.capacity
  BY <1>2 DEF Counted, Held, ValueSize
<1>4. IsVec(vec) /\ vec.capacity = IF Full(c.values) THEN Grown(c.values) ELSE c.values.capacity
  BY <1>1, PushedType
<1>5. /\ after \in Tracker
      /\ after.died \in {"no", "out of memory"}
      /\ after.died = "no" => after.used = new + c.code.capacity
  <2> HIDE DEF old, new
  <2> QED BY <1>1, <1>2, <1>3, ReallocCounts
<1>6. ValueSize * vec.capacity = IF Full(c.values) THEN new ELSE old
  <2> HIDE DEF vec
  <2> QED BY <1>2, <1>4 DEF ValueSize
<1>7. /\ mem \in Tracker
      /\ mem.died \in {"no", "out of memory"}
      /\ mem.died = "no" => mem.used = c.code.capacity + ValueSize * vec.capacity
  <2> DEFINE held == ValueSize * vec.capacity
  <2> HIDE DEF old, new, after, vec, held
  <2>1. held = IF Full(c.values) THEN new ELSE old
    BY <1>6 DEF held
  <2>2. mem.died = "no" => mem.used = c.code.capacity + held
    <3>1. CASE Full(c.values)
      <4>1. mem = after /\ held = new
        BY <2>1, <3>1
      <4>2. new + c.code.capacity = c.code.capacity + new
        BY <1>2, <1>3
      <4> QED BY <1>5, <4>1, <4>2
    <3>2. CASE ~Full(c.values)
      <4>1. mem = c.mem /\ held = old
        BY <2>1, <3>2
      <4>2. old + c.code.capacity = c.code.capacity + old
        BY <1>2, <1>3
      <4> QED BY <1>3, <4>1, <4>2
    <3> QED BY <3>1, <3>2
  <2>3. mem \in Tracker /\ mem.died \in {"no", "out of memory"}
    BY <1>1, <1>5
  <2> QED BY <2>2, <2>3 DEF held
<1> DEFINE d == value_vec_push(c, value)
<1>8. d = [c EXCEPT !.values = vec, !.mem = mem]
  BY DEF value_vec_push
<1> HIDE DEF mem, vec, d
<1>9. d.mem = mem /\ d.code = c.code /\ d.values = vec
  BY <1>1, <1>8 DEF IsChunk
<1>10. d \in [mem : Tracker, code : {c.code}, values : {vec}]
  BY <1>1, <1>7, <1>8 DEF IsChunk
<1>11. IsChunk(d)
  BY <1>1, <1>4, <1>9, <1>10 DEF IsChunk
<1>12. Counted(d)
  BY <1>7, <1>9, <1>11 DEF Counted, Held
<1> QED
  BY <1>12 DEF d

\* chunk_init() begins with nothing.
LEMMA InitCounts ==
  ASSUME NEW mem, mem \in Tracker, mem.used = 0, mem.died = "no"
  PROVE  Counted(chunk_init(mem))
BY DEF chunk_init, Counted, IsChunk, IsVec, Held, EmptyVec, ValueSize

\* chunk_fini() gives back what is held.
LEMMA FiniCounts ==
  ASSUME NEW c, Counted(c), c.mem.died = "no"
  PROVE  /\ Counted(chunk_fini(c))
         /\ chunk_fini(c).mem.died = "no"
         /\ chunk_fini(c).code = EmptyVec /\ chunk_fini(c).values = EmptyVec
<1>1. IsChunk(c) /\ IsVec(c.code) /\ IsVec(c.values) /\ c.mem \in Tracker
  BY DEF Counted, IsChunk
<1>2. c.code.capacity \in Nat /\ c.values.capacity * ValueSize \in Nat
  BY <1>1 DEF IsVec, ValueSize
<1>3. c.mem.used = c.code.capacity + c.values.capacity * ValueSize
  BY <1>1, <1>2 DEF Counted, Held, ValueSize, IsVec
<1> DEFINE first  == mem_free(c.mem, c.code.capacity)
           second == mem_free(first, c.values.capacity * ValueSize)
<1>4. first \in Tracker /\ first.died = "no" /\ first.used = c.values.capacity * ValueSize
  <2>1. c.mem.used \in Nat
    BY <1>1 DEF Tracker
  <2>2. first = [c.mem EXCEPT !.used = c.mem.used - c.code.capacity]
    BY <1>2, <1>3, <2>1 DEF mem_free
  <2>3. c.mem.used - c.code.capacity = c.values.capacity * ValueSize
    BY <1>2, <1>3
  <2> QED BY <1>1, <1>2, <2>2, <2>3 DEF Tracker
<1>5. second \in Tracker /\ second.died = "no" /\ second.used = 0
  <2> HIDE DEF first
  <2>1. second = [first EXCEPT !.used = 0]
    BY <1>2, <1>4 DEF mem_free
  <2> HIDE DEF second
  <2> QED BY <1>4, <2>1 DEF Tracker
<1> DEFINE d == chunk_fini(c)
<1>6. d = [c EXCEPT !.mem = second, !.code = EmptyVec, !.values = EmptyVec]
  BY DEF chunk_fini
<1> HIDE DEF first, second
<1>7. d.mem = second /\ d.code = EmptyVec /\ d.values = EmptyVec
  <2> HIDE DEF d
  <2> QED BY <1>1, <1>6 DEF IsChunk
<1>8. d \in [mem : Tracker, code : {EmptyVec}, values : {EmptyVec}]
  <2> HIDE DEF d
  <2> QED BY <1>1, <1>5, <1>6 DEF IsChunk
<1>9. IsVec(EmptyVec) /\ EmptyVec.capacity = 0
  BY DEF IsVec, EmptyVec
<1> HIDE DEF d
<1>10. Counted(d)
  BY <1>5, <1>7, <1>8, <1>9 DEF Counted, IsChunk, Held, ValueSize
<1> QED
  BY <1>5, <1>7, <1>10 DEF d

(***************************************************************************)
(* The steps.                                                              *)
(***************************************************************************)

\* Generating code changes the chunk by pushing onto a vector, or not at all.
LEMMA EmitCounts ==
  ASSUME Counted(chunk), chunk.mem.died = "no", emit
  PROVE  Counted(chunk')
<1>1. CASE emit_program \/ emit_binary \/ emit_unary \/ push_operation \/ emit_literal
  BY <1>1 DEF emit_program, emit_binary, emit_unary, push_operation, emit_literal
<1>2. CASE emit_number
  BY <1>2, PushValueCounts DEF emit_number
<1>3. CASE push_byte
  BY <1>3, PushByteCounts DEF push_byte
<1> QED
  BY <1>1, <1>2, <1>3 DEF emit

\* At first there is no chunk and nothing is counted.
LEMMA InitMemory == Init => MemoryInv
<1> SUFFICES ASSUME Init PROVE MemoryInv
  OBVIOUS
<1>1. PICK room \in Rooms : chunk = chunk_init(mem_init(room))
  BY DEF Init
<1>2. mem_init(room) \in Tracker /\ mem_init(room).used = 0 /\ mem_init(room).died = "no"
  BY RoomsAssumption DEF mem_init, Tracker
<1>3. Counted(chunk)
  BY <1>1, <1>2, InitCounts
<1>4. chunk.mem.died = "no" /\ chunk.code = EmptyVec /\ chunk.values = EmptyVec
  BY <1>1, <1>2 DEF chunk_init
<1> QED
  BY <1>3, <1>4 DEF MemoryInv

\* An exited process does nothing more, so what steps is alive.
LEMMA StepMemory == MemoryInv /\ [Next]_vars => MemoryInv'
<1> SUFFICES ASSUME MemoryInv, [Next]_vars PROVE MemoryInv'
  OBVIOUS
<1> USE DEF MemoryInv
<1>1. CASE line_buffer_read
  <2>1. chunk' = chunk /\ pc \in NoChunk /\ pc' \in NoChunk
    BY <1>1 DEF line_buffer_read, codegen, NoChunk
  <2> QED BY <2>1 DEF NoChunk
<1>2. CASE bs_interpret
  <2>1. pc = "interpret" /\ pc \in NoChunk /\ chunk.mem.died = "no"
    BY <1>2 DEF bs_interpret, NoChunk
  <2>2. chunk.mem \in Tracker /\ chunk.mem.used = 0
    BY <2>1 DEF Counted, IsChunk, Held, EmptyVec, ValueSize
  <2>3. CASE status' = "BS_Ok"
    <3>1. chunk' = chunk_init(chunk.mem) /\ pc' = "generate"
      BY <1>2, <2>3 DEF bs_interpret
    <3>2. Counted(chunk') /\ chunk'.mem.died = "no"
      BY <2>1, <2>2, <3>1, InitCounts DEF chunk_init
    <3> QED BY <3>1, <3>2 DEF NoChunk
  <2>4. CASE status' # "BS_Ok"
    <3>1. chunk' = chunk /\ pc' = "answer"
      BY <1>2, <2>4 DEF bs_interpret, codegen
    <3> QED BY <2>1, <3>1
  <2> QED BY <2>3, <2>4
<1>3. CASE generate_bytecode
  <2>1. pc = "generate" /\ chunk.mem.died = "no"
    BY <1>3 DEF generate_bytecode
  <2>2. CASE emit /\ pc' = IF chunk'.mem.died = "no" THEN pc ELSE "exited"
    <3>1. Counted(chunk')
      BY <2>1, <2>2, EmitCounts
    <3> QED BY <2>1, <2>2, <3>1 DEF NoChunk
  <2>3. CASE UNCHANGED codegen /\ pc' \in {"exited", "disassemble"}
    BY <2>1, <2>3 DEF codegen, NoChunk
  <2> QED BY <1>3, <2>2, <2>3 DEF generate_bytecode
<1>4. CASE chunk_disassemble
  <2>1. pc = "disassemble" /\ chunk.mem.died = "no" /\ chunk' = chunk
    BY <1>4 DEF chunk_disassemble, codegen
  <2>2. pc' \in {"disassemble", "exited", "fini"}
    BY <1>4 DEF chunk_disassemble
  <2> QED BY <2>1, <2>2 DEF NoChunk
<1>5. CASE bs_interpret_end
  <2>1. pc = "fini" /\ chunk.mem.died = "no" /\ chunk' = chunk_fini(chunk)
    BY <1>5 DEF bs_interpret_end
  <2>2. Counted(chunk') /\ chunk'.mem.died = "no" /\ chunk'.code = EmptyVec /\ chunk'.values = EmptyVec
    BY <2>1, FiniCounts
  <2> QED BY <2>2
<1>6. CASE repl
  <2>1. chunk' = chunk /\ pc = "answer" /\ pc' = "prompt"
    BY <1>6 DEF repl, codegen
  <2> QED BY <2>1 DEF NoChunk
<1>7. CASE UNCHANGED vars
  BY <1>7 DEF vars, codegen
<1> QED
  BY <1>1, <1>2, <1>3, <1>4, <1>5, <1>6, <1>7 DEF Next

\* MemoryInv implies the property of the runs.
LEMMA MemoryInvCounts == MemoryInv => MemoryIsCounted
BY DEF MemoryInv, MemoryIsCounted, Counted, Held, NoChunk, EmptyVec, ValueSize

\* What the tracker of memory.c counts is what the vectors of the chunk hold,
\* no size is ever reported wrongly, and nothing is held between two inputs.
THEOREM MemoryCorrect == Spec => []MemoryIsCounted
<1>1. Spec => []MemoryInv
  BY InitMemory, StepMemory, PTL DEF Spec
<1> QED
  BY <1>1, MemoryInvCounts, PTL


(***************************************************************************)
(* What fgets() takes.                                                     *)
(***************************************************************************)

\* fgets() with room for n of the characters of a text takes k of them: up to
\* and with its first newline.
Takes(text, n, k) ==
    /\ k \in 0..n /\ k =< Len(text)
    /\ \A j \in 1..(k - 1) : text[j] # "\n"
    /\ k = n \/ k = Len(text) \/ (k > 0 /\ text[k] = "\n")

\* The first newline of a text, if there is one.
LEMMA FirstNewline ==
  ASSUME NEW text \in Seq(STRING), NEW m \in 1..Len(text), text[m] = "\n"
  PROVE  \E k \in 1..Len(text) : text[k] = "\n" /\ \A j \in 1..(k - 1) : text[j] # "\n"
<1> DEFINE Ends == {k \in 1..Len(text) : text[k] = "\n"}
<1>1. Ends \subseteq Nat /\ Ends # {}
  OBVIOUS
<1>2. PICK k \in Ends : \A j \in Ends : ~(<<j, k>> \in OpToRel(<, Nat))
  <2> HIDE DEF Ends
  <2> QED BY <1>1, NatLessThanWellFounded, WFMin
<1>3. k \in 1..Len(text) /\ text[k] = "\n"
  BY <1>2
<1>4. \A j \in 1..(k - 1) : j \notin Ends
  <2> TAKE j \in 1..(k - 1)
  <2>1. j \in Nat /\ k \in Nat /\ j < k
    BY <1>3
  <2>2. <<j, k>> \in OpToRel(<, Nat)
    BY <2>1 DEF OpToRel
  <2> HIDE DEF Ends
  <2> QED BY <1>2, <2>2
<1>5. \A j \in 1..(k - 1) : text[j] # "\n"
  <2> TAKE j \in 1..(k - 1)
  <2>1. j \in 1..Len(text) /\ j \notin Ends
    BY <1>3, <1>4
  <2> QED BY <2>1
<1> QED
  BY <1>3, <1>5

\* There is always a number of characters that fgets() takes.
LEMMA TakesSome ==
  ASSUME NEW text \in Seq(STRING), NEW n \in Nat
  PROVE  \E k : Takes(text, n, k)
<1>1. CASE \E m \in 1..Len(text) : text[m] = "\n"
  <2>1. PICK k \in 1..Len(text) : text[k] = "\n" /\ \A j \in 1..(k - 1) : text[j] # "\n"
    BY <1>1, FirstNewline
  <2>2. CASE k =< n
    BY <2>1, <2>2 DEF Takes
  <2>3. CASE n < k
    <3>1. Takes(text, n, n)
      BY <2>1, <2>3 DEF Takes
    <3> QED BY <3>1
  <2> QED BY <2>2, <2>3
<1>2. CASE \A m \in 1..Len(text) : text[m] # "\n"
  <2>1. CASE Len(text) =< n
    <3>1. Takes(text, n, Len(text))
      BY <1>2, <2>1 DEF Takes
    <3> QED BY <3>1
  <2>2. CASE n < Len(text)
    <3>1. Takes(text, n, n)
      BY <1>2, <2>2 DEF Takes
    <3> QED BY <3>1
  <2> QED BY <2>1, <2>2
<1> QED
  BY <1>1, <1>2

\* There is only one.
LEMMA TakesOne ==
  ASSUME NEW text \in Seq(STRING), NEW n \in Nat, NEW k, NEW l,
         Takes(text, n, k), Takes(text, n, l)
  PROVE  k = l
BY DEF Takes

\* Taken(n) of the model is that number.
LEMMA TakenTakes ==
  ASSUME stdin \in Seq(STRING), NEW n \in Nat
  PROVE  Takes(stdin, n, Taken(n))
<1>1. \E k \in 0..n : /\ k =< Len(stdin)
                      /\ \A j \in 1..(k - 1) : stdin[j] # "\n"
                      /\ k = n \/ k = Len(stdin) \/ (k > 0 /\ stdin[k] = "\n")
  BY TakesSome DEF Takes
<1> QED
  BY <1>1 DEF Taken, Takes
\* ... whichever way it is written.
LEMMA TakenIs ==
  ASSUME NEW text \in Seq(STRING), NEW n \in Nat, NEW k, Takes(text, n, k)
  PROVE  (CHOOSE l \in 0..n :
            /\ l =< Len(text)
            /\ \A j \in 1..(l - 1) : text[j] # "\n"
            /\ l = n \/ l = Len(text) \/ (l > 0 /\ text[l] = "\n")) = k
<1> DEFINE P(l) == /\ l =< Len(text)
                   /\ \A j \in 1..(l - 1) : text[j] # "\n"
                   /\ l = n \/ l = Len(text) \/ (l > 0 /\ text[l] = "\n")
           l == CHOOSE i \in 0..n : P(i)
<1>1. k \in 0..n /\ P(k)
  BY DEF Takes
<1>2. l \in 0..n /\ P(l)
  <2> HIDE DEF P
  <2> QED BY <1>1
<1>3. Takes(text, n, l)
  <2> HIDE DEF l
  <2> QED BY <1>2 DEF Takes
<1>4. l = k
  <2> HIDE DEF l
  <2> QED BY <1>3, TakesOne
<1> QED
  BY <1>4

\* A piece of a text, from behind its first a characters to its b-th.
LEMMA Piece ==
  ASSUME NEW text \in Seq(STRING), NEW a \in Nat, NEW b \in Nat, a =< b, b =< Len(text)
  PROVE  /\ SubSeq(text, a + 1, b) \in Seq(STRING)
         /\ Len(SubSeq(text, a + 1, b)) = b - a
         /\ \A i \in 1..(b - a) : SubSeq(text, a + 1, b)[i] = text[a + i]
<1>1. a + 1 \in Int /\ b \in Int /\ \A i \in (a + 1)..b : text[i] \in STRING
  OBVIOUS
<1>2. /\ SubSeq(text, a + 1, b) \in Seq(STRING)
      /\ Len(SubSeq(text, a + 1, b)) = IF a + 1 =< b THEN b - (a + 1) + 1 ELSE 0
      /\ \A i \in 1..(b - (a + 1) + 1) : SubSeq(text, a + 1, b)[i] = text[(a + 1) + i - 1]
  BY <1>1, SubSeqProperties
<1>3. b - (a + 1) + 1 = b - a /\ (a + 1 =< b \/ b - a = 0)
  OBVIOUS
<1> DEFINE piece == SubSeq(text, a + 1, b)
<1> HIDE DEF piece
<1>4. \A i \in 1..(b - a) : piece[i] = text[a + i]
  <2> TAKE i \in 1..(b - a)
  <2>1. (a + 1) + i - 1 = a + i
    OBVIOUS
  <2> QED BY <1>2, <1>3, <2>1 DEF piece
<1>5. piece \in Seq(STRING) /\ Len(piece) = b - a
  BY <1>2, <1>3 DEF piece
<1> QED
  BY <1>4, <1>5 DEF piece

\* A piece from the front.
LEMMA Beginning ==
  ASSUME NEW text \in Seq(STRING), NEW b \in Nat, b =< Len(text)
  PROVE  /\ SubSeq(text, 1, b) \in Seq(STRING)
         /\ Len(SubSeq(text, 1, b)) = b
         /\ \A i \in 1..b : SubSeq(text, 1, b)[i] = text[i]
<1>1. /\ SubSeq(text, 0 + 1, b) \in Seq(STRING)
      /\ Len(SubSeq(text, 0 + 1, b)) = b - 0
      /\ \A i \in 1..(b - 0) : SubSeq(text, 0 + 1, b)[i] = text[0 + i]
  BY Piece
<1>2. 0 + 1 = 1 /\ b - 0 = b /\ \A i \in 1..b : 0 + i = i
  OBVIOUS
<1> QED
  BY <1>1, <1>2

\* What is left of the line behind a piece that ends no line.
LEMMA BehindAPiece ==
  ASSUME NEW text \in Seq(STRING), NEW k \in 1..Len(text), NEW later \in Seq(STRING), NEW m \in Nat,
         \A j \in 1..k : text[j] # "\n",
         later = SubSeq(text, k + 1, Len(text)),
         Takes(later, Len(later), m)
  PROVE  /\ Takes(text, Len(text), k + m)
         /\ SubSeq(text, 1, k) \o SubSeq(later, 1, m) = SubSeq(text, 1, k + m)
         /\ SubSeq(later, m + 1, Len(later)) = SubSeq(text, k + m + 1, Len(text))
<1>1. /\ later \in Seq(STRING) /\ Len(later) = Len(text) - k
      /\ \A i \in 1..Len(later) : later[i] = text[k + i]
  BY Piece
<1>2. m \in Nat /\ m =< Len(later) /\ k + m \in 1..Len(text)
  BY <1>1 DEF Takes
<1>3. \A j \in 1..(k + m - 1) : text[j] # "\n"
  <2> TAKE j \in 1..(k + m - 1)
  <2>1. CASE j =< k
    BY <2>1
  <2>2. CASE j > k
    <3>1. j - k \in 1..(m - 1) /\ j - k \in 1..Len(later) /\ k + (j - k) = j
      BY <1>1, <1>2, <2>2
    <3> QED BY <1>1, <3>1 DEF Takes
  <2> QED BY <2>1, <2>2
<1>4. k + m = Len(text) \/ text[k + m] = "\n"
  <2>1. CASE m = Len(later)
    BY <1>1, <2>1
  <2>2. CASE m > 0 /\ later[m] = "\n"
    BY <1>1, <1>2, <2>2
  <2> QED BY <2>1, <2>2 DEF Takes
<1>5. Takes(text, Len(text), k + m)
  BY <1>2, <1>3, <1>4 DEF Takes
<1>6. SubSeq(text, 1, k) \o SubSeq(later, 1, m) = SubSeq(text, 1, k + m)
  <2> DEFINE whole == SubSeq(text, 1, k + m)
             front == SubSeq(text, 1, k)
             back  == SubSeq(later, 1, m)
  <2>1. /\ whole \in Seq(STRING) /\ Len(whole) = k + m
        /\ \A i \in 1..(k + m) : whole[i] = text[i]
    BY <1>2, Beginning
  <2>2. /\ front \in Seq(STRING) /\ Len(front) = k
        /\ \A i \in 1..k : front[i] = text[i]
    BY Beginning
  <2>3. /\ back \in Seq(STRING) /\ Len(back) = m
        /\ \A i \in 1..m : back[i] = later[i]
    BY <1>1, <1>2, Beginning
  <2> HIDE DEF whole, front, back
  <2>4. /\ front \o back \in Seq(STRING)
        /\ Len(front \o back) = Len(front) + Len(back)
        /\ \A i \in 1..Len(front) + Len(back) :
             (front \o back)[i] = IF i =< Len(front) THEN front[i] ELSE back[i - Len(front)]
    BY <2>2, <2>3, ConcatProperties
  <2>5. Len(front \o back) = k + m
    BY <1>2, <2>2, <2>3, <2>4
  <2>6. \A i \in 1..(k + m) : (front \o back)[i] = whole[i]
    <3> TAKE i \in 1..(k + m)
    <3>1. (front \o back)[i] = IF i =< k THEN front[i] ELSE back[i - k]
      BY <2>2, <2>3, <2>4
    <3>2. CASE i =< k
      BY <1>2, <2>1, <2>2, <3>1, <3>2
    <3>3. CASE i > k
      <4>1. i - k \in 1..m /\ i - k \in 1..Len(later) /\ k + (i - k) = i
        BY <1>1, <1>2, <3>3
      <4>2. (front \o back)[i] = back[i - k]
        BY <1>2, <3>1, <3>3
      <4>3. back[i - k] = later[i - k]
        BY <2>3, <4>1
      <4>4. later[i - k] = text[i]
        BY <1>1, <4>1
      <4> QED BY <2>1, <4>2, <4>3, <4>4
    <3>4. i \in Nat /\ k \in Nat
      BY <1>2
    <3>5. i =< k \/ i > k
      BY <3>4
    <3> QED BY <3>2, <3>3, <3>5
  <2>7. front \o back = whole
    BY <2>1, <2>4, <2>5, <2>6, SeqEqual
  <2> QED BY <2>7 DEF whole, front, back
<1>7. SubSeq(later, m + 1, Len(later)) = SubSeq(text, k + m + 1, Len(text))
  <2> DEFINE a == SubSeq(later, m + 1, Len(later))
             b == SubSeq(text, k + m + 1, Len(text))
  <2>1. /\ a \in Seq(STRING) /\ Len(a) = Len(later) - m
        /\ \A i \in 1..(Len(later) - m) : a[i] = later[m + i]
    BY <1>1, <1>2, Piece
  <2>2. /\ b \in Seq(STRING) /\ Len(b) = Len(text) - (k + m)
        /\ \A i \in 1..(Len(text) - (k + m)) : b[i] = text[k + m + i]
    BY <1>2, Piece
  <2> HIDE DEF a, b
  <2>3. Len(a) = Len(b)
    BY <1>1, <1>2, <2>1, <2>2
  <2>4. \A i \in 1..Len(a) : a[i] = b[i]
    <3> TAKE i \in 1..Len(a)
    <3>1. m + i \in 1..Len(later) /\ k + (m + i) = k + m + i
      BY <1>1, <1>2, <2>1
    <3> QED BY <1>1, <2>1, <2>2, <2>3, <3>1
  <2>5. a = b
    BY <2>1, <2>2, <2>3, <2>4, SeqEqual
  <2> QED BY <2>5 DEF a, b
<1> QED
  BY <1>1, <1>2, <1>5, <1>6, <1>7

(***************************************************************************)
(* The line buffer and the conversation.                                   *)
(***************************************************************************)

\* What is in the line buffer fits into it with its terminating NUL.
BufferOK ==
    /\ stdin \in Seq(STRING) /\ ends \in BOOLEAN
    /\ buffer \in [data : Seq(STRING), size : Nat, capacity : Nat]
    /\ buffer.capacity = 0 \/ buffer.capacity >= LineRoom
    /\ Len(buffer.data) < buffer.capacity \/ buffer.data = <<>>
    /\ buffer.size \in {0, Len(buffer.data)}

PromptAndStatus ==
    /\ prompt \in {">>>", "..."}
    /\ pc \in {"prompt", "read", "interpret", "generate", "disassemble", "fini", "answer", "exited"}
    /\ status \in {"BS_Ok", "BS_Error", "BS_Incomplete"}

\* The buffer is kept behind the prompt that asks for more, and while a line
\* is being read; what may be thrown away was not incomplete; the status is
\* that of the source in the buffer; and only a program gets further.
Conversation ==
    /\ pc = "prompt" => buffer.size = IF prompt = "..." THEN Len(buffer.data) ELSE 0
    /\ pc = "read" => buffer.size = Len(buffer.data)
    /\ buffer.size = Len(buffer.data) \/ Verdict(buffer.data) # "incomplete"
    /\ pc \in {"generate", "disassemble", "fini", "answer"} => status = StatusOf(Verdict(buffer.data))
    /\ pc \in {"generate", "disassemble", "fini"} => status = "BS_Ok"

LineInv == BufferOK /\ PromptAndStatus /\ Conversation

\* A source has one of three verdicts, and each has a status of its own.
LEMMA Verdicts ==
  ASSUME NEW source
  PROVE  /\ Verdict(source) \in {"program", "error", "incomplete"}
         /\ StatusOf(Verdict(source)) \in {"BS_Ok", "BS_Error", "BS_Incomplete"}
         /\ StatusOf(Verdict(source)) = "BS_Ok" <=> Verdict(source) = "program"
         /\ StatusOf(Verdict(source)) = "BS_Incomplete" <=> Verdict(source) = "incomplete"
<1>1. Verdict(source) \in {"program", "error", "incomplete"}
  BY DEF Verdict
<1> QED
  BY <1>1 DEF StatusOf

\* Before a read there is room for a character and the NUL.
LEMMA ThereIsRoom ==
  ASSUME BufferOK
  PROVE  LET b == line_buffer_resize_if_required(buffer)
         IN /\ b = [buffer EXCEPT !.capacity = b.capacity]
            /\ b.capacity \in Nat /\ b.capacity >= LineRoom
            /\ b.capacity >= buffer.capacity
            /\ b.capacity > buffer.size + 1
<1> DEFINE b == line_buffer_resize_if_required(buffer)
<1>1. /\ LineRoom \in Nat /\ Slack \in Nat /\ Slack >= 1 /\ LineRoom > Slack
      /\ buffer.capacity \in Nat /\ buffer.size \in Nat
  BY LineBufferAssumption DEF BufferOK
<1>2. buffer.size < buffer.capacity \/ buffer.size = 0
  BY <1>1 DEF BufferOK
<1>3. CASE ~line_buffer_full(buffer)
  <2>1. b = buffer
    BY <1>3 DEF line_buffer_resize_if_required
  <2>2. buffer.capacity > buffer.size + Slack
    BY <1>1, <1>3 DEF line_buffer_full
  <2>3. buffer = [buffer EXCEPT !.capacity = buffer.capacity]
    BY DEF BufferOK
  <2>4. buffer.capacity >= LineRoom
    BY <1>1, <2>2 DEF BufferOK
  <2> QED BY <1>1, <2>1, <2>2, <2>3, <2>4
<1>4. CASE line_buffer_full(buffer) /\ buffer.capacity = 0
  <2>1. b = [buffer EXCEPT !.capacity = LineRoom]
    BY <1>4 DEF line_buffer_resize_if_required
  <2>2. b.capacity = LineRoom
    BY <2>1 DEF BufferOK
  <2> QED BY <1>1, <1>2, <1>4, <2>1, <2>2
<1>5. CASE line_buffer_full(buffer) /\ buffer.capacity # 0
  <2>1. b = [buffer EXCEPT !.capacity = 2 * buffer.capacity]
    BY <1>5 DEF line_buffer_resize_if_required
  <2>2. b.capacity = 2 * buffer.capacity
    BY <2>1 DEF BufferOK
  <2>3. buffer.capacity >= LineRoom
    BY <1>5 DEF BufferOK
  <2>4. 2 * buffer.capacity > buffer.size + 1 /\ 2 * buffer.capacity >= buffer.capacity
    BY <1>1, <1>2, <2>3
  <2> QED BY <1>1, <2>1, <2>2, <2>3, <2>4
<1> QED
  BY <1>3, <1>4, <1>5

\* A read finds the end of the input, or takes at least one character.
ReadsTo(k, capacity) ==
    /\ stdin' = SubSeq(stdin, k + 1, Len(stdin))
    /\ \/ /\ stdin = <<>> /\ pc' = "interpret"
          /\ buffer' = [buffer EXCEPT !.capacity = capacity]
       \/ /\ k > 0 /\ pc' = IF stdin[k] = "\n" THEN "interpret" ELSE "read"
          /\ buffer' = [data     |-> SubSeq(buffer.data, 1, buffer.size) \o SubSeq(stdin, 1, k),
                        size     |-> buffer.size + k,
                        capacity |-> capacity]

\* line_buffer_read() reads like that, and leaves room for the NUL.
LEMMA Reads ==
  ASSUME BufferOK, line_buffer_read
  PROVE  \E k \in 0..Len(stdin) : \E capacity \in Nat :
           /\ ReadsTo(k, capacity)
           /\ \A j \in 1..(k - 1) : stdin[j] # "\n"
           /\ capacity >= LineRoom /\ capacity >= buffer.capacity /\ capacity > buffer.size + k
<1> DEFINE b == line_buffer_resize_if_required(buffer)
           n == b.capacity - b.size - 1
           k == Taken(n)
<1>1. /\ stdin' = SubSeq(stdin, k + 1, Len(stdin))
      /\ ends \/ k = n \/ (k > 0 /\ stdin[k] = "\n")
      /\ IF stdin = <<>> /\ ends
         THEN buffer' = b /\ pc' = "interpret"
         ELSE /\ buffer' = [b EXCEPT !.data = SubSeq(@, 1, b.size) \o SubSeq(stdin, 1, k),
                                     !.size = @ + k]
              /\ pc' = IF k > 0 /\ stdin[k] = "\n" THEN "interpret" ELSE "read"
  BY DEF line_buffer_read
<1>2. /\ b = [buffer EXCEPT !.capacity = b.capacity]
      /\ b.capacity \in Nat /\ b.capacity >= LineRoom
      /\ b.capacity >= buffer.capacity
      /\ b.capacity > buffer.size + 1
  BY ThereIsRoom
<1> HIDE DEF b
<1>3. b.data = buffer.data /\ b.size = buffer.size /\ b.size \in Nat
  BY <1>2 DEF BufferOK
<1>4. n \in Nat /\ n >= 1 /\ b.capacity = buffer.size + n + 1
  BY <1>2, <1>3
<1> HIDE DEF n
<1>5. Takes(stdin, n, k)
  BY <1>4, TakenTakes DEF BufferOK
<1> HIDE DEF k
<1>6. k \in 0..Len(stdin) /\ k =< n /\ \A j \in 1..(k - 1) : stdin[j] # "\n"
  BY <1>4, <1>5 DEF Takes, BufferOK
<1>7. b.capacity > buffer.size + k
  BY <1>2, <1>3, <1>4, <1>6
<1>8. ReadsTo(k, b.capacity)
  <2>1. CASE stdin = <<>> /\ ends
    BY <1>1, <1>2, <2>1 DEF ReadsTo
  <2>2. CASE ~(stdin = <<>> /\ ends)
    <3>1. k > 0
      <4>1. CASE k = 0
        <5>1. k = Len(stdin)
          BY <1>4, <1>5, <4>1 DEF Takes
        <5>2. stdin = <<>>
          BY <4>1, <5>1 DEF BufferOK
        <5> QED BY <1>1, <1>4, <2>2, <4>1, <5>2
      <4> QED BY <1>6, <4>1
    <3>2. buffer' = [b EXCEPT !.data = SubSeq(b.data, 1, b.size) \o SubSeq(stdin, 1, k),
                              !.size = b.size + k]
      BY <1>1, <2>2
    <3>3. b \in [data : {b.data}, size : {b.size}, capacity : {b.capacity}]
      BY <1>2 DEF BufferOK
    <3>4. buffer' = [data     |-> SubSeq(buffer.data, 1, buffer.size) \o SubSeq(stdin, 1, k),
                     size     |-> buffer.size + k,
                     capacity |-> b.capacity]
      BY <1>3, <3>2, <3>3
    <3> QED BY <1>1, <2>2, <3>1, <3>4 DEF ReadsTo
  <2> QED BY <2>1, <2>2
<1> QED
  BY <1>2, <1>6, <1>7, <1>8

\* What has been read leaves the buffer as it should be.
LEMMA ReadsKeepBuffer ==
  ASSUME BufferOK, line_buffer_read
  PROVE  BufferOK' /\ (pc' = "read" => buffer'.size = Len(buffer'.data))
         /\ (buffer'.size = Len(buffer'.data) \/ (buffer'.size = buffer.size /\ buffer'.data = buffer.data))
         /\ pc' \in {"interpret", "read"}
<1>1. PICK k \in 0..Len(stdin), capacity \in Nat :
        /\ ReadsTo(k, capacity)
        /\ capacity >= LineRoom /\ capacity >= buffer.capacity /\ capacity > buffer.size + k
  BY Reads
<1>2. stdin \in Seq(STRING) /\ Len(stdin) \in Nat
  BY DEF BufferOK
<1>3. stdin' \in Seq(STRING)
  BY <1>1, <1>2, Piece DEF ReadsTo
<1>4. ends' = ends
  BY DEF line_buffer_read
<1>5. LineRoom \in Nat /\ LineRoom > 0
  BY LineBufferAssumption
<1>6. CASE buffer' = [buffer EXCEPT !.capacity = capacity] /\ pc' = "interpret"
  <2>1. /\ buffer' \in [data : Seq(STRING), size : Nat, capacity : Nat]
        /\ buffer'.data = buffer.data /\ buffer'.size = buffer.size /\ buffer'.capacity = capacity
    BY <1>6 DEF BufferOK
  <2>2. Len(buffer.data) < capacity \/ buffer.data = <<>>
    <3>1. Len(buffer.data) \in Nat /\ buffer.capacity \in Nat
      BY DEF BufferOK
    <3> QED BY <1>1, <3>1 DEF BufferOK
  <2> QED BY <1>1, <1>3, <1>4, <1>6, <2>1, <2>2 DEF BufferOK
<1>7. CASE /\ k > 0 /\ pc' \in {"interpret", "read"}
           /\ buffer' = [data     |-> SubSeq(buffer.data, 1, buffer.size) \o SubSeq(stdin, 1, k),
                         size     |-> buffer.size + k,
                         capacity |-> capacity]
  <2> DEFINE front == SubSeq(buffer.data, 1, buffer.size)
             back  == SubSeq(stdin, 1, k)
  <2>1. buffer.data \in Seq(STRING) /\ buffer.size \in Nat /\ buffer.size =< Len(buffer.data)
    BY DEF BufferOK
  <2>2. front \in Seq(STRING) /\ Len(front) = buffer.size
    BY <2>1, Beginning
  <2>3. back \in Seq(STRING) /\ Len(back) = k
    BY <1>2, Beginning
  <2> HIDE DEF front, back
  <2>4. front \o back \in Seq(STRING) /\ Len(front \o back) = buffer.size + k
    BY <2>2, <2>3, ConcatProperties
  <2>5. /\ buffer'.data = front \o back /\ buffer'.size = buffer.size + k
        /\ buffer'.capacity = capacity
        /\ buffer' = [data |-> front \o back, size |-> buffer.size + k, capacity |-> capacity]
    BY <1>7 DEF front, back
  <2>6. buffer.size + k \in Nat
    BY <2>1
  <2>7. buffer' \in [data : Seq(STRING), size : Nat, capacity : Nat]
    BY <2>4, <2>5, <2>6
  <2> QED BY <1>1, <1>3, <1>4, <1>7, <2>4, <2>5, <2>6, <2>7 DEF BufferOK
<1> QED
  BY <1>1, <1>6, <1>7 DEF ReadsTo

\* At first the buffer is empty.
LEMMA InitLine == Init => LineInv
<1> SUFFICES ASSUME Init PROVE LineInv
  OBVIOUS
<1>1. PICK input \in Inputs : stdin = input.text /\ ends = input.ends
  BY DEF Init
<1>2. stdin \in Seq(STRING) /\ ends \in BOOLEAN
  BY <1>1, InputsAssumption
<1>3. /\ buffer.data = <<>> /\ buffer.size = 0 /\ buffer.capacity = 0
      /\ buffer = [data |-> <<>>, size |-> 0, capacity |-> 0]
  BY DEF Init
<1>4. BufferOK
  BY <1>2, <1>3 DEF BufferOK
<1>5. prompt = ">>>" /\ pc = "prompt" /\ status = "BS_Ok"
  BY DEF Init
<1> QED
  BY <1>3, <1>4, <1>5 DEF LineInv, PromptAndStatus, Conversation

\* The program counters behind which the source in the buffer is a program.
Running == {"generate", "disassemble", "fini"}

\* What the generator and the disassembler leave alone, and where they go.
LEMMA RunningSteps ==
  ASSUME generate_bytecode \/ chunk_disassemble \/ bs_interpret_end
  PROVE  /\ UNCHANGED <<reading, prompt, status>>
         /\ pc \in Running /\ pc' \in Running \cup {"answer", "exited"}
<1>1. CASE generate_bytecode
  BY <1>1 DEF generate_bytecode, Running, reading
<1>2. CASE chunk_disassemble
  BY <1>2 DEF chunk_disassemble, Running, reading
<1>3. CASE bs_interpret_end
  BY <1>3 DEF bs_interpret_end, Running, reading
<1> QED
  BY <1>1, <1>2, <1>3

\* No step makes the line buffer overflow, nor the conversation lose its place.
LEMMA StepLine == LineInv /\ [Next]_vars => LineInv'
<1> SUFFICES ASSUME LineInv, [Next]_vars PROVE LineInv'
  OBVIOUS
<1>0. BufferOK /\ PromptAndStatus /\ Conversation
  BY DEF LineInv
<1>1. CASE line_buffer_read
  <2>1. /\ BufferOK' /\ (pc' = "read" => buffer'.size = Len(buffer'.data))
        /\ \/ buffer'.size = Len(buffer'.data)
           \/ buffer'.size = buffer.size /\ buffer'.data = buffer.data
        /\ pc' \in {"interpret", "read"}
    BY <1>0, <1>1, ReadsKeepBuffer
  <2>2. prompt' = prompt /\ status' = status
    BY <1>1 DEF line_buffer_read
  <2>3. PromptAndStatus'
    BY <1>0, <2>1, <2>2 DEF PromptAndStatus
  <2>4. Conversation'
    BY <1>0, <2>1 DEF Conversation
  <2> QED BY <2>1, <2>3, <2>4 DEF LineInv
<1>2. CASE bs_interpret
  <2>1. /\ UNCHANGED <<stdin, ends, buffer, prompt>>
        /\ status' = StatusOf(Verdict(buffer.data))
        /\ pc' = IF status' = "BS_Ok" THEN "generate" ELSE "answer"
    BY <1>2 DEF bs_interpret, reading
  <2>2. BufferOK'
    BY <1>0, <2>1 DEF BufferOK
  <2>3. PromptAndStatus'
    BY <1>0, <2>1, Verdicts DEF PromptAndStatus
  <2>4. Conversation'
    BY <1>0, <2>1 DEF Conversation
  <2> QED BY <2>2, <2>3, <2>4 DEF LineInv
<1>3. CASE generate_bytecode \/ chunk_disassemble \/ bs_interpret_end
  <2>1. /\ UNCHANGED <<stdin, ends, buffer, prompt, status>>
        /\ pc \in Running /\ pc' \in Running \cup {"answer", "exited"}
    BY <1>3, RunningSteps DEF reading
  <2>2. BufferOK'
    BY <1>0, <2>1 DEF BufferOK
  <2>3. PromptAndStatus'
    BY <1>0, <2>1 DEF PromptAndStatus, Running
  <2>4. Conversation'
    BY <1>0, <2>1 DEF Conversation, Running
  <2> QED BY <2>2, <2>3, <2>4 DEF LineInv
<1>4. CASE repl
  <2>1. /\ pc = "answer" /\ pc' = "prompt"
        /\ UNCHANGED <<stdin, ends, status>>
        /\ prompt' = IF status = "BS_Incomplete" THEN "..." ELSE ">>>"
        /\ buffer' = IF status \in {"BS_Ok", "BS_Error"} THEN [buffer EXCEPT !.size = 0] ELSE buffer
    BY <1>4 DEF repl, Clears
  <2>2. /\ buffer'.data = buffer.data /\ buffer'.capacity = buffer.capacity
        /\ buffer'.size = IF status \in {"BS_Ok", "BS_Error"} THEN 0 ELSE buffer.size
        /\ buffer' \in [data : Seq(STRING), size : Nat, capacity : Nat]
    BY <1>0, <2>1 DEF BufferOK
  <2>3. BufferOK'
    BY <1>0, <2>1, <2>2 DEF BufferOK
  <2>4. PromptAndStatus'
    BY <1>0, <2>1 DEF PromptAndStatus
  <2>5. status = "BS_Incomplete" <=> Verdict(buffer.data) = "incomplete"
    BY <1>0, <2>1, Verdicts DEF Conversation
  <2>6. Conversation'
    BY <1>0, <2>1, <2>2, <2>5 DEF Conversation, PromptAndStatus
  <2> QED BY <2>3, <2>4, <2>6 DEF LineInv
<1>5. CASE UNCHANGED vars
  BY <1>5 DEF vars, reading, LineInv, BufferOK, PromptAndStatus, Conversation
<1> QED
  BY <1>1, <1>2, <1>3, <1>4, <1>5 DEF Next

\* The line buffer of bsc.c never overflows, and the REPL is where its prompt
\* and the status of the last source say.
THEOREM BufferNeverOverflows == Spec => []LineInv
BY InitLine, StepLine, PTL DEF Spec

(***************************************************************************)
(* The REPL implements ReadEval.                                           *)
(***************************************************************************)

\* What the variables of ReadEval stand for.
Rest == SubSeq(stdin, Len(RestOfLine) + 1, Len(stdin))
Evaluated == buffer.data \o RestOfLine
Phase == CASE pc = "prompt" -> "asking"
           [] pc = "exited" -> "stopped"
           [] OTHER         -> "evaluating"

\* ReadEval and the REPL agree on what parse() says.
LEMMA SameVerdict ==
  ASSUME NEW source
  PROVE  Promise!Verdict(source) = Verdict(source)
<1>1. Promise!Open(source) = Open(source)
  BY Zenon DEF Promise!Open, Open, Promise!Refused, Refused, Promise!FoldLeft, FoldLeft,
               Promise!MapThenFoldSet, MapThenFoldSet, Promise!Max, Max
<1>2. Promise!Refused = Refused
  BY DEF Promise!Refused, Refused
<1> QED
  BY <1>1, <1>2, Zenon DEF Promise!Verdict, Verdict

\* Between two reads of a line nothing of the line is left.
LEMMA BetweenReads ==
  LineInv /\ pc # "read" => Rest = stdin /\ Evaluated = buffer.data
<1> SUFFICES ASSUME LineInv, pc # "read" PROVE Rest = stdin /\ Evaluated = buffer.data
  OBVIOUS
<1>1. RestOfLine = <<>>
  BY DEF RestOfLine
<1>2. stdin \in Seq(STRING) /\ buffer.data \in Seq(STRING)
  BY DEF LineInv, BufferOK
<1>3. SubSeq(stdin, 1, Len(stdin)) = stdin
  <2> DEFINE s == SubSeq(stdin, 1, Len(stdin))
  <2>1. s \in Seq(STRING) /\ Len(s) = Len(stdin) /\ \A i \in 1..Len(stdin) : s[i] = stdin[i]
    BY <1>2, Beginning
  <2> HIDE DEF s
  <2>2. s = stdin
    BY <1>2, <2>1, SeqEqual
  <2> QED BY <2>2 DEF s
<1>4. Rest = stdin
  BY <1>1, <1>3 DEF Rest
<1>5. Evaluated = buffer.data
  BY <1>1, <1>2, ConcatEmptySeq DEF Evaluated
<1> QED
  BY <1>4, <1>5

\* While a line is read, the rest of it is what fgets() would take if it could.
LineGoesOn ==
  LineInv /\ pc = "read" =>
    \A k \in Nat : Takes(stdin, Len(stdin), k) =>
      /\ RestOfLine = SubSeq(stdin, 1, k) /\ Len(RestOfLine) = k
      /\ Rest = SubSeq(stdin, k + 1, Len(stdin))
      /\ Evaluated = buffer.data \o SubSeq(stdin, 1, k)

\* So LineGoesOn holds in every state of the invariant.
LEMMA WhileReading == LineGoesOn
<1> SUFFICES ASSUME LineInv, pc = "read", NEW k \in Nat, Takes(stdin, Len(stdin), k)
             PROVE  /\ RestOfLine = SubSeq(stdin, 1, k) /\ Len(RestOfLine) = k
                    /\ Rest = SubSeq(stdin, k + 1, Len(stdin))
                    /\ Evaluated = buffer.data \o SubSeq(stdin, 1, k)
  BY DEF LineGoesOn
<1>1. stdin \in Seq(STRING) /\ Len(stdin) \in Nat
  BY DEF LineInv, BufferOK
<1>2. Taken(Len(stdin)) = k
  BY <1>1, TakenTakes, TakesOne
<1>3. RestOfLine = SubSeq(stdin, 1, k)
  BY <1>2 DEF RestOfLine
<1>4. Len(RestOfLine) = k
  BY <1>1, <1>3, Beginning DEF Takes
<1> QED
  BY <1>3, <1>4 DEF Rest, Evaluated

\* A line, or what is left at the end of the input, is read: the step of
\* ReadEval it amounts to.
LEMMA LineIsRead ==
  ASSUME LineInv, pc = "prompt", NEW k \in 1..Len(stdin), Takes(stdin, Len(stdin), k),
         Rest' = SubSeq(stdin, k + 1, Len(stdin)),
         Evaluated' = SubSeq(buffer.data, 1, buffer.size) \o SubSeq(stdin, 1, k),
         Phase' = "evaluating", prompt' = prompt
  PROVE  Promise!ReadLine \/ Promise!LastAgain
<1>1. Rest = stdin /\ Evaluated = buffer.data /\ Phase = "asking"
  BY BetweenReads DEF Phase
<1>2. stdin \in Seq(STRING) /\ stdin # <<>>
  BY DEF LineInv, BufferOK
<1>3. Promise!Pending = SubSeq(buffer.data, 1, buffer.size)
  <2>1. Promise!Pending = IF prompt = "..." THEN buffer.data ELSE <<>>
    BY <1>1 DEF Promise!Pending, Evaluated
  <2>2. buffer.size = IF prompt = "..." THEN Len(buffer.data) ELSE 0
    BY DEF LineInv, Conversation
  <2>3. buffer.data \in Seq(STRING)
    BY DEF LineInv, BufferOK
  <2> DEFINE s == SubSeq(buffer.data, 1, buffer.size)
  <2>4. s \in Seq(STRING) /\ Len(s) = buffer.size /\ \A i \in 1..buffer.size : s[i] = buffer.data[i]
    BY <2>2, <2>3, Beginning
  <2> HIDE DEF s
  <2>5. CASE prompt = "..."
    <3>1. s = buffer.data
      BY <2>2, <2>3, <2>4, <2>5, SeqEqual
    <3> QED BY <2>1, <2>5, <3>1 DEF s
  <2>6. CASE prompt # "..."
    <3>1. s = <<>>
      BY <2>2, <2>4, <2>6
    <3> QED BY <2>1, <2>6, <3>1 DEF s
  <2> QED BY <2>5, <2>6
<1>4. CASE stdin[k] = "\n"
  <2>1. Promise!IsLine(k)
    BY <1>1, <1>4 DEF Takes, Promise!IsLine, Rest
  <2>2. k \in DOMAIN Rest
    BY <1>1, <1>2
  <2>3. Promise!ReadLine
    BY <1>1, <1>3, <2>1, <2>2 DEF Promise!ReadLine, Rest, Evaluated, Phase
  <2> QED BY <2>3
<1>5. CASE stdin[k] # "\n"
  <2>1. k = Len(stdin)
    BY <1>5 DEF Takes
  <2>2. \A j \in 1..Len(stdin) : stdin[j] # "\n"
    <3> TAKE j \in 1..Len(stdin)
    <3>1. j = k \/ j \in 1..(k - 1)
      BY <1>2, <2>1
    <3> QED BY <1>5, <3>1 DEF Takes
  <2>3. Rest' = <<>>
    BY <1>2, <2>1, SubSeqEmpty
  <2>4. Evaluated' = Promise!Pending \o stdin
    <3> DEFINE s == SubSeq(stdin, 1, k)
    <3>1. s \in Seq(STRING) /\ Len(s) = Len(stdin) /\ \A i \in 1..Len(stdin) : s[i] = stdin[i]
      BY <1>2, <2>1, Beginning
    <3> HIDE DEF s
    <3>2. s = stdin
      BY <1>2, <3>1, SeqEqual
    <3> QED BY <1>3, <3>2 DEF s
  <2>5. \A j \in DOMAIN Rest : Rest[j] # "\n"
    BY <1>1, <1>2, <2>2
  <2>6. Promise!LastAgain
    BY <1>1, <1>2, <2>3, <2>4, <2>5 DEF Promise!LastAgain, Rest, Evaluated, Phase
  <2> QED BY <2>6
<1> QED
  BY <1>4, <1>5

\* A read of a piece reads, as ReadEval sees it, the whole line that begins.
LEMMA PieceBeginsLine ==
  ASSUME LineInv, LineInv', line_buffer_read, stdin # <<>>
  PROVE  \E k \in 1..Len(stdin) :
           /\ Takes(stdin, Len(stdin), k)
           /\ Rest' = SubSeq(stdin, k + 1, Len(stdin))
           /\ Evaluated' = SubSeq(buffer.data, 1, buffer.size) \o SubSeq(stdin, 1, k)
<1>1. PICK k \in 0..Len(stdin), capacity \in Nat :
        ReadsTo(k, capacity) /\ \A j \in 1..(k - 1) : stdin[j] # "\n"
  BY Reads DEF LineInv
<1>2. /\ stdin \in Seq(STRING) /\ buffer.data \in Seq(STRING)
      /\ buffer.size \in Nat /\ buffer.size =< Len(buffer.data)
  BY DEF LineInv, BufferOK
<1>3. /\ stdin' = SubSeq(stdin, k + 1, Len(stdin))
      /\ k \in 1..Len(stdin) /\ pc' = IF stdin[k] = "\n" THEN "interpret" ELSE "read"
      /\ buffer'.data = SubSeq(buffer.data, 1, buffer.size) \o SubSeq(stdin, 1, k)
  <2>1. /\ stdin' = SubSeq(stdin, k + 1, Len(stdin))
        /\ k > 0 /\ pc' = IF stdin[k] = "\n" THEN "interpret" ELSE "read"
        /\ buffer' = [data     |-> SubSeq(buffer.data, 1, buffer.size) \o SubSeq(stdin, 1, k),
                      size     |-> buffer.size + k,
                      capacity |-> capacity]
    BY <1>1 DEF ReadsTo
  <2>2. k \in 1..Len(stdin)
    BY <2>1
  <2>3. buffer'.data = SubSeq(buffer.data, 1, buffer.size) \o SubSeq(stdin, 1, k)
    BY <2>1
  <2> QED BY <2>1, <2>2, <2>3
<1>4. CASE stdin[k] = "\n"
  <2>1. Takes(stdin, Len(stdin), k)
    BY <1>1, <1>2, <1>3, <1>4 DEF Takes
  <2>2. (LineInv /\ pc # "read" => Rest = stdin /\ Evaluated = buffer.data)'
    BY BetweenReads, PTL
  <2>3. Rest' = stdin' /\ Evaluated' = buffer'.data
    BY <1>3, <1>4, <2>2
  <2> QED BY <1>3, <2>1, <2>3
<1>5. CASE stdin[k] # "\n"
  <2>1. \A j \in 1..k : stdin[j] # "\n"
    <3> TAKE j \in 1..k
    <3>1. j = k \/ j \in 1..(k - 1)
      BY <1>3
    <3> QED BY <1>1, <1>5, <3>1
  <2>2. stdin' \in Seq(STRING)
    BY DEF LineInv, BufferOK
  <2>3. PICK m : Takes(stdin', Len(stdin'), m)
    BY <2>2, TakesSome
  <2>4. /\ m \in Nat
        /\ Takes(stdin, Len(stdin), k + m)
        /\ SubSeq(stdin, 1, k) \o SubSeq(stdin', 1, m) = SubSeq(stdin, 1, k + m)
        /\ SubSeq(stdin', m + 1, Len(stdin')) = SubSeq(stdin, k + m + 1, Len(stdin))
    <3>1. m \in Nat
      BY <2>2, <2>3 DEF Takes
    <3>2. stdin' = SubSeq(stdin, k + 1, Len(stdin)) /\ k \in 1..Len(stdin) /\ stdin \in Seq(STRING)
      BY <1>2, <1>3
    <3> QED BY <2>1, <2>2, <2>3, <3>1, <3>2, BehindAPiece
  <2>5. LineGoesOn'
    BY WhileReading, PTL
  <2>6. /\ Rest' = SubSeq(stdin', m + 1, Len(stdin'))
        /\ Evaluated' = buffer'.data \o SubSeq(stdin', 1, m)
    BY <1>3, <1>5, <2>3, <2>4, <2>5 DEF LineGoesOn
  <2>7. k + m \in 1..Len(stdin)
    BY <1>3, <2>4 DEF Takes
  <2>8. Evaluated' = SubSeq(buffer.data, 1, buffer.size) \o SubSeq(stdin, 1, k + m)
    <3> DEFINE a == SubSeq(buffer.data, 1, buffer.size)
               b == SubSeq(stdin, 1, k)
               c == SubSeq(stdin', 1, m)
    <3>1. a \in Seq(STRING) /\ b \in Seq(STRING)
      BY <1>2, <1>3, Beginning
    <3>2. c \in Seq(STRING)
      <4>1. m =< Len(stdin')
        BY <2>3 DEF Takes
      <4> QED BY <2>2, <2>4, <4>1, Beginning
    <3> HIDE DEF a, b, c
    <3>3. (a \o b) \o c = a \o (b \o c)
      BY <3>1, <3>2, ConcatAssociative
    <3> QED BY <1>3, <2>4, <2>6, <3>3 DEF a, b, c
  <2> QED BY <2>4, <2>6, <2>7, <2>8
<1> QED
  BY <1>4, <1>5

\* A read is a step of ReadEval when it begins a line, and none when it goes on.
LEMMA ReadRefines ==
  ASSUME LineInv, LineInv', line_buffer_read
  PROVE  [Promise!Next]_Promise!vars
<1>1. /\ pc \in {"prompt", "read"} /\ prompt' = prompt
      /\ pc' \in {"interpret", "read"}
  BY ReadsKeepBuffer DEF line_buffer_read, LineInv
<1>2. Phase' = "evaluating"
  BY <1>1 DEF Phase
<1>3. stdin \in Seq(STRING) /\ buffer.data \in Seq(STRING)
  BY DEF LineInv, BufferOK
<1>4. CASE stdin = <<>>
  <2>1. stdin' = <<>> /\ buffer'.data = buffer.data /\ pc' = "interpret"
    <3>1. PICK k \in 0..Len(stdin), capacity \in Nat : ReadsTo(k, capacity)
      BY Reads DEF LineInv
    <3>2. k = 0 /\ stdin' = SubSeq(stdin, 1, 0)
      BY <1>4, <3>1 DEF ReadsTo
    <3>3. buffer' = [buffer EXCEPT !.capacity = capacity] /\ pc' = "interpret"
      BY <3>1, <3>2 DEF ReadsTo
    <3>4. buffer'.data = buffer.data
      BY <3>3 DEF LineInv, BufferOK
    <3>5. stdin' = <<>>
      BY <3>2, SubSeqEmpty
    <3> QED BY <3>3, <3>4, <3>5
  <2>2. (LineInv /\ pc # "read" => Rest = stdin /\ Evaluated = buffer.data)'
    BY BetweenReads, PTL
  <2>3. Rest' = <<>> /\ Evaluated' = buffer.data
    BY <2>1, <2>2
  <2>4. CASE pc = "prompt"
    <3>1. Rest = <<>> /\ Evaluated = buffer.data /\ Phase = "asking"
      BY <1>4, <2>4, BetweenReads DEF Phase
    <3>2. \A n \in DOMAIN Rest : Rest[n] # "\n"
      BY <3>1
    <3>3. Promise!LastAgain
      BY <1>1, <1>2, <2>3, <3>1, <3>2 DEF Promise!LastAgain, Rest, Evaluated, Phase
    <3> QED BY <3>3 DEF Promise!Next
  <2>5. CASE pc = "read"
    <3>1. Takes(stdin, Len(stdin), 0)
      BY <1>4 DEF Takes
    <3>2. Rest = SubSeq(stdin, 0 + 1, Len(stdin)) /\ Evaluated = buffer.data \o SubSeq(stdin, 1, 0)
      BY <2>5, <3>1, WhileReading DEF LineGoesOn
    <3>3. SubSeq(stdin, 1, 0) = <<>>
      BY SubSeqEmpty
    <3>4. Rest = <<>> /\ Evaluated = buffer.data
      BY <1>3, <1>4, <3>2, <3>3, ConcatEmptySeq
    <3>5. Phase = "evaluating"
      BY <2>5 DEF Phase
    <3> QED BY <1>1, <1>2, <2>3, <3>4, <3>5 DEF Promise!vars, Rest, Evaluated, Phase
  <2> QED BY <1>1, <2>4, <2>5
<1>5. CASE stdin # <<>>
  <2>1. PICK k \in 1..Len(stdin) :
          /\ Takes(stdin, Len(stdin), k)
          /\ Rest' = SubSeq(stdin, k + 1, Len(stdin))
          /\ Evaluated' = SubSeq(buffer.data, 1, buffer.size) \o SubSeq(stdin, 1, k)
    BY <1>5, PieceBeginsLine
  <2>2. CASE pc = "prompt"
    <3>1. Promise!ReadLine \/ Promise!LastAgain
      BY <1>1, <1>2, <2>1, <2>2, LineIsRead
    <3> QED BY <3>1 DEF Promise!Next
  <2>3. CASE pc = "read"
    <3>1. k \in Nat
      BY <2>1
    <3>2. Rest = SubSeq(stdin, k + 1, Len(stdin)) /\ Evaluated = buffer.data \o SubSeq(stdin, 1, k)
      BY <2>1, <2>3, <3>1, WhileReading DEF LineGoesOn
    <3>3. SubSeq(buffer.data, 1, buffer.size) = buffer.data
      <4> DEFINE s == SubSeq(buffer.data, 1, buffer.size)
      <4>1. buffer.size = Len(buffer.data)
        BY <2>3 DEF LineInv, Conversation
      <4>2. s \in Seq(STRING) /\ Len(s) = Len(buffer.data)
            /\ \A i \in 1..Len(buffer.data) : s[i] = buffer.data[i]
        BY <1>3, <4>1, Beginning
      <4> HIDE DEF s
      <4>3. s = buffer.data
        BY <1>3, <4>2, SeqEqual
      <4> QED BY <4>3 DEF s
    <3>4. Rest' = Rest /\ Evaluated' = Evaluated
      BY <2>1, <3>2, <3>3
    <3>5. Phase = "evaluating"
      BY <2>3 DEF Phase
    <3> QED BY <1>1, <1>2, <3>4, <3>5 DEF Promise!vars, Rest, Evaluated, Phase
  <2> QED BY <1>1, <2>2, <2>3
<1> QED
  BY <1>4, <1>5

\* At first nothing has been read.
LEMMA InitRefines == Init => Promise!Init
<1> SUFFICES ASSUME Init PROVE Promise!Init
  OBVIOUS
<1>1. LineInv /\ pc = "prompt" /\ prompt = ">>>" /\ buffer.data = <<>>
  BY InitLine DEF Init
<1>2. Rest = stdin /\ Evaluated = <<>> /\ Phase = "asking" /\ stdin \in Seq(STRING)
  BY <1>1, BetweenReads DEF Phase, LineInv, BufferOK
<1> QED
  BY <1>1, <1>2 DEF Promise!Init, Rest, Evaluated, Phase

\* Steps that neither read nor answer change nothing for ReadEval, unless a
\* program ends the process.
LEMMA StepRefines == LineInv /\ LineInv' /\ [Next]_vars => [Promise!Next]_Promise!vars
<1> SUFFICES ASSUME LineInv, LineInv', [Next]_vars PROVE [Promise!Next]_Promise!vars
  OBVIOUS
<1>0. (LineInv /\ pc # "read" => Rest = stdin /\ Evaluated = buffer.data)'
  BY BetweenReads, PTL
<1>1. CASE line_buffer_read
  BY <1>1, ReadRefines
<1>2. CASE bs_interpret
  <2>1. /\ pc = "interpret" /\ pc' \in {"generate", "answer"}
        /\ UNCHANGED <<stdin, buffer, prompt>>
    BY <1>2 DEF bs_interpret, reading
  <2>2. Rest' = Rest /\ Evaluated' = Evaluated
    BY <1>0, <2>1, BetweenReads
  <2>3. Phase = "evaluating" /\ Phase' = "evaluating"
    BY <2>1 DEF Phase
  <2> QED BY <2>1, <2>2, <2>3 DEF Promise!vars, Rest, Evaluated, Phase
<1>3. CASE generate_bytecode \/ chunk_disassemble \/ bs_interpret_end
  <2>1. /\ UNCHANGED <<stdin, buffer, prompt, status>>
        /\ pc \in Running /\ pc' \in Running \cup {"answer", "exited"}
    BY <1>3, RunningSteps DEF reading
  <2>2. Rest' = Rest /\ Evaluated' = Evaluated /\ Evaluated = buffer.data
    BY <1>0, <2>1, BetweenReads DEF Running
  <2>3. Phase = "evaluating"
    BY <2>1 DEF Phase, Running
  <2>4. CASE pc' = "exited"
    <3>1. Verdict(Evaluated) = "program"
      BY <2>1, <2>2, Verdicts DEF LineInv, Conversation, Running
    <3>2. Phase' = "stopped"
      BY <2>4 DEF Phase
    <3>3. Promise!Stop
      BY <2>1, <2>2, <2>3, <3>1, <3>2, SameVerdict DEF Promise!Stop, Rest, Evaluated, Phase
    <3> QED BY <3>3 DEF Promise!Next
  <2>5. CASE pc' # "exited"
    <3>1. Phase' = "evaluating"
      BY <2>1, <2>5 DEF Phase, Running
    <3> QED BY <2>1, <2>2, <2>3, <3>1 DEF Promise!vars, Rest, Evaluated, Phase
  <2> QED BY <2>4, <2>5
<1>4. CASE repl
  <2>1. /\ pc = "answer" /\ pc' = "prompt"
        /\ UNCHANGED stdin /\ buffer'.data = buffer.data
        /\ prompt' = IF status = "BS_Incomplete" THEN "..." ELSE ">>>"
    BY <1>4 DEF repl, LineInv, BufferOK
  <2>2. Rest' = Rest /\ Evaluated' = Evaluated /\ Evaluated = buffer.data
    BY <1>0, <2>1, BetweenReads
  <2>3. Phase = "evaluating" /\ Phase' = "asking"
    BY <2>1 DEF Phase
  <2>4. prompt' = IF Verdict(Evaluated) = "incomplete" THEN "..." ELSE ">>>"
    BY <2>1, <2>2, Verdicts DEF LineInv, Conversation
  <2>5. Promise!Answer
    BY <2>2, <2>3, <2>4, SameVerdict DEF Promise!Answer, Rest, Evaluated, Phase
  <2> QED BY <2>5 DEF Promise!Next
<1>5. CASE UNCHANGED vars
  BY <1>5 DEF vars, reading, Promise!vars, RestOfLine, Taken
<1> QED
  BY <1>1, <1>2, <1>3, <1>4, <1>5 DEF Next

\* However fgets() cuts the lines into pieces, and however the buffer is kept
\* and cleared, repl() reads the input a line at a time and evaluates each
\* once, behind the incomplete ones.
THEOREM ReplImplementsReadEval == Spec => IsReadEval
<1>1. Spec => []LineInv
  BY BufferNeverOverflows
<1>2. LineInv /\ LineInv' /\ [Next]_vars => [Promise!Next]_Promise!vars
  BY StepRefines
<1> QED
  BY <1>1, <1>2, InitRefines, PTL DEF Spec, IsReadEval

=============================================================================
