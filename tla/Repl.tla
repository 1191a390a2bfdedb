-------------------------------- MODULE Repl --------------------------------
(***************************************************************************)
(* The REPL (bsc.c) and the interpreter it calls (bs.c), composed of the   *)
(* line buffer, what parse() makes of a source (Source), the code          *)
(* generator (CodeGen), the chunk with its disassembler (Chunk) and the    *)
(* memory tracker (Memory).                                                *)
(*                                                                         *)
(* Standard input is a terminal, on which a read waits for a line, or a    *)
(* file that ends; it holds no NUL, and at least one character.  Printing  *)
(* is left out but for the disassembly, and so are malloc() failures       *)
(* outside the tracked memory.                                             *)
(***************************************************************************)
EXTENDS CodeGen, Source

CONSTANTS
    LineRoom,  \* the first capacity of the line buffer, 128 in the code
    Slack,     \* room the line buffer keeps, 8 in the code
    Inputs,    \* records [text, ends] of what standard input holds
    Rooms      \* how much tracked memory there may be

ASSUME LineBufferAssumption == {LineRoom, Slack} \subseteq Nat \ {0} /\ LineRoom > Slack
ASSUME RoomsAssumption == Rooms \subseteq Nat
ASSUME InputsAssumption ==
    /\ Inputs \subseteq [text : Seq(STRING), ends : BOOLEAN]
    /\ \A input \in Inputs : input.ends => input.text # <<>>
ASSUME StatementsAssumption == \A ch \in DOMAIN Statements : Statements[ch] \in Trees

VARIABLES
    stdin,    \* what has not been read yet
    ends,     \* whether it ends, or waits for more
    buffer,   \* struct LineBuffer; data is the text up to the terminating NUL
    prompt,
    pc,       \* where the process is
    status,   \* what bs_interpret() is going to return
    offset,   \* of the disassembler
    listing   \* the lines it has printed

codegen == <<chunk, todo>>
reading == <<stdin, ends, buffer>>
listed  == <<offset, listing>>
vars == <<codegen, reading, prompt, pc, status, listed>>

Init ==
    /\ \E input \in Inputs : stdin = input.text /\ ends = input.ends
    /\ buffer = [data |-> <<>>, size |-> 0, capacity |-> 0]
    /\ prompt = ">>>"
    /\ pc = "prompt"
    /\ status = "BS_Ok"
    /\ \E room \in Rooms : chunk = chunk_init(mem_init(room))
    /\ todo = <<>>
    /\ offset = 0 /\ listing = <<>>

-----------------------------------------------------------------------------
(***************************************************************************)
(* line_buffer_read().                                                     *)
(***************************************************************************)
\* Mutant: the buffer grows when nothing fits any more.
line_buffer_full_late(b) == b.capacity =< b.size

line_buffer_full(b) == b.capacity =< b.size + Slack

line_buffer_resize_if_required(b) ==
    IF ~line_buffer_full(b) THEN b
    ELSE [b EXCEPT !.capacity = IF @ = 0 THEN LineRoom ELSE 2 * @]

\* How many characters fgets() takes with room for n of them: up to and with
\* the first newline.
Taken(n) ==
    CHOOSE k \in 0..n :
        /\ k =< Len(stdin)
        /\ \A j \in 1..(k - 1) : stdin[j] # "\n"
        /\ k = n \/ k = Len(stdin) \/ (k > 0 /\ stdin[k] = "\n")

\* One fgets(), and the look at what it read.  It waits if it finds neither
\* a line nor enough characters nor the end.
line_buffer_read ==
    /\ pc \in {"prompt", "read"}
    /\ LET b == line_buffer_resize_if_required(buffer)
           n == b.capacity - b.size - 1
           k == Taken(n)
       IN /\ ends \/ k = n \/ (k > 0 /\ stdin[k] = "\n")
          /\ stdin' = SubSeq(stdin, k + 1, Len(stdin))
          /\ IF stdin = <<>> /\ ends
             THEN buffer' = b /\ pc' = "interpret"
             ELSE /\ buffer' = [b EXCEPT !.data = SubSeq(@, 1, b.size) \o SubSeq(stdin, 1, k),
                                         !.size = @ + k]
                  /\ pc' = IF k > 0 /\ stdin[k] = "\n" THEN "interpret" ELSE "read"
    /\ UNCHANGED <<ends, prompt, codegen, status, listed>>

-----------------------------------------------------------------------------
(***************************************************************************)
(* bs_interpret().                                                         *)
(***************************************************************************)
StatusOf(verdict) ==
    CASE verdict = "program"    -> "BS_Ok"
      [] verdict = "error"      -> "BS_Error"
      [] verdict = "incomplete" -> "BS_Incomplete"

bs_interpret ==
    /\ pc = "interpret"
    /\ status' = StatusOf(Verdict(buffer.data))
    /\ IF status' = "BS_Ok"
       THEN /\ chunk' = chunk_init(chunk.mem)
            /\ todo' = <<Emit(Ast("Program", "", Program(buffer.data)))>>
            /\ pc' = "generate"
       ELSE /\ pc' = "answer"
            /\ UNCHANGED codegen
    /\ offset' = 0 /\ listing' = <<>>
    /\ UNCHANGED <<reading, prompt>>

generate_bytecode ==
    /\ pc = "generate"
    /\ \/ emit /\ pc' = IF chunk'.mem.died = "no" THEN pc ELSE "exited"
       \/ AtUnimplemented /\ pc' = "exited" /\ UNCHANGED codegen
       \/ todo = <<>> /\ pc' = "disassemble" /\ UNCHANGED codegen
    /\ UNCHANGED <<reading, prompt, status, listed>>

\* One round of the loop of chunk_disassemble(), or the end of the loop.
chunk_disassemble ==
    /\ pc = "disassemble"
    /\ \/ /\ offset < Len(chunk.code.items)
          /\ \/ /\ ChecksPass(chunk, offset)
                /\ listing' = Append(listing, Line(chunk, offset))
                /\ offset' = offset + 1 + OperandSize(chunk, offset)
                /\ UNCHANGED pc
             \/ /\ ~ChecksPass(chunk, offset)
                /\ pc' = "exited"
                /\ UNCHANGED listed
       \/ /\ offset >= Len(chunk.code.items)
          /\ pc' = "fini"
          /\ UNCHANGED listed
    /\ UNCHANGED <<codegen, reading, prompt, status>>

\* chunk_fini(), ast_free() and the return.
bs_interpret_end ==
    /\ pc = "fini"
    /\ chunk' = chunk_fini(chunk)
    /\ pc' = IF chunk'.mem.died = "no" THEN "answer" ELSE "exited"
    /\ UNCHANGED <<todo, reading, prompt, status, listed>>

-----------------------------------------------------------------------------
\* Mutant: the line buffer is kept after an error.
Clears_only_ok(answer) == answer = "BS_Ok"

\* The answers after which the line buffer is cleared.
Clears(answer) == answer \in {"BS_Ok", "BS_Error"}

\* The switch at the end of the loop of repl().
repl ==
    /\ pc = "answer"
    /\ prompt' = IF status = "BS_Incomplete" THEN "..." ELSE ">>>"
    /\ buffer' = IF Clears(status) THEN [buffer EXCEPT !.size = 0] ELSE buffer
    /\ pc' = "prompt"
    /\ UNCHANGED <<stdin, ends, codegen, status, listed>>

Next ==
    \/ line_buffer_read
    \/ bs_interpret \/ generate_bytecode \/ chunk_disassemble \/ bs_interpret_end
    \/ repl

\* The process runs whenever it can.
Spec == Init /\ [][Next]_vars /\ WF_vars(Next)

-----------------------------------------------------------------------------
(***************************************************************************)
(* Properties.                                                             *)
(***************************************************************************)
VecOK(vec) == vec.capacity \in Nat /\ Len(vec.items) =< vec.capacity

\* Variables keep their shape, what is read fits into the line buffer with its
\* terminating NUL, and no vector is longer than its capacity.
TypeOK ==
    /\ ends \in BOOLEAN
    /\ buffer.capacity \in Nat
    /\ Len(buffer.data) < buffer.capacity \/ buffer.data = <<>>
    /\ buffer.size \in {0, Len(buffer.data)}
    /\ prompt \in {">>>", "..."}
    /\ pc \in {"prompt", "read", "interpret", "generate", "disassemble", "fini", "answer", "exited"}
    /\ status \in {"BS_Ok", "BS_Error", "BS_Incomplete"}
    /\ VecOK(chunk.code) /\ VecOK(chunk.values)
    /\ \A k \in DOMAIN chunk.code.items : chunk.code.items[k] \in DOMAIN OpCodes \cup 0..(Byte - 1)
    /\ offset \in Nat

\* mem_used is what the vectors of the chunk hold, at every moment: nothing
\* after chunk_fini(), and no size is ever reported wrongly.
MemoryIsCounted ==
    /\ chunk.mem.died # "miscounted"
    /\ chunk.mem.died = "no" =>
         chunk.mem.used = chunk.code.capacity + ValueSize * chunk.values.capacity
    /\ pc \in {"prompt", "read", "interpret", "answer"} => chunk.mem.used = 0

\* No assertion of the disassembler ever fails, nor does it meet a byte that
\* is no opcode: it reads what was emitted, wherever one byte of index ends.
ChecksHold == pc = "disassemble" /\ offset < Len(chunk.code.items) => ChecksPass(chunk, offset)

\* What an instruction does to a stack of trees, by what bytecode.h says of its
\* opcode: an operation puts a tree over those it takes away.
Executed(stack, line) ==
    LET top(n)   == SubSeq(stack, Len(stack) - n + 1, Len(stack))
        below(n) == SubSeq(stack, 1, Len(stack) - n)
    IN CASE line.name = "Nil"   -> Append(stack, Ast("Nil", "", <<>>))
         [] line.name = "True"  -> Append(stack, Ast("Boolean", "true", <<>>))
         [] line.name = "False" -> Append(stack, Ast("Boolean", "false", <<>>))
         [] line.constant # <<>> ->
              Append(stack, Ast(line.constant[1].type, line.constant[1].value, <<>>))
         [] line.name \in UnaryOperators -> Append(below(1), Ast("Unary", line.name, top(1)))
         [] OTHER -> Append(below(2), Ast("Binary", line.name, top(2)))

\* The trees a listing means.
Meaning(lines) ==
    LET stack[n \in 0..Len(lines)] ==
          IF n = 0 THEN <<>> ELSE Executed(stack[n - 1], lines[n])
    IN stack[Len(lines)]

\* What has been disassembled is the program: run on a stack machine, the
\* instructions leave the values of its statements, in their order.
ListingIsTheProgram == pc = "fini" => Meaning(listing) = Program(buffer.data)

\* The line being read: what fgets() has left of it.
RestOfLine ==
    LET k == Taken(Len(stdin)) IN IF pc = "read" THEN SubSeq(stdin, 1, k) ELSE <<>>

Promise == INSTANCE ReadEval WITH
    rest   <- SubSeq(stdin, Len(RestOfLine) + 1, Len(stdin)),
    source <- buffer.data \o RestOfLine,
    phase  <- CASE pc = "prompt" -> "asking"
                [] pc = "exited" -> "stopped"
                [] OTHER         -> "evaluating"

\* However a line is cut into pieces, and however the buffer is kept and
\* cleared, the REPL evaluates each line once, behind the incomplete ones.
IsReadEval == Promise!Init /\ [][Promise!Next]_Promise!vars

\* Every line is read, unless a program ends the process: what is evaluated
\* always comes to its end.
HasLine == \E k \in DOMAIN stdin : stdin[k] = "\n"

LinesAreRead == HasLine ~> ~HasLine \/ pc = "exited"

=============================================================================
