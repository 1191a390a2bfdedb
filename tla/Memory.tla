------------------------------- MODULE Memory -------------------------------
(***************************************************************************)
(* The memory tracker of memory.c.  It does not know which blocks there    *)
(* are: whoever frees or reallocates a block says how large it was.        *)
(*                                                                         *)
(* room is what the allocator can give to the tracked blocks together; a   *)
(* realloc() beyond it fails.  After MEM_DIE the process is gone, and what *)
(* a caller goes on to do to the record means nothing.                     *)
(***************************************************************************)
EXTENDS Integers

mem_init(room) == [used |-> 0, room |-> room, died |-> "no"]

mem_free(mem, size) ==
    IF size > mem.used THEN [mem EXCEPT !.died = "miscounted"]
    ELSE [mem EXCEPT !.used = @ - size]

mem_realloc(mem, old_size, new_size) ==
    CASE old_size > mem.used -> [mem EXCEPT !.died = "miscounted"]
      [] old_size =< mem.used /\ mem.used - old_size + new_size > mem.room ->
            [mem EXCEPT !.died = "out of memory"]
      [] OTHER -> [mem EXCEPT !.used = @ - old_size + new_size]

=============================================================================
