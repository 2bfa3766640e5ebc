----------------------------- MODULE RingBuffer -----------------------------
(***************************************************************************)
(* The log buffer of an application (support/log_buffer.rs,                *)
(* CircularMappedMemFdBuffer): a memory of fixed size that is overwritten  *)
(* from the start once it is full.  Positions are logical: write_pos is    *)
(* the number of bytes ever written, a usize, and byte i is at             *)
(* i % Capacity.  The memory is mapped twice in a row (support/mmap.rs),   *)
(* so that a range of it may run past its end.                             *)
(***************************************************************************)
EXTENDS Integers, Sequences

CONSTANTS
    Capacity,       \* log_buffer_size
    PosLimit,       \* 2^w, for a usize of w bits
    NoByte          \* what the memory holds before it is written

ASSUME CapacityAssumption ==
    Capacity \in Nat \ {0} /\ PosLimit \in Nat \ {0}

(* A power of two, as the default size is.  With another one the places of the
   bytes would shift when write_pos overflows. *)
ASSUME WidthAssumption == PosLimit % Capacity = 0

VARIABLES mem, write_pos

ringVars == <<mem, write_pos>>

RingInit ==
    /\ mem = [i \in 0..(Capacity - 1) |-> NoByte]
    /\ write_pos = 0

(* What is at offset i of the double mapping of the memory m. *)
Mapped(m, i) == m[i % Capacity]

(* Mutant: the range starts at the beginning of the memory. *)
View_FromZero(m, pos, len) == [k \in 1..len |-> Mapped(m, k - 1)]

(* Index: len bytes from position pos on. *)
View(m, pos, len) == [k \in 1..len |-> Mapped(m, (pos % Capacity) + k - 1)]

(* start_pos: the oldest position that is still retained. *)
StartPos == IF write_pos > Capacity THEN write_pos - Capacity ELSE 0

(* Mutant: a transfer may run past the end of the memory. *)
Clamp_Unclamped(pos, len) == len

(* Of len bytes at position pos, those before the end of the memory. *)
Clamp(pos, len) ==
    LET rest == Capacity - (pos % Capacity)
    IN IF len <= rest THEN len ELSE rest

(* splice_from_and_view: the bytes bs, at most Clamp many, come in.  A release
   build does not check the addition for overflow. *)
RingWrite(bs) ==
    LET phys_off == write_pos % Capacity
    IN /\ mem' = [i \in 0..(Capacity - 1) |->
                    IF i - phys_off \in 0..(Len(bs) - 1)
                    THEN bs[i - phys_off + 1] ELSE mem[i]]
       /\ write_pos' = (write_pos + Len(bs)) % PosLimit

(* Mutant: the bytes that are gone are not reported. *)
ReadFromCursor_NoMissed(from) ==
    LET start == IF from < StartPos THEN StartPos ELSE from
        len   == Clamp(start, (write_pos - start) % PosLimit)
    IN [missed |-> 0, buffer |-> View(mem, start, len)]

(* Mutant: a chunk runs to the end of the memory, written or not. *)
ReadFromCursor_Whole(from) ==
    LET start == IF from < StartPos THEN StartPos ELSE from
        len   == Clamp(start, Capacity)
    IN [missed |-> start - from, buffer |-> View(mem, start, len)]

(* read_from_cursor: how many bytes after `from` are gone, and the bytes that
   follow them up to the end of the memory (none: the buffer is None). *)
ReadFromCursor(from) ==
    LET start == IF from < StartPos THEN StartPos ELSE from
        len   == Clamp(start, (write_pos - start) % PosLimit)
    IN [missed |-> start - from, buffer |-> View(mem, start, len)]
=============================================================================
