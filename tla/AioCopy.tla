------------------------------ MODULE AioCopy -------------------------------
(***************************************************************************)
(* ch14_async.c: a file is copied through NBUF buffers with asynchronous   *)
(* reads and writes.  main() goes round the buffers; the kernel completes  *)
(* the operations it has been given, in any order, in full or in part, or  *)
(* fails them.  Offsets and sizes are in units in which a buffer has BSZ   *)
(* of them.                                                                *)
(***************************************************************************)
EXTENDS Integers, FiniteSets

CONSTANTS
    NBUF,        \* buffers
    BSZ,         \* size of a buffer
    Sizes        \* the sizes of the input file, sbuf.st_size

VARIABLES
    st_size,
    op,          \* bufs[i].op
    aio,         \* bufs[i].aiocb: offset and length, and how far the kernel is
    last,        \* bufs[i].last
    data,        \* what bufs[i].data holds: a part of the input, translated?
    listed,      \* the buffers with an entry in aiolist[]
    off, n, numop,
    i,           \* the buffer the loop is at
    at,          \* "switch", "test" (after the switch), "suspend", "quit"
    file,        \* the output file: what is at each offset
    partial      \* history: the reads and writes that transferred less than
                 \* they could

vars == <<st_size, op, aio, last, data, listed, off, n, numop, i, at, file, partial>>

Buf == 0 .. NBUF - 1
Offsets == {o \in 0 .. st_size - 1 : o % BSZ = 0}
(* What is read of the input at offset o with a buffer of length BSZ.      *)
Available(o) == IF st_size - o < BSZ THEN st_size - o ELSE BSZ
Nothing == [offset |-> 0, len |-> 0, translated |-> FALSE]
Idle == [st |-> "idle", offset |-> 0, nbytes |-> 0]

Init ==
    /\ st_size \in Sizes
    /\ op = [b \in Buf |-> "UNUSED"]
    /\ aio = [b \in Buf |-> Idle]
    /\ last = [b \in Buf |-> 0]
    /\ data = [b \in Buf |-> Nothing]
    /\ listed = {}
    /\ off = 0 /\ n = 0 /\ numop = 0
    /\ i = 0 /\ at = "switch"
    /\ file = [o \in Offsets |-> Nothing]
    /\ partial = {}

-----------------------------------------------------------------------------
(* The next buffer; after the last one the outer loop starts again.        *)
NextBuf == i' = (i + 1) % NBUF /\ at' = "switch"

(* case UNUSED: read the next block, if there is one.                      *)
Fault_StartRead ==
    /\ at = "switch" /\ op[i] = "UNUSED"
    /\ at' = "test"
    /\ IF off + BSZ < st_size
       THEN /\ op' = [op EXCEPT ![i] = "READ_PENDING"]
            /\ off' = off + BSZ
            /\ aio' = [aio EXCEPT ![i] = [st |-> "read", offset |-> off, nbytes |-> BSZ]]
            /\ last' = [last EXCEPT ![i] = IF off' >= st_size THEN 1 ELSE @]
            /\ listed' = listed \cup {i}
            /\ numop' = numop + 1
       ELSE UNCHANGED <<op, aio, off, last, listed, numop>>
    /\ UNCHANGED <<st_size, data, n, i, file, partial>>
StartRead ==
    /\ at = "switch" /\ op[i] = "UNUSED"
    /\ at' = "test"
    /\ IF off < st_size
       THEN /\ op' = [op EXCEPT ![i] = "READ_PENDING"]
            /\ aio' = [aio EXCEPT ![i] = [st |-> "read", offset |-> off, nbytes |-> BSZ]]
            /\ off' = off + BSZ
            /\ last' = [last EXCEPT ![i] = IF off' >= st_size THEN 1 ELSE @]
            /\ listed' = listed \cup {i}
            /\ numop' = numop + 1
       ELSE UNCHANGED <<op, aio, off, last, listed, numop>>
    /\ UNCHANGED <<st_size, data, n, i, file, partial>>

(* aio_error() = EINPROGRESS: "continue" passes over aio_suspend().        *)
InProgress ==
    /\ at = "switch" /\ op[i] # "UNUSED"
    /\ aio[i].st \in {"read", "write"}
    /\ NextBuf
    /\ UNCHANGED <<st_size, op, aio, last, data, listed, off, n, numop, file, partial>>

(* aio_error() of an operation that failed: err_exit().                    *)
OperationFailed ==
    /\ at = "switch" /\ op[i] # "UNUSED"
    /\ aio[i].st = "failed"
    /\ at' = "quit"
    /\ UNCHANGED <<st_size, op, aio, last, data, listed, off, n, numop, i, file, partial>>

(* case READ_PENDING, done: aio_return(), translate, aio_write().          *)
Fault_StartWrite ==
    /\ at = "switch" /\ op[i] = "READ_PENDING" /\ aio[i].st = "idle"
    /\ n' = data[i].len
    /\ data' = [data EXCEPT ![i].translated = TRUE]
    /\ op' = [op EXCEPT ![i] = "WRITE_PENDING"]
    /\ aio' = [aio EXCEPT ![i] = [st |-> "write", offset |-> off, nbytes |-> n']]
    /\ at' = "test"
    /\ UNCHANGED <<st_size, last, listed, off, numop, i, file, partial>>
StartWrite ==
    /\ at = "switch" /\ op[i] = "READ_PENDING" /\ aio[i].st = "idle"
    /\ n' = data[i].len
    /\ IF n' # BSZ /\ last[i] = 0
       THEN at' = "quit" /\ UNCHANGED <<op, aio, data>>
       ELSE /\ data' = [data EXCEPT ![i].translated = TRUE]
            /\ op' = [op EXCEPT ![i] = "WRITE_PENDING"]
            /\ aio' = [aio EXCEPT ![i] = [st |-> "write", offset |-> @.offset, nbytes |-> n']]
            /\ at' = "test"
    /\ UNCHANGED <<st_size, last, listed, off, numop, i, file, partial>>

(* case WRITE_PENDING, done: n is what the last aio_return() returned, for *)
(* whichever buffer that was.                                              *)
EndWrite ==
    /\ at = "switch" /\ op[i] = "WRITE_PENDING" /\ aio[i].st = "idle"
    /\ IF n # aio[i].nbytes
       THEN at' = "quit" /\ UNCHANGED <<op, listed, numop>>
       ELSE /\ listed' = listed \ {i}
            /\ op' = [op EXCEPT ![i] = "UNUSED"]
            /\ numop' = numop - 1
            /\ at' = "test"
    /\ UNCHANGED <<st_size, aio, last, data, off, n, i, file, partial>>

(* After the switch.  The break leaves the loop over the buffers, not the  *)
(* one around it.                                                          *)
Test ==
    /\ at = "test"
    /\ IF numop > 0 THEN at' = "suspend" /\ UNCHANGED i
       ELSE IF off >= st_size THEN i' = 0 /\ at' = "switch" ELSE NextBuf
    /\ UNCHANGED <<st_size, op, aio, last, data, listed, off, n, numop, file, partial>>

(* aio_suspend(): until an operation in the list is complete.              *)
Suspend ==
    /\ at = "suspend"
    /\ \E b \in listed : aio[b].st \in {"idle", "failed"}
    /\ NextBuf
    /\ UNCHANGED <<st_size, op, aio, last, data, listed, off, n, numop, file, partial>>

(* The kernel completes the operation of buffer b.  It reads less where    *)
(* the file was cut off after fstat(), and writes less where the disk is   *)
(* full.                                                                   *)
Written(k) == IF k = 0 THEN {0} ELSE 1 .. k

CompleteRead(b) ==
    /\ aio[b].st = "read"
    /\ \E l \in 0 .. Available(aio[b].offset) :
          /\ data' = [data EXCEPT ![b] = [offset |-> aio[b].offset, len |-> l, translated |-> FALSE]]
          /\ partial' = partial \cup {x \in {<<"read", aio[b].offset>>} : l < Available(aio[b].offset)}
    /\ UNCHANGED file

CompleteWrite(b) ==
    /\ aio[b].st = "write"
    /\ \E l \in Written(aio[b].nbytes) :
          /\ file' = [file EXCEPT ![aio[b].offset] = [data[b] EXCEPT !.len = l]]
          /\ partial' = partial \cup {x \in {<<"write", aio[b].offset>>} : l < aio[b].nbytes}
    /\ UNCHANGED data

Complete(b) ==
    /\ \/ CompleteRead(b) /\ aio' = [aio EXCEPT ![b].st = "idle"]
       \/ CompleteWrite(b) /\ aio' = [aio EXCEPT ![b].st = "idle"]
       \/ /\ aio[b].st \in {"read", "write"}
          /\ aio' = [aio EXCEPT ![b].st = "failed"]
          /\ UNCHANGED <<data, file, partial>>
    /\ UNCHANGED <<st_size, op, last, listed, off, n, numop, i, at>>

Main == StartRead \/ InProgress \/ OperationFailed \/ StartWrite \/ EndWrite \/ Test \/ Suspend

Next == Main \/ \E b \in Buf : Complete(b)

Spec == Init /\ [][Next]_vars

FairSpec == Spec /\ WF_vars(Main) /\ \A b \in Buf : WF_vars(Complete(b))

-----------------------------------------------------------------------------
(* Properties.                                                             *)

(* Whatever the order in which the kernel completes the operations, what   *)
(* is at an offset of the output is the translation of what was read of    *)
(* the same part of the input.  It is all of that part unless the write    *)
(* was short, which the program never notices, or the part is the last and *)
(* its read was short: of any other part the program notices it.           *)
OutputRight ==
    \A o \in Offsets : file[o] # Nothing =>
        /\ file[o].offset = o /\ file[o].translated /\ file[o].len <= Available(o)
        /\ file[o].len < Available(o) =>
              \/ <<"write", o>> \in partial
              \/ <<"read", o>> \in partial /\ o + BSZ >= st_size

(* The whole input is copied, unless the program quits.                    *)
AllCopied == <>(at = "quit" \/ \A o \in Offsets : file[o] # Nothing)

(* The program quits only when an operation failed, a read was short, or   *)
(* the input ends with a short block: then n can be the length of another  *)
(* block than the one it is compared with.                                 *)
QuitsOnlyIfShort ==
    at = "quit" => \/ st_size % BSZ # 0
                   \/ \E o \in Offsets : <<"read", o>> \in partial
                   \/ \E b \in Buf : aio[b].st = "failed"
=============================================================================
