----------------------------- MODULE Containers -----------------------------
(***************************************************************************)
(* my_array_list.c and mystack.h: a buffer of `size' elements, of which    *)
(* the first `len' are in use.  The list is used with a pointer that       *)
(* list_get() returned, as my_array_list_test.c:37 does: it points into    *)
(* the buffer, which realloc() may move.  What the callers put in and took *)
(* out is kept in `elems'.                                                 *)
(***************************************************************************)
EXTENDS Integers, SequencesExt

CONSTANTS
    Value,      \* what is stored: numbers from 0
    FirstSize,  \* the size list_new() is called with
    MaxElems    \* bound: elements stored at a time

VARIABLES
    kind,    \* "list" or "stack"
    buffer,  \* [size, len, mem]; mem is a function from 0, Junk if never written
    elems,   \* the sequence of the elements, as the caller sees it
    got      \* the pointer of list_get(): its element and the value it had,
             \* whether the buffer moved since and the elements that followed

containerVars == <<kind, buffer, elems, got>>

Junk == -1
NoPointer == [at |-> -1, val |-> Junk, moved |-> FALSE, shifted |-> FALSE]
Fresh(size) == [size |-> size, len |-> 0, mem |-> [i \in 0 .. size - 1 |-> Junk]]
Grown(b) == [b EXCEPT !.size = 2 * b.size,
                      !.mem = [i \in 0 .. 2 * b.size - 1 |-> IF i < b.size THEN b.mem[i] ELSE Junk]]
Room(b) == IF b.len = b.size THEN Grown(b) ELSE b
Stored(b, v) == [b EXCEPT !.mem = [@ EXCEPT ![b.len] = v], !.len = @ + 1]
(* The elements after `index' move down one by one.                        *)
Fault_Removed(b, index) ==
    [b EXCEPT !.mem = [i \in DOMAIN @ |-> IF i \in index .. b.len - 3 THEN @[i + 1] ELSE @[i]], !.len = @ - 1]
Removed(b, index) ==
    [b EXCEPT !.mem = [i \in DOMAIN @ |-> IF i \in index .. b.len - 2 THEN @[i + 1] ELSE @[i]], !.len = @ - 1]
(* The index of the first element that compares equal, or -1.              *)
Contain(b, v) == LET found == {i \in 0 .. b.len - 1 : b.mem[i] = v} IN IF found = {} THEN -1 ELSE Min(found)

ContainerInit == /\ \/ kind = "list" /\ buffer = Fresh(FirstSize)
                    \/ kind = "stack" /\ buffer = Fresh(4)
                 /\ elems = << >> /\ got = NoPointer

(* list_add() and mystack_push(), which are the same.                      *)
Add(v) == /\ Len(elems) < MaxElems
          /\ buffer' = Stored(Room(buffer), v)
          /\ elems' = Append(elems, v)
          /\ got' = [got EXCEPT !.moved = @ \/ (got.at # -1 /\ buffer.len = buffer.size)]
          /\ UNCHANGED kind
RemoveIndex(i) == /\ buffer' = Removed(buffer, i)
                  /\ elems' = RemoveAt(elems, i + 1)
                  /\ got' = [got EXCEPT !.shifted = @ \/ i <= got.at]
ListRemove(i) == kind = "list" /\ i < buffer.len /\ RemoveIndex(i) /\ UNCHANGED kind
ListRemoveVal(v) == kind = "list" /\ Contain(buffer, v) >= 0 /\ RemoveIndex(Contain(buffer, v)) /\ UNCHANGED kind
ListGet(i) == /\ kind = "list" /\ i < buffer.len
              /\ got' = [NoPointer EXCEPT !.at = i, !.val = buffer.mem[i]]
              /\ UNCHANGED <<kind, buffer, elems>>
(* mystack_pop() does not look at the length: the callers pop only what    *)
(* they pushed (mystack_test.c:13).                                        *)
Pop == /\ kind = "stack" /\ elems # << >>
       /\ buffer' = [buffer EXCEPT !.len = @ - 1]
       /\ elems' = Front(elems)
       /\ UNCHANGED <<kind, got>>
ContainerNext == \/ \E v \in Value : Add(v) \/ ListRemoveVal(v)
                 \/ \E i \in 0 .. MaxElems - 1 : ListRemove(i) \/ ListGet(i)
                 \/ Pop

(* The buffer holds what the caller stored, in order, and the first index  *)
(* list_contain() finds is the first place of the value.                   *)
BufferIsSequence ==
    /\ buffer.len = Len(elems) /\ buffer.len <= buffer.size /\ DOMAIN buffer.mem = 0 .. buffer.size - 1
    /\ \A i \in 1 .. Len(elems) : buffer.mem[i - 1] = elems[i]
    /\ \A v \in Value : LET i == Contain(buffer, v) IN
          IF i = -1 THEN v \notin ToSet(elems) ELSE elems[i + 1] = v /\ v \notin ToSet(SubSeq(elems, 1, i))
(* The pointer of list_get() shows the value it had until the buffer grows *)
(* or an element at or before it is removed: then another element is there *)
(* (my_array_list_test.c:42 compares with it after such a removal).        *)
PointerFresh ==
    got.at # -1 /\ ~got.moved /\ ~got.shifted => got.at < buffer.len /\ buffer.mem[got.at] = got.val
StackOrList == BufferIsSequence /\ PointerFresh
=============================================================================
