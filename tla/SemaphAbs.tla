----------------------------- MODULE SemaphAbs ------------------------------
(***************************************************************************)
(* What the interface at the top of apue/lib/semaph.c promises, without    *)
(* sets, IDs, counters or locks: processes attach to one counting          *)
(* semaphore, take units of it, give them back and detach; a process that  *)
(* exits gives back what it holds.                                         *)
(***************************************************************************)
EXTENDS Integers, Functions

CONSTANTS Proc, InitVal, Amounts

VARIABLES users,     \* processes between sem_create() and sem_close()
          held       \* units each process holds

vars == <<users, held>>

Init ==
    /\ users = {}
    /\ held = [p \in Proc |-> 0]

Attach(p) ==
    /\ p \notin users
    /\ users' = users \cup {p}
    /\ UNCHANGED held

(* sem_op(id, v): a negative v takes units and waits until it can.         *)
Op(p, v) ==
    /\ p \in users
    /\ SumFunction(held) - v <= InitVal
    /\ held[p] - v >= 0
    /\ held' = [held EXCEPT ![p] = @ - v]
    /\ UNCHANGED users

Detach(p) ==
    /\ p \in users
    /\ held[p] = 0
    /\ users' = users \ {p}
    /\ UNCHANGED held

Exit(p) ==
    /\ users' = users \ {p}
    /\ held' = [held EXCEPT ![p] = 0]

Next == \E p \in Proc : \/ Attach(p) \/ Detach(p) \/ Exit(p)
                        \/ \E v \in Amounts : Op(p, v)

Spec == Init /\ [][Next]_vars
=============================================================================
