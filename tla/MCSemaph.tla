------------------------------ MODULE MCSemaph ------------------------------
(* Instances of Semaph for TLC.                                            *)
EXTENDS Semaph, TLC

CONSTANTS p1, p2, p3, p4

Two == {p1, p2}
Three == {p1, p2, p3}
Four == {p1, p2, p3, p4}
One == {p1}
WaitSignal == {-1, 1}
WaitSignalZero == {-1, 0, 1}
None == {}
UpToTwo == {-2, -1, 0, 1, 2}
Sym4 == Permutations(Four)

(* sem_create(), sem_op() and sem_close() implement the abstract counting  *)
(* semaphore of SemaphAbs: the system calls in between, the removal of the *)
(* set and its creation anew are invisible to the clients.                 *)
Abstract == INSTANCE SemaphAbs WITH users <- {p \in Proc : HasHandle(p)}
ImplementsSemaphore == Abstract!Spec
=============================================================================
