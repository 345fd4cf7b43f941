------------------------------- MODULE Semaph -------------------------------
(***************************************************************************)
(* The System V semaphore library of apue/lib/semaph.c.  A named semaphore *)
(* is a set of three kernel semaphores: member 0 is the value the clients  *)
(* use, member 1 counts the processes that use the set (downwards from     *)
(* BIGCOUNT), member 2 is the lock of sem_create() and sem_close().  Every *)
(* system call is one step; a process may exit between any two of them,    *)
(* and the kernel then applies its SEM_UNDO adjustments.                   *)
(***************************************************************************)
EXTENDS Integers, FiniteSets

CONSTANTS
    Proc,        \* the processes that share the key
    Creators,    \* those that attach with sem_create()
    Openers,     \* those that attach with sem_open()
    Servers,     \* those that may call sem_rm()
    BIGCOUNT,    \* initial value of the process counter
    InitVal,     \* the initval argument of sem_create()
    Amounts,     \* the value arguments of sem_op()
    MayExit      \* may a process exit without sem_close()?

ASSUME SemaphAssumption ==
    /\ IsFiniteSet(Proc)
    /\ Creators \subseteq Proc /\ Openers \subseteq Proc /\ Servers \subseteq Proc
    /\ BIGCOUNT \in Nat \ {0}
    /\ InitVal \in Nat
    /\ Amounts \subseteq Int
    /\ MayExit \in BOOLEAN

VARIABLES
    alive,       \* does a semaphore set exist for the key?
    sem,         \* the values of its three members
    adj,         \* the adjust values the kernel keeps for each process
    id,          \* the semaphore ID a process holds
    pc,          \* the system call a process is about to make
    asleep,      \* processes blocked inside semop()
    amt,         \* the argument of the sem_op() a process is executing
    held         \* units a process took with sem_op() and has not given back

vars == <<alive, sem, adj, id, pc, asleep, amt, held>>

Value == 0       \* {0}: the semaphore value
Count == 1       \* {1}: the process counter
Lock  == 2       \* {2}: the lock variable
Member == {Value, Count, Lock}

(* The ID of a removed set is never that of a set created later, so all    *)
(* that matters of an ID is whether it names the set that exists now.      *)
IDs == {"none", "live", "stale"}

PCs == {"idle", "c_get", "c_lock", "c_getval", "c_setval0", "c_setval1",
        "c_end", "o_dec", "open", "op", "x_lock", "x_getval", "x_rm",
        "x_unlock", "dead"}

Zeros == [m \in Member |-> 0]

Init ==
    /\ alive = FALSE
    /\ sem = Zeros
    /\ adj = [p \in Proc |-> Zeros]
    /\ id = [p \in Proc |-> "none"]
    /\ pc = [p \in Proc |-> "idle"]
    /\ asleep = {}
    /\ amt = [p \in Proc |-> 0]
    /\ held = [p \in Proc |-> 0]

-----------------------------------------------------------------------------
(* The operation arrays given to semop().  "zero": members that must be 0  *)
(* first; "delta": what is added to each member; "undo": the members whose *)
(* entry has SEM_UNDO.  The kernel performs an array entirely or not at all*)

Delta(v, c, l) == [m \in Member |-> CASE m = Value -> v
                                      [] m = Count -> c
                                      [] m = Lock  -> l]

Fault_op_lock_nowait == [zero |-> {}, delta |-> Delta(0, 0, 1), undo |-> Member]
Fault_op_lock_noundo == [zero |-> {Lock}, delta |-> Delta(0, 0, 1), undo |-> {}]
op_lock == [zero |-> {Lock}, delta |-> Delta(0, 0, 1), undo |-> Member]

Fault_op_endcreate == [zero |-> {}, delta |-> Delta(0, -1, -1), undo |-> {Lock}]
op_endcreate == [zero |-> {}, delta |-> Delta(0, -1, -1), undo |-> Member]

op_open == [zero |-> {}, delta |-> Delta(0, -1, 0), undo |-> Member]

op_close == [zero |-> {Lock}, delta |-> Delta(0, 1, 1), undo |-> Member]

op_unlock == [zero |-> {}, delta |-> Delta(0, 0, -1), undo |-> Member]

op_op(v) == [zero |-> {}, delta |-> Delta(v, 0, 0), undo |-> Member]

-----------------------------------------------------------------------------
(* The kernel's side of the system calls.                                  *)

CanDo(op) ==
    /\ \A m \in op.zero : sem[m] = 0
    /\ \A m \in Member : sem[m] + op.delta[m] >= 0

(* semop() with array "op" by p at label "from": performs it and goes on   *)
(* at "to".  The call is also completed by the kernel while p sleeps in it.*)
Semop(p, op, from, to) ==
    /\ pc[p] = from
    /\ id[p] = "live"
    /\ CanDo(op)
    /\ sem' = [m \in Member |-> sem[m] + op.delta[m]]
    /\ adj' = [adj EXCEPT ![p] =
                 [m \in Member |-> adj[p][m] - IF m \in op.undo THEN op.delta[m] ELSE 0]]
    /\ asleep' = asleep \ {p}
    /\ pc' = [pc EXCEPT ![p] = to]

(* A semop() that cannot be performed blocks its caller.                   *)
Blocks(p, op, from) ==
    /\ pc[p] = from
    /\ id[p] = "live"
    /\ p \notin asleep
    /\ ~CanDo(op)
    /\ asleep' = asleep \cup {p}
    /\ UNCHANGED <<alive, sem, adj, id, pc, amt, held>>

(* semctl(SETVAL) also clears every process's adjust value of the member.  *)
Setval(m, v) ==
    /\ sem' = [sem EXCEPT ![m] = v]
    /\ adj' = [q \in Proc |-> [adj[q] EXCEPT ![m] = 0]]

(* semctl(IPC_RMID) by p: the set disappears with all adjust values, and   *)
(* whoever still has its ID has a stale one.                               *)
Rmid(p) ==
    /\ alive' = FALSE
    /\ sem' = Zeros
    /\ adj' = [q \in Proc |-> Zeros]
    /\ id' = [q \in Proc |-> IF q = p THEN "none"
                             ELSE IF id[q] = "live" THEN "stale" ELSE id[q]]

(* p terminates: each adjust value is added, a result below 0 becomes 0.   *)
Die(p) ==
    /\ sem' = [m \in Member |-> IF sem[m] + adj[p][m] < 0 THEN 0
                                ELSE sem[m] + adj[p][m]]
    /\ adj' = [adj EXCEPT ![p] = Zeros]
    /\ id' = [id EXCEPT ![p] = "none"]
    /\ pc' = [pc EXCEPT ![p] = "dead"]
    /\ asleep' = asleep \ {p}
    /\ amt' = [amt EXCEPT ![p] = 0]
    /\ held' = [held EXCEPT ![p] = 0]
    /\ UNCHANGED alive

Goto(p, to) == pc' = [pc EXCEPT ![p] = to]

-----------------------------------------------------------------------------
(* sem_create(key, initval)                                                *)

CreateCall(p) ==
    /\ p \in Creators
    /\ pc[p] = "idle"
    /\ Goto(p, "c_get")
    /\ UNCHANGED <<alive, sem, adj, id, asleep, amt, held>>

(* semget(key, 3, IPC_CREAT): the existing set, or a new one of zeros; or  *)
(* it fails (permission, tables full) and sem_create() returns -1.         *)
CreateGet(p) ==
    /\ pc[p] = "c_get"
    /\ \/ /\ alive' = TRUE
          /\ id' = [id EXCEPT ![p] = "live"]
          /\ Goto(p, "c_lock")
       \/ /\ Goto(p, "idle")
          /\ UNCHANGED <<alive, id>>
    /\ UNCHANGED <<sem, adj, asleep, amt, held>>

CreateLock(p) ==
    /\ Semop(p, op_lock, "c_lock", "c_getval")
    /\ UNCHANGED <<alive, id, amt, held>>

(* EINVAL: the set was removed before the semop(); "goto again".           *)
CreateAgain(p) ==
    /\ pc[p] = "c_lock"
    /\ id[p] = "stale"
    /\ p \notin asleep
    /\ id' = [id EXCEPT ![p] = "none"]
    /\ Goto(p, "c_get")
    /\ UNCHANGED <<alive, sem, adj, asleep, amt, held>>

Fault_CreateGetval(p) ==
    /\ pc[p] = "c_getval"
    /\ id[p] = "live"
    /\ Goto(p, "c_setval0")
    /\ UNCHANGED <<alive, sem, adj, id, asleep, amt, held>>
CreateGetval(p) ==
    /\ pc[p] = "c_getval"
    /\ id[p] = "live"
    /\ Goto(p, IF sem[Count] = 0 THEN "c_setval0" ELSE "c_end")
    /\ UNCHANGED <<alive, sem, adj, id, asleep, amt, held>>

CreateSetval0(p) ==
    /\ pc[p] = "c_setval0"
    /\ id[p] = "live"
    /\ Setval(Value, InitVal)
    /\ Goto(p, "c_setval1")
    /\ UNCHANGED <<alive, id, asleep, amt, held>>

Fault_CreateSetval1(p) ==
    /\ pc[p] = "c_setval1"
    /\ id[p] = "live"
    /\ Goto(p, "c_end")
    /\ UNCHANGED <<alive, sem, adj, id, asleep, amt, held>>
CreateSetval1(p) ==
    /\ pc[p] = "c_setval1"
    /\ id[p] = "live"
    /\ Setval(Count, BIGCOUNT)
    /\ Goto(p, "c_end")
    /\ UNCHANGED <<alive, id, asleep, amt, held>>

CreateEnd(p) ==
    /\ Semop(p, op_endcreate, "c_end", "open")
    /\ UNCHANGED <<alive, id, amt, held>>

-----------------------------------------------------------------------------
(* sem_open(key): without a set semget() fails and nothing changes.        *)

OpenCall(p) ==
    /\ p \in Openers
    /\ pc[p] = "idle"
    /\ alive
    /\ id' = [id EXCEPT ![p] = "live"]
    /\ Goto(p, "o_dec")
    /\ UNCHANGED <<alive, sem, adj, asleep, amt, held>>

OpenDec(p) ==
    /\ Semop(p, op_open, "o_dec", "open")
    /\ UNCHANGED <<alive, id, amt, held>>

-----------------------------------------------------------------------------
(* sem_op(id, value), sem_wait(id) = sem_op(id, -1), sem_signal(id) =      *)
(* sem_op(id, 1).  The library lets a client call these in any order.  The *)
(* clients assumed here give back what they took and do not wait or close  *)
(* while they hold units, because nothing can be promised about the value  *)
(* for others: sem_op() has SEM_UNDO, so the units of a client that only   *)
(* signals vanish when it exits, and the kernel stops at 0 if they are in  *)
(* use by then.  Members 1 and 2 do not depend on this.                    *)

OpCall(p) ==
    /\ pc[p] = "open"
    /\ \E v \in Amounts \ {0} :
          /\ IF v < 0 THEN held[p] = 0 ELSE v <= held[p]
          /\ amt' = [amt EXCEPT ![p] = v]
    /\ Goto(p, "op")
    /\ UNCHANGED <<alive, sem, adj, id, asleep, held>>

OpDo(p) ==
    /\ Semop(p, op_op(amt[p]), "op", "open")
    /\ held' = [held EXCEPT ![p] = @ - amt[p]]
    /\ amt' = [amt EXCEPT ![p] = 0]
    /\ UNCHANGED <<alive, id>>

(* err_sys("can't have value == 0")                                        *)
OpZero(p) ==
    /\ pc[p] = "open"
    /\ 0 \in Amounts
    /\ Die(p)

-----------------------------------------------------------------------------
(* sem_close(id)                                                           *)

CloseCall(p) ==
    /\ pc[p] = "open"
    /\ held[p] = 0
    /\ Goto(p, "x_lock")
    /\ UNCHANGED <<alive, sem, adj, id, asleep, amt, held>>

CloseLock(p) ==
    /\ Semop(p, op_close, "x_lock", "x_getval")
    /\ UNCHANGED <<alive, id, amt, held>>

Fault_CloseGetval_early(p) ==
    /\ pc[p] = "x_getval"
    /\ id[p] = "live"
    /\ Goto(p, IF sem[Count] >= BIGCOUNT - 1 THEN "x_rm" ELSE "x_unlock")
    /\ UNCHANGED <<alive, sem, adj, id, asleep, amt, held>>
Fault_CloseGetval_never(p) ==
    /\ pc[p] = "x_getval"
    /\ id[p] = "live"
    /\ Goto(p, IF sem[Count] > BIGCOUNT THEN "x_rm" ELSE "x_unlock")
    /\ UNCHANGED <<alive, sem, adj, id, asleep, amt, held>>
CloseGetval(p) ==
    /\ pc[p] = "x_getval"
    /\ id[p] = "live"
    /\ sem[Count] <= BIGCOUNT
    /\ Goto(p, IF sem[Count] = BIGCOUNT THEN "x_rm" ELSE "x_unlock")
    /\ UNCHANGED <<alive, sem, adj, id, asleep, amt, held>>

(* err_dump("sem[1] > BIGCOUNT")                                           *)
CloseDump(p) ==
    /\ pc[p] = "x_getval"
    /\ id[p] = "live"
    /\ sem[Count] > BIGCOUNT
    /\ Die(p)

CloseRm(p) ==
    /\ pc[p] = "x_rm"
    /\ id[p] = "live"
    /\ Rmid(p)
    /\ Goto(p, "idle")
    /\ UNCHANGED <<asleep, amt, held>>

CloseUnlock(p) ==
    /\ Semop(p, op_unlock, "x_unlock", "idle")
    /\ id' = [id EXCEPT ![p] = "none"]
    /\ UNCHANGED <<alive, amt, held>>

-----------------------------------------------------------------------------
(* sem_rm(id), called by a server that shuts down.                         *)
RmCall(p) ==
    /\ p \in Servers
    /\ pc[p] = "open"
    /\ id[p] = "live"
    /\ Rmid(p)
    /\ Goto(p, "idle")
    /\ held' = [held EXCEPT ![p] = 0]
    /\ UNCHANGED <<asleep, amt>>

(* err_sys(): a system call on an ID whose set was removed fails, with     *)
(* EIDRM if the caller was asleep in semop().  Only the EINVAL of the      *)
(* op_lock semop() is not fatal (CreateAgain).                             *)
SysError(p) ==
    /\ id[p] = "stale"
    /\ pc[p] # "open"
    /\ pc[p] = "c_lock" => p \in asleep
    /\ Die(p)

RmError(p) ==
    /\ p \in Servers
    /\ pc[p] = "open"
    /\ id[p] = "stale"
    /\ Die(p)

Sleep(p) ==
    \/ Blocks(p, op_lock, "c_lock")
    \/ Blocks(p, op_endcreate, "c_end")
    \/ Blocks(p, op_open, "o_dec")
    \/ Blocks(p, op_op(amt[p]), "op")
    \/ Blocks(p, op_close, "x_lock")

(* exit(), a signal, or EINTR out of a blocked semop().                    *)
Exit(p) ==
    /\ MayExit
    /\ pc[p] # "dead"
    /\ Die(p)

(* Another process is started in its place.                                *)
Restart(p) ==
    /\ pc[p] = "dead"
    /\ Goto(p, "idle")
    /\ UNCHANGED <<alive, sem, adj, id, asleep, amt, held>>

-----------------------------------------------------------------------------

Create(p) == \/ CreateGet(p)     \/ CreateLock(p)    \/ CreateAgain(p)
             \/ CreateGetval(p)  \/ CreateSetval0(p) \/ CreateSetval1(p)
             \/ CreateEnd(p)

Close(p) == \/ CloseLock(p) \/ CloseGetval(p) \/ CloseDump(p)
            \/ CloseRm(p)   \/ CloseUnlock(p)

(* The steps a process takes inside a library call.                        *)
InCall(p) == Create(p) \/ OpenDec(p) \/ OpDo(p) \/ Close(p) \/ SysError(p) \/ Sleep(p)

(* What its program decides to do next.                                    *)
Client(p) == \/ CreateCall(p) \/ OpenCall(p) \/ OpCall(p) \/ OpZero(p)
             \/ CloseCall(p)  \/ RmCall(p)   \/ RmError(p)

Next == \E p \in Proc : InCall(p) \/ Client(p) \/ Exit(p) \/ Restart(p)

Spec == Init /\ [][Next]_vars

(* A process inside a library call keeps running.  The lock is passed to   *)
(* the sleepers in the order of their semop() calls, so a process asleep   *)
(* on it is not overtaken for ever: strong fairness.                       *)
Fairness == \A p \in Proc : /\ WF_vars(InCall(p))
                            /\ SF_vars(CreateLock(p))
                            /\ SF_vars(CloseLock(p))

FairSpec == Spec /\ Fairness

-----------------------------------------------------------------------------
(* Properties.                                                             *)

(* p is between the semop() that takes the lock and the call that gives it *)
(* back (op_endcreate, op_unlock, or the IPC_RMID).                        *)
InLock(p) == id[p] = "live" /\ pc[p] \in {"c_getval", "c_setval0", "c_setval1", "c_end",
                                          "x_getval", "x_rm", "x_unlock"}

(* p attached and has not yet told the process counter that it is done.    *)
Counted(p) == id[p] = "live" /\ pc[p] \in {"open", "op", "x_lock"}

(* p has been given an ID by sem_create() or sem_open() and has not been   *)
(* through the op_close of sem_close().                                    *)
HasHandle(p) == pc[p] \in {"open", "op", "x_lock"}

TypeOK ==
    /\ alive \in BOOLEAN
    /\ sem \in [Member -> Nat]
    /\ adj \in [Proc -> [Member -> Int]]
    /\ id \in [Proc -> IDs]
    /\ pc \in [Proc -> PCs]
    /\ asleep \in SUBSET Proc
    /\ amt \in [Proc -> Int]
    /\ held \in [Proc -> Int]

(* "[2] is used as a lock variable to avoid any race conditions": whatever *)
(* exits and removals happen, two processes are never both between the     *)
(* op_lock or op_close semop() and the release of the same set.            *)
LockExclusion == \A p, q \in Proc : InLock(p) /\ InLock(q) => p = q

(* Member 1 is exactly BIGCOUNT less the number of processes that attached *)
(* and neither closed nor exited; 0 means that nobody initialized the set, *)
(* and then nobody is attached (sem_create() relies on both readings).     *)
CounterExact ==
    LET n == Cardinality({p \in Proc : Counted(p)})
    IN  IF sem[Count] = 0 THEN n = 0 ELSE sem[Count] + n = BIGCOUNT

(* "If the semaphore already exists, we don't initialize it (of course)":  *)
(* between the GETVAL that found 0 and the SETVAL calls, nobody is using   *)
(* the set whose value and adjust values those calls overwrite.            *)
InitializesUnused ==
    \A p, q \in Proc : (id[p] = "live" /\ pc[p] \in {"c_setval0", "c_setval1"})
                       => ~Counted(q)

(* The inductive invariants behind these properties.  For the lock: what   *)
(* the kernel would undo for a process is the lock it holds, and a set     *)
(* that does not exist has no users.                                       *)
IdKnown ==
    /\ ~alive => sem = Zeros /\ \A p \in Proc : id[p] # "live" /\ adj[p] = Zeros
    /\ \A p \in Proc : pc[p] \in {"idle", "c_get", "dead"} => id[p] = "none"

LockUndo == \A p \in Proc : adj[p][Lock] = IF InLock(p) THEN -1 ELSE 0

LockValue == sem[Lock] = IF \E p \in Proc : InLock(p) THEN 1 ELSE 0

LockInv == TypeOK /\ IdKnown /\ LockUndo /\ LockValue /\ LockExclusion

(* For the counter: what the kernel would undo is the attachment, and only *)
(* a set whose counter is still 0 is being initialized.                    *)
CountUndo == \A p \in Proc : adj[p][Count] = IF Counted(p) THEN 1 ELSE 0

Uninitialized ==
    \A p \in Proc : id[p] = "live" /\ pc[p] \in {"c_setval0", "c_setval1"}
                   => sem[Count] = 0

CountInv == CountUndo /\ CounterExact /\ Uninitialized

(* The set behind an ID returned by sem_create() or sem_open() is not      *)
(* removed by the sem_close() of another process: the counter says who is  *)
(* still using it.                                                         *)
HandleStays == \A p \in Proc : HasHandle(p) => id[p] = "live"

(* When every process calls sem_close(), the last one removes the set: no  *)
(* set outlives the processes that hold its ID.                            *)
NoLeak == alive => \E p \in Proc : id[p] = "live"

(* sem_close() returns (or its process dies): the lock it waits for is     *)
(* never left behind by a process that exited inside sem_create() or       *)
(* sem_close(), because its SEM_UNDO releases it.                          *)
CloseReturns == \A p \in Proc : pc[p] = "x_lock" ~> pc[p] \in {"idle", "dead"}

(* sem_open() comes back, with the ID or by dying of an error: a process   *)
(* that found the set with semget() is not left asleep in op_open for ever *)
(* on a set that nobody initializes.                                       *)
OpenReturns == \A p \in Proc : pc[p] = "o_dec" ~> pc[p] # "o_dec"

(* The comment in sem_create() on the race with sem_close(): "if it does   *)
(* happen, we just go back and create it again".  A process waiting for    *)
(* the lock in sem_create() does not die of the removal of the set.        *)
CreateSurvivesRemoval ==
    [][\A p \in Proc : pc[p] = "c_lock" => pc'[p] # "dead"]_vars
=============================================================================
