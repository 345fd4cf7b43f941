------------------------------ MODULE TellWait ------------------------------
(***************************************************************************)
(* The parent/child synchronization of apue/lib/tellwait.c by SIGUSR1 and  *)
(* SIGUSR2, executed by the programs that use it, with the record locks    *)
(* two of them compete for.  A program is a sequence of operations for     *)
(* each of the two processes; signals are delivered between any two steps. *)
(***************************************************************************)
EXTENDS Integers, Sequences, FiniteSets

CONSTANTS
    Codes,       \* the programs: the operations of the parent and of the child
    Byte         \* bytes of the file that can be locked

Sigs == {"SIGUSR1", "SIGUSR2"}
Proc == {"parent", "child"}
Peer(p) == IF p = "parent" THEN "child" ELSE "parent"

LockOps == [op : {"writew_lock", "write_lock", "read_lock_busy"}, byte : Byte]
Ops == [op : {"fork", "TELL_WAIT", "TELL", "WAIT", "work", "waitpid"}] \cup LockOps

ASSUME CodeAssumption == \A c \in Codes : c \in [Proc -> Seq(Ops)]

VARIABLES
    code,        \* the program that is executed
    state,       \* "none" (not forked), "run", "exit", "killed", "failed"
    ip,          \* the operation a process is at
    step,        \* the call within it
    handler,     \* signals that sig_usr() is installed for
    mask, oldmask, pending, sigflag,
    suspended,   \* is the process inside sigsuspend()?
    owner,       \* owner of the record lock of each byte
    blockedOn,   \* bytes whose lock a process is waiting for
    claims,      \* bytes that a process says it "got the lock" of
    told,        \* how often a process was told
    returned     \* how often its WAIT_... returned

vars == <<code, state, ip, step, handler, mask, oldmask, pending, sigflag, suspended,
          owner, blockedOn, claims, told, returned>>
sigvars == <<handler, mask, oldmask, pending, sigflag, suspended>>
lockvars == <<owner, blockedOn, claims>>

Init ==
    /\ code \in Codes
    /\ state = [p \in Proc |-> IF p = "parent" THEN "run" ELSE "none"]
    /\ ip = [p \in Proc |-> 1]
    /\ step = [p \in Proc |-> 1]
    /\ handler = [p \in Proc |-> {}]
    /\ mask = [p \in Proc |-> {}]
    /\ oldmask = [p \in Proc |-> {}]
    /\ pending = [p \in Proc |-> {}]
    /\ sigflag = [p \in Proc |-> FALSE]
    /\ suspended = [p \in Proc |-> FALSE]
    /\ owner = [b \in Byte |-> "none"]
    /\ blockedOn = [p \in Proc |-> {}]
    /\ claims = [p \in Proc |-> {}]
    /\ told = [p \in Proc |-> 0]
    /\ returned = [p \in Proc |-> 0]

-----------------------------------------------------------------------------
(* Operation o, at its n-th step.                                          *)
At(p, o, n) ==
    /\ state[p] = "run"
    /\ ip[p] <= Len(code[p])
    /\ code[p][ip[p]].op = o
    /\ step[p] = n
    /\ ~suspended[p]

Arg(p) == code[p][ip[p]].byte

Done(p) == ip' = [ip EXCEPT ![p] = @ + 1] /\ step' = [step EXCEPT ![p] = 1]
GoStep(p, n) == step' = [step EXCEPT ![p] = n] /\ UNCHANGED ip

(* fork(): the child starts with a copy of everything but pending signals  *)
(* and record locks.                                                       *)
Fork(p) ==
    /\ At(p, "fork", 1)
    /\ state' = [state EXCEPT !["child"] = "run"]
    /\ handler' = [handler EXCEPT !["child"] = handler[p]]
    /\ mask' = [mask EXCEPT !["child"] = mask[p]]
    /\ oldmask' = [oldmask EXCEPT !["child"] = oldmask[p]]
    /\ sigflag' = [sigflag EXCEPT !["child"] = sigflag[p]]
    /\ Done(p)
    /\ UNCHANGED <<pending, suspended, lockvars, told, returned>>

(* TELL_WAIT(): signal(SIGUSR1), signal(SIGUSR2), sigprocmask(SIG_BLOCK).  *)
Fault_TellWaitHandler(p, n, s) ==
    /\ At(p, "TELL_WAIT", n)
    /\ handler' = [handler EXCEPT ![p] = @ \cup {"SIGUSR1"}]
    /\ GoStep(p, n + 1)
    /\ UNCHANGED <<state, mask, oldmask, pending, sigflag, suspended, lockvars, told, returned>>
TellWaitHandler(p, n, s) ==
    /\ At(p, "TELL_WAIT", n)
    /\ handler' = [handler EXCEPT ![p] = @ \cup {s}]
    /\ GoStep(p, n + 1)
    /\ UNCHANGED <<state, mask, oldmask, pending, sigflag, suspended, lockvars, told, returned>>

TellWaitBlock(p) ==
    /\ At(p, "TELL_WAIT", 3)
    /\ oldmask' = [oldmask EXCEPT ![p] = mask[p]]
    /\ mask' = [mask EXCEPT ![p] = @ \cup Sigs]
    /\ Done(p)
    /\ UNCHANGED <<state, handler, pending, sigflag, suspended, lockvars, told, returned>>

(* TELL_PARENT(pid) sends SIGUSR2, TELL_CHILD(pid) SIGUSR1.                *)
Tell(p) ==
    /\ At(p, "TELL", 1)
    /\ LET s == IF p = "child" THEN "SIGUSR2" ELSE "SIGUSR1"
       IN  pending' = [pending EXCEPT ![Peer(p)] = IF state[Peer(p)] = "run" THEN @ \cup {s} ELSE @]
    /\ told' = [told EXCEPT ![Peer(p)] = @ + 1]
    /\ Done(p)
    /\ UNCHANGED <<state, handler, mask, oldmask, sigflag, suspended, lockvars, returned>>

(* WAIT_PARENT() and WAIT_CHILD(): while (sigflag == 0) ...                *)
Fault_WaitTest(p) ==
    /\ At(p, "WAIT", 1)
    /\ IF sigflag[p] THEN GoStep(p, 3) ELSE GoStep(p, 2)
    /\ mask' = [mask EXCEPT ![p] = oldmask[p]]
    /\ UNCHANGED <<state, handler, oldmask, pending, sigflag, suspended, lockvars, told, returned>>
WaitTest(p) ==
    /\ At(p, "WAIT", 1)
    /\ IF sigflag[p] THEN GoStep(p, 3) ELSE GoStep(p, 2)
    /\ UNCHANGED <<state, sigvars, lockvars, told, returned>>

(* sigsuspend(&zeromask): unblock everything and sleep, in one step.       *)
Fault_WaitSuspend(p) ==
    /\ At(p, "WAIT", 2)
    /\ GoStep(p, 3)
    /\ UNCHANGED <<state, sigvars, lockvars, told, returned>>
WaitSuspend(p) ==
    /\ At(p, "WAIT", 2)
    /\ suspended' = [suspended EXCEPT ![p] = TRUE]
    /\ GoStep(p, 1)
    /\ UNCHANGED <<state, handler, mask, oldmask, pending, sigflag, lockvars, told, returned>>

WaitReset(p) ==
    /\ At(p, "WAIT", 3)
    /\ sigflag' = [sigflag EXCEPT ![p] = FALSE]
    /\ GoStep(p, 4)
    /\ UNCHANGED <<state, handler, mask, oldmask, pending, suspended, lockvars, told, returned>>

WaitUnmask(p) ==
    /\ At(p, "WAIT", 4)
    /\ mask' = [mask EXCEPT ![p] = oldmask[p]]
    /\ returned' = [returned EXCEPT ![p] = @ + 1]
    /\ Done(p)
    /\ UNCHANGED <<state, handler, oldmask, pending, sigflag, suspended, lockvars, told>>

(* The kernel delivers a signal that is not blocked; sigsuspend() returns  *)
(* after the handler, with the mask it was called with.                    *)
Deliver(p, s) ==
    /\ state[p] = "run"
    /\ s \in pending[p]
    /\ suspended[p] \/ s \notin mask[p]
    /\ pending' = [pending EXCEPT ![p] = @ \ {s}]
    /\ suspended' = [suspended EXCEPT ![p] = FALSE]
    /\ IF s \in handler[p]
       THEN sigflag' = [sigflag EXCEPT ![p] = TRUE] /\ UNCHANGED <<state, lockvars>>
       ELSE /\ state' = [state EXCEPT ![p] = "killed"]
            /\ owner' = [b \in Byte |-> IF owner[b] = p THEN "none" ELSE owner[b]]
            /\ blockedOn' = [blockedOn EXCEPT ![p] = {}]
            /\ UNCHANGED <<sigflag, claims>>
    /\ UNCHANGED <<ip, step, handler, mask, oldmask, told, returned>>

-----------------------------------------------------------------------------
(* Record locks.                                                           *)

Free(p, b) == owner[b] \in {"none", p}

(* lockabyte(): writew_lock() waits for the lock.  The kernel refuses with *)
(* EDEADLK to let both processes wait for each other; lockabyte() takes    *)
(* every result but a positive one for success.                            *)
LockAByte(p) ==
    /\ At(p, "writew_lock", 1)
    /\ \/ /\ Free(p, Arg(p))
          /\ owner' = [owner EXCEPT ![Arg(p)] = p]
       \/ /\ ~Free(p, Arg(p))
          /\ \E b \in blockedOn[Peer(p)] : owner[b] = p
          /\ UNCHANGED owner
    /\ blockedOn' = [blockedOn EXCEPT ![p] = {}]
    /\ claims' = [claims EXCEPT ![p] = @ \cup {Arg(p)}]
    /\ Done(p)
    /\ UNCHANGED <<state, sigvars, told, returned>>

LockBlocks(p) ==
    /\ At(p, "writew_lock", 1)
    /\ ~Free(p, Arg(p))
    /\ blockedOn[p] = {}
    /\ ~\E b \in blockedOn[Peer(p)] : owner[b] = p
    /\ blockedOn' = [blockedOn EXCEPT ![p] = {Arg(p)}]
    /\ UNCHANGED <<state, ip, step, sigvars, owner, claims, told, returned>>

(* ch14_lock.c: write_lock(), whose failure ends the parent.               *)
WriteLock(p) ==
    /\ At(p, "write_lock", 1)
    /\ IF Free(p, Arg(p))
       THEN /\ owner' = [owner EXCEPT ![Arg(p)] = p]
            /\ claims' = [claims EXCEPT ![p] = @ \cup {Arg(p)}]
            /\ Done(p)
            /\ UNCHANGED state
       ELSE /\ state' = [state EXCEPT ![p] = "failed"]
            /\ UNCHANGED <<ip, step, owner, claims>>
    /\ UNCHANGED <<sigvars, blockedOn, told, returned>>

(* ... and the child's read_lock(), which must be refused.                 *)
ReadLockBusy(p) ==
    /\ At(p, "read_lock_busy", 1)
    /\ IF Free(p, Arg(p))
       THEN state' = [state EXCEPT ![p] = "failed"] /\ UNCHANGED <<ip, step>>
       ELSE Done(p) /\ UNCHANGED state
    /\ UNCHANGED <<sigvars, lockvars, told, returned>>

-----------------------------------------------------------------------------

Work(p) ==
    /\ At(p, "work", 1)
    /\ Done(p)
    /\ UNCHANGED <<state, sigvars, lockvars, told, returned>>

Waitpid(p) ==
    /\ At(p, "waitpid", 1)
    /\ state["child"] \in {"exit", "killed", "failed"}
    /\ Done(p)
    /\ UNCHANGED <<state, sigvars, lockvars, told, returned>>

(* exit(0): the kernel releases the locks of the process.                  *)
Exit(p) ==
    /\ state[p] = "run"
    /\ ip[p] > Len(code[p])
    /\ state' = [state EXCEPT ![p] = "exit"]
    /\ owner' = [b \in Byte |-> IF owner[b] = p THEN "none" ELSE owner[b]]
    /\ UNCHANGED <<ip, step, sigvars, blockedOn, claims, told, returned>>

Wait(p) == WaitTest(p) \/ WaitSuspend(p) \/ WaitReset(p) \/ WaitUnmask(p)

Run(p) == \/ Fork(p)
          \/ TellWaitHandler(p, 1, "SIGUSR1") \/ TellWaitHandler(p, 2, "SIGUSR2")
          \/ TellWaitBlock(p)
          \/ Tell(p) \/ Wait(p)
          \/ LockAByte(p) \/ LockBlocks(p) \/ WriteLock(p) \/ ReadLockBusy(p)
          \/ Work(p) \/ Waitpid(p) \/ Exit(p)

Next == \E p \in Proc : \/ Run(p) /\ UNCHANGED code
                        \/ \E s \in Sigs : Deliver(p, s) /\ UNCHANGED code

Spec == Init /\ [][Next]_vars

(* Both processes keep running, and the kernel delivers its signals.       *)
FairSpec ==
    Spec /\ \A p \in Proc : /\ WF_vars(Run(p) /\ UNCHANGED code)
                            /\ \A s \in Sigs : WF_vars(Deliver(p, s) /\ UNCHANGED code)

-----------------------------------------------------------------------------
(* Properties.                                                             *)

(* No wake-up is lost between the test of sigflag and sigsuspend(): each   *)
(* process comes to the end of its program.                                *)
BothEnd == <>(\A p \in Proc : state[p] \in {"exit", "killed", "failed"})

(* TELL_PARENT() and TELL_CHILD() "tell" the other process that we're done *)
(* and it continues: the signal never kills it.                            *)
TellNeverKills == \A p \in Proc : state[p] # "killed"

(* ch14_lock.c asserts that the child's read_lock() fails ("child:         *)
(* read_lock succeeded" otherwise): the parent has the lock by then, and   *)
(* keeps it until the child is done.                                       *)
ReadLockRefused == \A p \in Proc : state[p] # "failed"

(* ch14_deadlock.c: before a process waits for its second byte, both have  *)
(* taken their first.                                                      *)
BothHaveOne == \A p \in Proc : blockedOn[p] # {} => \A q \in Proc : claims[q] # {}

(* "and wait for parent", "and wait for child": WAIT_...() does not return *)
(* before the other process has called TELL_...(), and returns at most     *)
(* once for each time it did; and the programs that rely on it find their  *)
(* locks taken in the order they were told.                                *)
WaitAfterTell == (\A p \in Proc : returned[p] <= told[p]) /\ ReadLockRefused /\ BothHaveOne

(* A process that printed "got the lock" of a byte has it until it exits,  *)
(* so the two never claim the same byte at once.                           *)
ClaimsHold == \A p \in Proc : state[p] = "run" => \A b \in claims[p] : owner[b] = p

=============================================================================
