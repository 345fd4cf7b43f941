------------------------------ MODULE Sigwait ------------------------------
(***************************************************************************)
(* ch12_pthread_signal.c: a thread takes the signals with sigwait(), main  *)
(* waits for the flag it sets on SIGQUIT.  Anybody may send SIGINT and     *)
(* SIGQUIT at any time.                                                    *)
(***************************************************************************)
EXTENDS Integers, FiniteSets

CONSTANT MaxSent    \* bound: signals sent

VARIABLES
    quitflag,
    lock,        \* the owner of the mutex, or "free"
    blocked,     \* the signals main blocks (the thread inherits its mask)
    pending,     \* pending signals of the process
    main,        \* where main is
    thread,      \* where the thread is; "none" before pthread_create()
    sent         \* signals sent so far

sigVars == <<quitflag, lock, blocked, pending, main, thread, sent>>

Signals == {"SIGINT", "SIGQUIT"}
Over == {"exited", "killed"}

SigInit ==
    /\ quitflag = 0 /\ lock = "free"
    /\ blocked = {} /\ pending = {}
    /\ main = "start" /\ thread = "none"
    /\ sent = 0

-----------------------------------------------------------------------------
(* pthread_sigmask() and pthread_create(), which hands the mask on.        *)
Block ==
    /\ main = "start"
    /\ blocked' = Signals /\ main' = "create"
    /\ UNCHANGED <<quitflag, lock, pending, thread, sent>>

CreateThread ==
    /\ main = "create"
    /\ thread' = "sigwait" /\ main' = "lock"
    /\ UNCHANGED <<quitflag, lock, blocked, pending, sent>>

MainLock ==
    /\ main \in {"lock", "woken"} /\ lock = "free"
    /\ lock' = "main" /\ main' = "test"
    /\ UNCHANGED <<quitflag, blocked, pending, thread, sent>>

(* while (quitflag == 0) pthread_cond_wait(), which releases the mutex     *)
(* when main sleeps.                                                       *)
Test ==
    /\ main = "test"
    /\ main' = IF quitflag = 0 THEN "wait" ELSE "unlock"
    /\ UNCHANGED <<quitflag, lock, blocked, pending, thread, sent>>

CondWait ==
    /\ main = "wait"
    /\ lock' = "free" /\ main' = "waiting"
    /\ UNCHANGED <<quitflag, blocked, pending, thread, sent>>

Unlock ==
    /\ main = "unlock"
    /\ lock' = "free" /\ main' = "unlocked"
    /\ UNCHANGED <<quitflag, blocked, pending, thread, sent>>

(* A condition variable may wake a thread for no reason.                   *)
Spurious ==
    /\ main = "waiting" /\ main' = "woken"
    /\ UNCHANGED <<quitflag, lock, blocked, pending, thread, sent>>

(* sigprocmask() with the old mask: what is pending is delivered.          *)
Restore ==
    /\ main = "unlocked"
    /\ quitflag' = 0
    /\ blocked' = {}
    /\ main' = IF pending = {} THEN "exit" ELSE "killed"
    /\ UNCHANGED <<lock, pending, thread, sent>>

Exit ==
    /\ main = "exit" /\ main' = "exited"
    /\ UNCHANGED <<quitflag, lock, blocked, pending, thread, sent>>

Running == main \notin Over

(* sigwait(); the loop goes on after SIGINT.                               *)
TakeSignal ==
    /\ Running /\ thread = "sigwait"
    /\ \E s \in pending :
          /\ pending' = pending \ {s}
          /\ thread' = IF s = "SIGQUIT" THEN "lock" ELSE "sigwait"
    /\ UNCHANGED <<quitflag, lock, blocked, main, sent>>

Fault_ThreadLock ==
    /\ Running /\ thread = "lock"
    /\ thread' = "set"
    /\ UNCHANGED <<quitflag, lock, blocked, pending, main, sent>>
ThreadLock ==
    /\ Running /\ thread = "lock" /\ lock = "free"
    /\ lock' = "thread" /\ thread' = "set"
    /\ UNCHANGED <<quitflag, blocked, pending, main, sent>>

SetFlag ==
    /\ Running /\ thread = "set"
    /\ quitflag' = 1 /\ thread' = "unlock"
    /\ UNCHANGED <<lock, blocked, pending, main, sent>>

ThreadUnlock ==
    /\ Running /\ thread = "unlock"
    /\ lock' = "free" /\ thread' = "signal"
    /\ UNCHANGED <<quitflag, blocked, pending, main, sent>>

(* pthread_cond_signal() wakes main if it is waiting now.                  *)
Signal ==
    /\ Running /\ thread = "signal"
    /\ thread' = "returned"
    /\ main' = IF main = "waiting" THEN "woken" ELSE main
    /\ UNCHANGED <<quitflag, lock, blocked, pending, sent>>

(* A signal that is not blocked ends the process.                          *)
Send(s) ==
    /\ Running /\ sent < MaxSent
    /\ sent' = sent + 1
    /\ IF s \in blocked
       THEN pending' = pending \cup {s} /\ UNCHANGED main
       ELSE main' = "killed" /\ UNCHANGED pending
    /\ UNCHANGED <<quitflag, lock, blocked, thread>>

MainStep == Block \/ CreateThread \/ Test \/ CondWait \/ Unlock \/ Restore \/ Exit
ThreadStep == TakeSignal \/ SetFlag \/ ThreadUnlock \/ Signal

SigNext == \/ MainStep \/ MainLock \/ Spurious \/ ThreadStep \/ ThreadLock
           \/ \E s \in Signals : Send(s)

-----------------------------------------------------------------------------
(* Properties.                                                             *)

(* SIGQUIT, once main has blocked it, ends the program, whenever it comes: *)
(* the thread finds it pending, and main cannot miss the flag between its  *)
(* test and its wait.                                                      *)
QuitEnds == ("SIGQUIT" \in pending) ~> (main \in Over)
=============================================================================
