----------------------------- MODULE MCPrograms -----------------------------
(* The programs of one process, in one instance for TLC: three threads     *)
(* that share an object, the copy with asynchronous I/O, the thread that   *)
(* takes the signals, the signal programs, the terminal modes, the         *)
(* containers and the pure algorithms.  prog, chosen at the start, is the   *)
(* one that runs; the others stay where they begin.                        *)
EXTENDS FooRef

CONSTANTS NBUF, BSZ, Sizes, MaxSent, t1, t2, t3,
          MaxSignals, Seconds,
          MaxLen, Keys, Letters, MaxEqs, MaxInput, Value, FirstSize, MaxElems, Terminals, fd1, fd2

VARIABLES prog,
          st_size, op, aio, last, data, listed, off, n, numop, i, at, file, partial,
          quitflag, lock, blocked, pending, main, thread, sent,
          who, stack, disp, mask, sig_pending, timer, var, child, ended, sig_sent, caught, cut,
          task,
          kind, buffer, elems, got,
          settings, save_termios, ttysavefd, ttystate, trouble

Copy == INSTANCE AioCopy
Wait == INSTANCE Sigwait
Sig == INSTANCE Signals WITH pending <- sig_pending, sent <- sig_sent, MaxSent <- MaxSignals
Alg == INSTANCE Algorithms
Con == INSTANCE Containers
Tty == INSTANCE Tty

copyVars == <<st_size, op, aio, last, data, listed, off, n, numop, i, at, file, partial>>
waitVars == <<quitflag, lock, blocked, pending, main, thread, sent>>
sigprogVars == <<who, stack, disp, mask, sig_pending, timer, var, child, ended, sig_sent, caught, cut>>
containerVars == <<kind, buffer, elems, got>>
ttyVars == <<settings, save_termios, ttysavefd, ttystate, trouble>>
all == <<prog, fooVars, copyVars, waitVars, sigprogVars, task, containerVars, ttyVars>>

Init == /\ prog \in {"copy", "foo", "wait", "signals", "algorithms", "containers", "tty"}
        /\ IF prog = "algorithms" THEN Alg!AlgorithmsInit ELSE task = << >>
        /\ FooInit /\ Wait!SigInit /\ Tty!TtyInit
        /\ Copy!Init /\ (prog # "copy" => st_size = 0)
        /\ Sig!SigprogInit /\ (prog # "signals" => who = "signal")
        /\ Con!ContainerInit /\ (prog # "containers" => kind = "list")

Runs(p) == prog = p /\ UNCHANGED <<prog, task>>
InCopy(A) == Runs("copy") /\ A /\ UNCHANGED <<fooVars, waitVars, sigprogVars, containerVars, ttyVars>>
InWait(A) == Runs("wait") /\ A /\ UNCHANGED <<fooVars, copyVars, sigprogVars, containerVars, ttyVars>>
InSignals(A) == Runs("signals") /\ A /\ UNCHANGED <<fooVars, copyVars, waitVars, containerVars, ttyVars>>

Next == \/ InCopy(Copy!Next)
        \/ InWait(Wait!SigNext)
        \/ InSignals(Sig!SigprogNext)
        \/ Runs("foo") /\ FooNext /\ UNCHANGED <<copyVars, waitVars, sigprogVars, containerVars, ttyVars>>
        \/ Runs("containers") /\ Con!ContainerNext /\ UNCHANGED <<fooVars, copyVars, waitVars, sigprogVars, ttyVars>>
        \/ Runs("tty") /\ Tty!TtyNext /\ UNCHANGED <<fooVars, copyVars, waitVars, sigprogVars, containerVars>>

(* The threads run, the kernel completes the operations it was given, and  *)
(* a thread that waits for a mutex gets it if it is free again and again.  *)
(* A signal program runs unless it waits, signals are delivered, the clock *)
(* ticks and a command ends; no signal and no input need ever come.        *)
Fairness ==
    /\ WF_all(InCopy(Copy!Main))
    /\ \A b \in 0 .. NBUF - 1 : WF_all(InCopy(Copy!Complete(b)))
    /\ WF_all(InWait(Wait!MainStep)) /\ WF_all(InWait(Wait!ThreadStep))
    /\ SF_all(InWait(Wait!MainLock)) /\ SF_all(InWait(Wait!ThreadLock))
    /\ WF_all(InSignals(Sig!ProgramStep)) /\ WF_all(InSignals(Sig!Deliver))
    /\ WF_all(InSignals(Sig!Tick)) /\ WF_all(InSignals(Sig!ChildEnds))

Spec == Init /\ [][Next]_all /\ Fairness

Three == {t1, t2, t3}
UpTo4Buffers == 0 .. 8
TwoTerminals == {fd1, fd2}

(* ch14_async.c, whatever the order of completion (see AioCopy).           *)
OutputRight == Copy!OutputRight /\ Copy!QuitsOnlyIfShort
AllCopied == prog = "copy" => Copy!AllCopied
(* ch12_pthread_signal.c ends on SIGQUIT (see Sigwait).                    *)
QuitEnds == Wait!QuitEnds
(* sleep() and system() give back handlers and mask; how the programs end; *)
(* and that they end (see Signals).                                        *)
CallerRestored == Sig!CallerRestored
Outcome == Sig!Outcome
ProgramsEnd == (prog = "signals" /\ Sig!Due) ~> (ended # "no" \/ Sig!Missed)
(* The terminal of tty_atexit() (see Tty); lists and stacks (Containers).  *)
ModesRestored == Tty!ModesRestored
StackOrList == Con!StackOrList
(* The algorithms against their definitions (see Algorithms).              *)
ResultsRight == prog = "algorithms" => Alg!SortsRight /\ Alg!ResultsRight
=============================================================================
