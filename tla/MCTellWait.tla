----------------------------- MODULE MCTellWait -----------------------------
(* The programs that use tellwait.c, as Code for TellWait.                 *)
EXTENDS TellWait

Op(o) == [op |-> o]
On(o, b) == [op |-> o, byte |-> b]
Programs(parent, child) == [p \in Proc |-> IF p = "parent" THEN parent ELSE child]

(* ch14_deadlock.c                                                         *)
DeadlockCode == Programs(
    <<Op("TELL_WAIT"), Op("fork"), On("writew_lock", 1), Op("TELL"), Op("WAIT"), On("writew_lock", 0)>>,
    <<On("writew_lock", 0), Op("TELL"), Op("WAIT"), On("writew_lock", 1)>>)

(* ch14_lock.c                                                             *)
LockCode == Programs(
    <<Op("TELL_WAIT"), Op("fork"), On("write_lock", 0), Op("TELL"), Op("waitpid")>>,
    <<Op("WAIT"), On("read_lock_busy", 0)>>)

(* ch08_racecondition2.c                                                   *)
RaceCode == Programs(
    <<Op("TELL_WAIT"), Op("fork"), Op("work"), Op("TELL")>>,
    <<Op("WAIT"), Op("work")>>)

(* ch10_signal_fork.c, where TELL_WAIT() comes after fork()                *)
SignalForkCode == Programs(
    <<Op("fork"), Op("TELL_WAIT"), Op("work"), Op("WAIT")>>,
    <<Op("work"), Op("TELL")>>)

(* Every program that calls TELL_WAIT() before fork(), after which each    *)
(* process tells and waits at most once, in either order, around some work *)
(* of its own, unless one waits in vain or each waits for the other first. *)
Parts == UNION {[1 .. n -> {"TELL", "WAIT", "work"}] : n \in 0 .. 3}
Position(s, o) == CHOOSE i \in DOMAIN s : s[i] = o
Calls(s, o) == Cardinality({i \in DOMAIN s : s[i] = o})
WaitsFirst(s) == /\ Calls(s, "WAIT") = 1
                 /\ Calls(s, "TELL") = 1 => Position(s, "WAIT") < Position(s, "TELL")
Matched(s, t) == Calls(s, "WAIT") <= Calls(t, "TELL")
WellFormed(s) == Calls(s, "TELL") <= 1 /\ Calls(s, "WAIT") <= 1
Clients == {c \in {s \in Parts : WellFormed(s)} \X {s \in Parts : WellFormed(s)} :
              /\ Matched(c[1], c[2]) /\ Matched(c[2], c[1])
              /\ ~(WaitsFirst(c[1]) /\ WaitsFirst(c[2]))}
ToCode(s) == [i \in DOMAIN s |-> Op(s[i])]
ClientCodes == {Programs(<<Op("TELL_WAIT"), Op("fork")>> \o ToCode(c[1]), ToCode(c[2])) : c \in Clients}

AllCodes == ClientCodes \cup {LockCode, RaceCode, DeadlockCode}
OnlyDeadlock == {DeadlockCode}
OnlySignalFork == {SignalForkCode}
Bytes == {0, 1}
=============================================================================
