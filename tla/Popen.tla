------------------------------- MODULE Popen --------------------------------
(***************************************************************************)
(* popen() and pclose() of apue/lib/popen.c: a process that runs commands  *)
(* with a pipe to their standard input or from their standard output.  The *)
(* state is the descriptor table of the process, its array childpid[], and *)
(* the children with the pipe ends they have; pipes are what connects them.*)
(***************************************************************************)
EXTENDS Integers, FiniteSets

CONSTANTS
    NFD,         \* descriptors the kernel gives to the process
    MAXFD,       \* maxfd, as open_max() told it
    InitFds,     \* the descriptors that are open when it starts
    NChild,      \* bound: calls of popen()
    CallsFail    \* may fork(), fdopen() and fclose() fail?

ASSUME PopenAssumption ==
    /\ NFD \in Nat /\ MAXFD \in 2 .. NFD
    /\ InitFds \subseteq 0 .. NFD - 1
    /\ NChild \in Nat
    /\ CallsFail \in BOOLEAN

VARIABLES
    fds,         \* what each descriptor of the process refers to
    childpid,    \* childpid[fd]: the child at the other end, or 0
    child,       \* the children by number: their state and descriptors
    calls,       \* number of popen() calls so far
    pc,          \* what the process is doing
    pfd, type,   \* local to popen(); pfd[1] is the pid in pclose()
    failed,      \* the calls in which fork() or fdopen() failed
    unwaited     \* history: the children of streams whose fclose() failed

popenVars == <<fds, childpid, child, calls, pc, pfd, type, failed, unwaited>>

Fd == 0 .. NFD - 1
Pid == 1 .. NChild
(* An open descriptor is an end of pipe k, or something else (pipe 0).     *)
End(k, e) == [pipe |-> k, end |-> e]
Closed == End(0, "closed")
Other == End(0, "other")
Ends == [pipe : 0 .. NChild, end : {"r", "w", "closed", "other"}]
STDIN == 0
STDOUT == 1
Std(t) == IF t = "r" THEN STDOUT ELSE STDIN

(* The end of pipe k that the child of popen(.., t) must have.             *)
ChildEnd(k, t) == End(k, IF t = "r" THEN "w" ELSE "r")
ParentEnd(k, t) == End(k, t)

NoChild == [st |-> "none", type |-> "r", fds |-> [i \in Fd |-> Closed],
            inherited |-> [i \in Fd |-> 0]]

PopenInit ==
    /\ fds = [i \in Fd |-> IF i \in InitFds THEN Other ELSE Closed]
    /\ childpid = [i \in Fd |-> 0]
    /\ child = [c \in Pid |-> NoChild]
    /\ calls = 0
    /\ pc = "idle"
    /\ pfd = <<0, 0>>
    /\ type = "r"
    /\ failed = {} /\ unwaited = {}

FreeFds == {i \in Fd : fds[i] = Closed}
Lowest(S) == CHOOSE i \in S : \A j \in S : i <= j

-----------------------------------------------------------------------------
(* popen(cmdstring, t) with t "r" or "w", up to pipe(): another type, and   *)
(* EMFILE from pipe() or from the test against maxfd, leave everything as  *)
(* it was.                                                                 *)
PopenPipe(t) ==
    /\ pc = "idle"
    /\ calls < NChild
    /\ Cardinality(FreeFds) >= 2
    /\ LET i == Lowest(FreeFds)
           j == Lowest(FreeFds \ {i})
       IN  /\ j < MAXFD
           /\ fds' = [fds EXCEPT ![i] = End(calls + 1, "r"), ![j] = End(calls + 1, "w")]
           /\ pfd' = <<i, j>>
    /\ calls' = calls + 1
    /\ type' = t
    /\ pc' = "fork"
    /\ UNCHANGED <<childpid, child, failed, unwaited>>

Fork ==
    /\ pc = "fork"
    /\ child' = [child EXCEPT ![calls] = [st |-> "forked", type |-> type, fds |-> fds,
                                          inherited |-> childpid]]
    /\ pc' = "close"
    /\ UNCHANGED <<fds, childpid, calls, pfd, type, failed, unwaited>>

ForkFails ==
    /\ CallsFail
    /\ pc = "fork"
    /\ failed' = failed \cup {calls}
    /\ pc' = "idle"
    /\ UNCHANGED <<fds, childpid, child, calls, pfd, type, unwaited>>

(* The parent closes the child's end.                                      *)
Fault_ParentClose ==
    /\ pc = "close"
    /\ pc' = "fdopen"
    /\ UNCHANGED <<fds, childpid, child, calls, pfd, type, failed, unwaited>>
ParentClose ==
    /\ pc = "close"
    /\ fds' = [fds EXCEPT ![pfd[IF type = "r" THEN 2 ELSE 1]] = Closed]
    /\ pc' = "fdopen"
    /\ UNCHANGED <<childpid, child, calls, pfd, type, failed, unwaited>>

ParentFd == pfd[IF type = "r" THEN 1 ELSE 2]

Fdopen ==
    /\ pc = "fdopen"
    /\ childpid' = [childpid EXCEPT ![ParentFd] = calls]
    /\ pc' = "idle"
    /\ UNCHANGED <<fds, child, calls, pfd, type, failed, unwaited>>

FdopenFails ==
    /\ CallsFail
    /\ pc = "fdopen"
    /\ failed' = failed \cup {calls}
    /\ pc' = "idle"
    /\ UNCHANGED <<fds, childpid, child, calls, pfd, type, unwaited>>

-----------------------------------------------------------------------------
(* The child: its end of the pipe becomes its standard output or input,    *)
(* then "close all descriptors in childpid[]", then execl().               *)

Redirected(f, c, t) ==
    LET mine   == Lowest({i \in Fd : f[i] = ChildEnd(c, t)})
        theirs == Lowest({i \in Fd : f[i] = ParentEnd(c, t)})
        g == [f EXCEPT ![theirs] = Closed]
    IN  IF mine = Std(t) THEN g ELSE [g EXCEPT ![Std(t)] = g[mine], ![mine] = Closed]

Fault_ExecFds(c) == Redirected(child[c].fds, c, child[c].type)
ExecFds(c) ==
    [i \in Fd |-> IF i < MAXFD /\ child[c].inherited[i] > 0 THEN Closed
                  ELSE Redirected(child[c].fds, c, child[c].type)[i]]

ChildExec(c) ==
    /\ child[c].st = "forked"
    /\ child' = [child EXCEPT ![c].fds = ExecFds(c), ![c].st = "run"]
    /\ UNCHANGED <<fds, childpid, calls, pc, pfd, type, failed, unwaited>>

(* Whether some process still has an end of a pipe.                        *)
IsOpen(e) ==
    \/ \E i \in Fd : fds[i] = e
    \/ \E c \in Pid : child[c].st \in {"forked", "run"} /\ \E i \in Fd : child[c].fds[i] = e

(* A command may end at any time.                                          *)
ChildExit(c) ==
    /\ child[c].st = "run"
    /\ child' = [child EXCEPT ![c].st = "zombie"]
    /\ UNCHANGED <<fds, childpid, calls, pc, pfd, type, failed, unwaited>>

(* A filter ends when its input is at end of file; a generator of output   *)
(* when nobody can read it (SIGPIPE).                                      *)
Disconnected(c) == child[c].st = "run" /\ ~IsOpen(ParentEnd(c, IF child[c].type = "r" THEN "r" ELSE "w"))
ChildEnds(c) == Disconnected(c) /\ ChildExit(c)

-----------------------------------------------------------------------------
(* pclose(fp) of an open stream on descriptor i: the entry is cleared and  *)
(* the stream is closed, then waitpid() for that child.  An fclose() that  *)
(* fails, for something is left to write and nobody reads it any more      *)
(* (EPIPE, without SIGPIPE's default), frees the descriptor too, and       *)
(* pclose() returns -1 without waiting.                                    *)
Pclose(i) ==
    /\ pc = "idle"
    /\ i < MAXFD
    /\ childpid[i] # 0
    /\ childpid' = [childpid EXCEPT ![i] = 0]
    /\ fds' = [fds EXCEPT ![i] = Closed]
    /\ \/ pc' = "waitpid" /\ pfd' = <<childpid[i], 0>> /\ UNCHANGED unwaited
       \/ /\ CallsFail /\ fds[i].end = "w" /\ ~IsOpen(ChildEnd(childpid[i], "w"))
          /\ unwaited' = unwaited \cup {childpid[i]} /\ UNCHANGED <<pc, pfd>>
    /\ UNCHANGED <<child, calls, type, failed>>

Fault_Waitpid ==
    /\ pc = "waitpid"
    /\ \E c \in Pid : /\ child[c].st = "zombie"
                      /\ child' = [child EXCEPT ![c].st = "reaped"]
    /\ pc' = "idle"
    /\ UNCHANGED <<fds, childpid, calls, pfd, type, failed, unwaited>>
Waitpid ==
    /\ pc = "waitpid"
    /\ child[pfd[1]].st = "zombie"
    /\ child' = [child EXCEPT ![pfd[1]].st = "reaped"]
    /\ pc' = "idle"
    /\ UNCHANGED <<fds, childpid, calls, pfd, type, failed, unwaited>>

Library == Fork \/ ForkFails \/ ParentClose \/ Fdopen \/ FdopenFails \/ Waitpid

ChildStep(c) == ChildExec(c) \/ ChildEnds(c)

PopenNext == \/ Library
        \/ \E t \in {"r", "w"} : PopenPipe(t)
        \/ \E i \in Fd : Pclose(i)
        \/ \E c \in Pid : ChildExec(c) \/ ChildExit(c)

-----------------------------------------------------------------------------
(* Properties.                                                             *)

(* childpid[] names, for each stream, the child at the other end of its    *)
(* pipe, and that child has not been waited for: no pclose() returns the   *)
(* status of another command, or fails because there is none.              *)
RightChild ==
    \A i \in Fd : childpid[i] # 0 =>
        /\ fds[i] = ParentEnd(childpid[i], child[childpid[i]].type)
        /\ child[childpid[i]].st \in {"forked", "run", "zombie"}

(* What popen() took, pclose() gives back: between calls the children that *)
(* were not waited for are those that have a stream, those whose fclose()  *)
(* failed, which nothing waits for any more (lib/popen.c:108-110), and     *)
(* those of a popen() that returned NULL after fork(); every pipe end is   *)
(* that of a stream or of such a popen().                                  *)
NothingLeaks ==
    pc = "idle" =>
        /\ \A c \in Pid \ failed :
              child[c].st \in {"forked", "run", "zombie"} <=> c \in unwaited \/ \E i \in Fd : childpid[i] = c
        /\ \A i \in Fd : fds[i].pipe > 0 => childpid[i] # 0 \/ fds[i].pipe \in failed

(* "close all descriptors in childpid[]": a command has no end of the pipe *)
(* of another stream, and its own one as standard output or input.         *)
OwnPipeOnly ==
    \A c \in Pid : child[c].st = "run" =>
        /\ \A i \in Fd : child[c].fds[i].pipe \in {0, c} \cup failed
        /\ child[c].fds[Std(child[c].type)] = ChildEnd(c, child[c].type)

(* pclose() returns: closing the stream gives the command its end of file  *)
(* or its SIGPIPE, whatever other streams are open.                        *)
PcloseReturns == pc = "waitpid" ~> pc = "idle"
=============================================================================
