----------------------------- MODULE MCMessages -----------------------------
(* The programs that pass messages, in one instance for TLC: prog, chosen  *)
(* at the start, is the one that runs; the others stay where they begin.   *)
EXTENDS Popen

CONSTANTS MAXLINE, Replies, Rounds, Client, ProcId, User, STALE, QLEN, MaxTime, PACKET_SEND_MAX_NUM, MaxOthers,
          Target, MaxTtl, Probes, Budget, MaxForeign, Instance, MaxLines, PipeSize

VARIABLES
    prog,
    stream, answer, fd_server, fd_left, client, fd_shown, result, round, gaveUp, lost,
    names, proc, server, queue, verdict, statbuf, root, now, reused,
    main, dest, alive, send_count, recv_count, sender, receiver, slot, socket, wire, timed, bad, extra, others, interrupted,
    version, at, ttl, probe, tv, got_there, unreachable, flight, old_socket, old_shown, told, late, foreign,
    left, pid, lock, content, onhup, pending, thread, unwritten,
    program, lines, input, up, down, open, parent, co_child, pbuf, cbuf, shown, quit

F == INSTANCE FdPass WITH server <- fd_server, left <- fd_left, shown <- fd_shown
N == INSTANCE Conn
P == INSTANCE Ping
O == INSTANCE OldTrace WITH socket <- old_socket, shown <- old_shown
D == INSTANCE Daemon
C == INSTANCE Coprocess WITH child <- co_child

fdVars == <<stream, answer, fd_server, fd_left, client, fd_shown, result, round, gaveUp, lost>>
connVars == <<names, proc, server, queue, verdict, statbuf, root, now, reused>>
pingVars == <<main, dest, alive, send_count, recv_count, sender, receiver, slot, socket, wire, timed, bad, extra,
              others, interrupted>>
oldVars == <<version, at, ttl, probe, tv, got_there, unreachable, flight, old_socket, old_shown, told, late, foreign>>
daemonVars == <<left, pid, lock, content, onhup, pending, thread, unwritten>>
coVars == <<program, lines, input, up, down, open, parent, co_child, pbuf, cbuf, shown, quit>>
all == <<prog, popenVars, fdVars, connVars, pingVars, oldVars, daemonVars, coVars>>

Init == /\ prog \in {"popen", "recv_fd", "serv_accept", "ping", "traceroute", "daemon", "coprocess"}
        /\ PopenInit
        /\ F!FdInit /\ (prog # "recv_fd" => answer = CHOOSE r \in Replies : TRUE)
        /\ N!ConnInit /\ (prog # "serv_accept" => ~root)
        /\ P!PingInit
        /\ O!OldInit /\ (prog # "traceroute" => version = "udp")
        /\ D!DaemonInit
        /\ C!CoInit /\ (prog # "coprocess" => program = "hello" /\ lines = << >>)

Runs(p) == prog = p /\ UNCHANGED prog
InFd(A) == Runs("recv_fd") /\ A /\ UNCHANGED <<popenVars, connVars, pingVars, oldVars, daemonVars, coVars>>
InConn(A) == Runs("serv_accept") /\ A /\ UNCHANGED <<popenVars, fdVars, pingVars, oldVars, daemonVars, coVars>>
InPing(A) == Runs("ping") /\ A /\ UNCHANGED <<popenVars, fdVars, connVars, oldVars, daemonVars, coVars>>
InOld(A) == Runs("traceroute") /\ A /\ UNCHANGED <<popenVars, fdVars, connVars, pingVars, daemonVars, coVars>>
InDaemon(A) == Runs("daemon") /\ A /\ UNCHANGED <<popenVars, fdVars, connVars, pingVars, oldVars, coVars>>
InCo(A) == Runs("coprocess") /\ A /\ UNCHANGED <<popenVars, fdVars, connVars, pingVars, oldVars, daemonVars>>
InPopen(A) == Runs("popen") /\ A /\ UNCHANGED <<fdVars, connVars, pingVars, oldVars, daemonVars, coVars>>

Next == \/ InPopen(PopenNext)
        \/ InFd(F!FdNext) \/ InConn(N!ConnNext) \/ InPing(P!PingNext)
        \/ InOld(O!OldNext) \/ InDaemon(D!DaemonNext) \/ InCo(C!CoNext)

(* The threads of ping, the library's caller and the two processes of a    *)
(* pipe run, a command starts, and ends when its stream is closed, and the *)
(* network brings the answers that it does not lose.                       *)
Fairness ==
    /\ WF_all(InPing(P!MainStep)) /\ WF_all(InPing(P!ping_send)) /\ WF_all(InPing(P!ping_recv))
    /\ WF_all(InPing(P!Arrive))
    /\ WF_all(InPopen(Library)) /\ \A c \in Pid : WF_all(InPopen(ChildStep(c)))
    /\ WF_all(InCo(C!ParentStep)) /\ WF_all(InCo(C!ChildStep))
Spec == Init /\ [][Next]_all /\ Fairness

StdOpen == {0, 1, 2}
(* What a request is answered with: a descriptor, a code whose low byte is *)
(* 0, a positive code, and a text as long as the buffer.                   *)
FourReplies == {[fd |-> 7, errcode |-> 0, text |-> 0], [fd |-> 0, errcode |-> -256, text |-> 1],
                [fd |-> 0, errcode |-> 3, text |-> 2], [fd |-> 0, errcode |-> -5, text |-> 4]}

(* See FdPass, Conn, OldTrace, Daemon.                                     *)
Delivered == F!Delivered
Judged == N!Judged
InStep == O!InStep
OneInstance == D!OneInstance
(* See Ping: the times are those of their packet; the program ends.        *)
SlotRight == P!SlotRight
PingEnds == /\ (prog = "ping" /\ interrupted) ~> main \notin {"started", "one", "both"}
            /\ <>(prog # "ping" \/ bad \/ main \in {"ended", "shown", "division by zero"})
(* See Coprocess: the answers are those of their lines; both processes end.*)
LinesRight == C!LinesRight
PipesEnd == <>(prog # "coprocess" \/ (parent = "ended" /\ co_child = "ended"))
=============================================================================
