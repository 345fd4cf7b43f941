-------------------------------- MODULE Conn --------------------------------
(***************************************************************************)
(* apue/lib/cliconn.c, servlisten.c, servaccept.c: a client binds a name   *)
(* made of its pid before it connects, and the server learns the client's  *)
(* user from the owner of that file.  The names are in /var/tmp, where     *)
(* only the owner or the superuser removes a file; a client may end at any *)
(* time, its pid be used again, the server end and start again.            *)
(***************************************************************************)
EXTENDS Integers, Sequences

CONSTANTS
    Client,    \* the processes; each calls cli_conn() once
    ProcId, User,
    STALE, QLEN,
    MaxTime    \* bound: seconds

VARIABLES
    names,     \* of a pid: the file of that name, or NoFile
    proc,      \* of a client: its pid and user, its place in cli_conn() and
               \* whether it lives, and the time of its bind()
    server,    \* "down", "bound" or "listens"
    queue,     \* clients connected and not accepted
    verdict,   \* how far serv_accept() is with a client, and what it found
    statbuf,   \* the file serv_accept() found
    root,      \* the server runs as the superuser
    now,
    reused     \* history: pids whose file was removed in place of an older one

connVars == <<names, proc, server, queue, verdict, statbuf, root, now, reused>>

NoFile == [user |-> "none", made |-> "none", private |-> FALSE, time |-> 0]
Here(pid) == names[pid] # NoFile
Alive(c) == proc[c].at \notin {"unborn", "dead"}
Moved(c, at) == proc' = [proc EXCEPT ![c].at = at]
Named(pid, file) == names' = [names EXCEPT ![pid] = file]
(* The places in serv_accept(): after accept(), stat(), time().            *)
Judging == {"accepted", "private", "fresh"}
Refusals == {"no file", "not rwx------", "too old"}

ConnInit == /\ names = [p \in ProcId |-> NoFile]
            /\ proc = [c \in Client |-> [pid |-> 0, user |-> "none", at |-> "unborn", since |-> 0]]
            /\ server = "down" /\ queue = << >> /\ verdict = [c \in Client |-> "none"] /\ statbuf = NoFile
            /\ root \in BOOLEAN /\ now = 0 /\ reused = {}

Start(c) == /\ proc[c].at = "unborn"
            /\ \E p \in ProcId, u \in User :
                  /\ \A d \in Client : Alive(d) => proc[d].pid # p
                  /\ proc' = [proc EXCEPT ![c] = [@ EXCEPT !.pid = p, !.user = u, !.at = "unlink"]]
            /\ UNCHANGED <<names, server, queue, verdict, statbuf, root, now, reused>>
(* A killed client leaves its file and its place in the queue.             *)
Die(c) == Alive(c) /\ Moved(c, "dead") /\ UNCHANGED <<names, server, queue, verdict, statbuf, root, now, reused>>
Tick == now < MaxTime /\ now' = now + 1 /\ UNCHANGED <<names, proc, server, queue, verdict, statbuf, root, reused>>

(* cli_conn(): the old file is removed if it is the client's own.          *)
Unlink(c) == LET f == names[proc[c].pid] IN
    /\ proc[c].at = "unlink" /\ Moved(c, "bind")
    /\ IF f.user = proc[c].user THEN Named(proc[c].pid, NoFile) ELSE UNCHANGED names
    /\ UNCHANGED <<server, queue, verdict, statbuf, root, now, reused>>
Fault_AfterBind == "connect"
AfterBind == "chmod"
Bind(c) ==
    /\ proc[c].at = "bind"
    /\ IF Here(proc[c].pid) THEN Moved(c, "failed") /\ UNCHANGED names      \* -2
       ELSE /\ Named(proc[c].pid, [user |-> proc[c].user, made |-> c, private |-> FALSE, time |-> now])
            /\ proc' = [proc EXCEPT ![c].at = AfterBind, ![c].since = now]
    /\ UNCHANGED <<server, queue, verdict, statbuf, root, now, reused>>
(* chmod() works on the name, which may be gone or another's by now.       *)
Chmod(c) == LET p == proc[c].pid IN
    /\ proc[c].at = "chmod"
    /\ IF Here(p) /\ names[p].user = proc[c].user
       THEN /\ Named(p, [names[p] EXCEPT !.private = TRUE])
            /\ proc' = [proc EXCEPT ![c].at = "connect"]
       ELSE Moved(c, "errout") /\ UNCHANGED names                          \* -3
    /\ UNCHANGED <<server, queue, verdict, statbuf, root, now, reused>>
(* connect() waits while the queue is full.                                *)
Connect(c) ==
    /\ proc[c].at = "connect"
    /\ \/ /\ server = "listens" /\ Len(queue) < QLEN
          /\ queue' = Append(queue, c) /\ Moved(c, "connected")
       \/ server # "listens" /\ Moved(c, "errout") /\ UNCHANGED queue     \* -4
    /\ UNCHANGED <<names, server, verdict, statbuf, root, now, reused>>
(* do_unlink, of whatever file has the name.                               *)
Errout(c) == LET p == proc[c].pid IN
    /\ proc[c].at = "errout" /\ Moved(c, "failed")
    /\ IF Here(p) /\ names[p].user = proc[c].user THEN Named(p, NoFile) ELSE UNCHANGED names
    /\ UNCHANGED <<server, queue, verdict, statbuf, root, now, reused>>
cli_conn(c) == Unlink(c) \/ Bind(c) \/ Chmod(c) \/ Connect(c) \/ Errout(c)

(* serv_listen() removes the name of an earlier server, which loses the    *)
(* clients it had not accepted.                                            *)
ServBind == server = "down" /\ server' = "bound" /\ UNCHANGED <<names, proc, queue, verdict, statbuf, root, now, reused>>
ServListen == server = "bound" /\ server' = "listens" /\ UNCHANGED <<names, proc, queue, verdict, statbuf, root, now, reused>>
ServEnds == /\ server # "down" /\ server' = "down" /\ queue' = << >> /\ statbuf' = NoFile
            /\ verdict' = [c \in Client |-> IF verdict[c] \in Judging THEN "none" ELSE verdict[c]]
            /\ UNCHANGED <<names, proc, root, now, reused>>

(* serv_accept(), call by call: the file is looked up by name when the     *)
(* client is accepted, and the name is removed, whatever file it is of by  *)
(* then, only if all is well.                                              *)
Found(c, what) == verdict' = [verdict EXCEPT ![c] = what]
ServAccept ==
    /\ server = "listens" /\ queue # << >> /\ \A c \in Client : verdict[c] \notin Judging
    /\ queue' = Tail(queue) /\ Found(Head(queue), "accepted")
    /\ UNCHANGED <<names, proc, server, statbuf, root, now, reused>>
ServStat(c) == LET f == names[proc[c].pid] IN
    /\ verdict[c] = "accepted"
    /\ IF f.private THEN statbuf' = f /\ Found(c, "private")
       ELSE UNCHANGED statbuf /\ Found(c, IF f = NoFile THEN "no file" ELSE "not rwx------")   \* -3, -5
    /\ UNCHANGED <<names, proc, server, queue, root, now, reused>>
ServTime(c) ==
    /\ verdict[c] = "private" /\ Found(c, IF statbuf.time < now - STALE THEN "too old" ELSE "fresh")   \* -6
    /\ UNCHANGED <<names, proc, server, queue, statbuf, root, now, reused>>
ServUnlink(c) == LET p == proc[c].pid IN
    /\ verdict[c] = "fresh" /\ Found(c, statbuf.user) /\ statbuf' = NoFile
    /\ IF root /\ Here(p)
       THEN Named(p, NoFile) /\ reused' = IF names[p].made # c THEN reused \cup {p} ELSE reused
       ELSE UNCHANGED <<names, reused>>
    /\ UNCHANGED <<proc, server, queue, root, now>>
serv_accept == ServAccept \/ \E c \in Client : ServStat(c) \/ ServTime(c) \/ ServUnlink(c)

ConnNext == \/ \E c \in Client : Start(c) \/ Die(c) \/ cli_conn(c)
            \/ ServBind \/ ServListen \/ ServEnds \/ serv_accept \/ Tick

(* A client that lives is taken for the user it is, although names outlive *)
(* their processes, pids come again and files are replaced between any two *)
(* calls of the server, and it is not refused unless its name is older     *)
(* than STALE, or was removed by the server for an ended client of its     *)
(* pid.  An ended client may be taken for another user, but only for one   *)
(* whose process had the same pid (servaccept.c:29-66).                    *)
Judged ==
    \A c \in Client :
        /\ verdict[c] \in User /\ Alive(c) => verdict[c] = proc[c].user
        /\ verdict[c] \in Refusals /\ Alive(c) => proc[c].pid \in reused \/ now > proc[c].since + STALE
        /\ verdict[c] \in User => \E d \in Client : proc[d].pid = proc[c].pid /\ proc[d].user = verdict[c]
=============================================================================
