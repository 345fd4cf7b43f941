------------------------------- MODULE Daemon -------------------------------
(***************************************************************************)
(* ch13_daemon.c: a daemon that runs once, by a record lock on its pid     *)
(* file.  fcntl() locks belong to a process: a child does not inherit      *)
(* them, and they go when their process closes the file or ends.           *)
(***************************************************************************)
EXTENDS Integers, Sequences

CONSTANT Instance    \* the starts of the program, at any time

VARIABLES
    left,       \* the steps an instance has to do, << >> when it ended
    pid,        \* its process, counted by forks: <<instance, forks>>
    lock,       \* the process with the lock on LOCKFILE, or Nobody
    content,    \* of LOCKFILE: the process whose pid is there, Old or Empty
    onhup,      \* what SIGHUP does: "default" or "ignore"
    pending,    \* signals that are blocked; of an instance
    thread,     \* thr_fn(): "none", "waits" or the signal it took
    unwritten   \* history: ftruncate() or write() of the pid failed

daemonVars == <<left, pid, lock, content, onhup, pending, thread, unwritten>>
Nobody == << >>
Empty == << >>
Old == <<"old">>

-----------------------------------------------------------------------------
(* The calls of the program that matter here, in order.                    *)
daemonize == <<"getrlimit", "fork", "setsid", "ignore SIGHUP", "fork", "chdir", "close", "null">>
already_running == <<"open", "lock", "truncate", "write">>
serve == <<"default SIGHUP", "block", "thread", "exit">>
Fault_main == already_running \o daemonize \o serve
main == daemonize \o already_running \o serve

DaemonInit == /\ left = [i \in Instance |-> main]
              /\ pid = [i \in Instance |-> <<i, 0>>]
              /\ lock = Nobody /\ content = Old
              /\ onhup = [i \in Instance |-> "default"]
              /\ pending = [i \in Instance |-> {}]
              /\ thread = [i \in Instance |-> "none"] /\ unwritten = FALSE

Lives(i) == left[i] # << >>
At(i, op) == Lives(i) /\ Head(left[i]) = op
Done(i) == left' = [left EXCEPT ![i] = Tail(@)]
Ends(i) == left' = [left EXCEPT ![i] = << >>]
Unlocked(i) == lock' = IF lock = pid[i] THEN Nobody ELSE lock

(* Calls that may fail and then end the program.                           *)
Call(i) ==
    /\ \E op \in {"getrlimit", "chdir", "null", "open"} : At(i, op)
    /\ \/ Done(i) /\ UNCHANGED lock
       \/ Ends(i) /\ Unlocked(i)
    /\ UNCHANGED <<pid, content, onhup, pending, thread, unwritten>>
Setsid(i) == At(i, "setsid") /\ Done(i) /\ UNCHANGED <<pid, lock, content, onhup, pending, thread, unwritten>>
(* The parent ends; the child goes on.                                     *)
Fork(i) == /\ At(i, "fork") /\ Unlocked(i)
           /\ \/ Done(i) /\ pid' = [pid EXCEPT ![i] = <<i, @[2] + 1>>]
              \/ Ends(i) /\ UNCHANGED pid
           /\ UNCHANGED <<content, onhup, pending, thread, unwritten>>
CloseAll(i) == /\ At(i, "close") /\ Done(i) /\ Unlocked(i)
               /\ UNCHANGED <<pid, content, onhup, pending, thread, unwritten>>
(* The file of another instance is locked, or the call fails: both end it. *)
Lock(i) == /\ At(i, "lock")
           /\ \/ lock = Nobody /\ lock' = pid[i] /\ Done(i)
              \/ Ends(i) /\ UNCHANGED lock
           /\ UNCHANGED <<pid, content, onhup, pending, thread, unwritten>>
(* The results of ftruncate() and write() are not tested.                  *)
Truncate(i) == /\ At(i, "truncate") /\ Done(i)
               /\ \/ content' = Empty /\ UNCHANGED unwritten
                  \/ unwritten' = TRUE /\ UNCHANGED content
               /\ UNCHANGED <<pid, lock, onhup, pending, thread>>
Write(i) == /\ At(i, "write") /\ Done(i)
            /\ \/ content' = pid[i] /\ UNCHANGED unwritten
               \/ unwritten' = TRUE /\ UNCHANGED content
            /\ UNCHANGED <<pid, lock, onhup, pending, thread>>
Sighup(i) == /\ \/ At(i, "ignore SIGHUP") /\ onhup' = [onhup EXCEPT ![i] = "ignore"]
                \/ At(i, "default SIGHUP") /\ onhup' = [onhup EXCEPT ![i] = "default"]
             /\ Done(i) /\ UNCHANGED <<pid, lock, content, pending, thread, unwritten>>
(* All signals are blocked from here on: the last three steps.             *)
Blocked(i) == Lives(i) /\ Len(left[i]) <= 2
Block(i) == At(i, "block") /\ Done(i) /\ UNCHANGED <<pid, lock, content, onhup, pending, thread, unwritten>>
Thread(i) == /\ At(i, "thread")
             /\ \/ Done(i) /\ thread' = [thread EXCEPT ![i] = "waits"] /\ UNCHANGED lock
                \/ Ends(i) /\ Unlocked(i) /\ UNCHANGED thread
             /\ UNCHANGED <<pid, content, onhup, pending, unwritten>>
(* exit() of main() does not wait for the thread.                          *)
Exit(i) == /\ At(i, "exit") /\ Ends(i) /\ Unlocked(i)
           /\ UNCHANGED <<pid, content, onhup, pending, thread, unwritten>>

(* thr_fn(): SIGHUP is followed by reread(), SIGTERM and a failure of      *)
(* sigwait() by exit(), any other signal by nothing.                       *)
thr_fn(i) ==
    /\ Lives(i) /\ thread[i] = "waits"
    /\ \/ \E s \in pending[i] :
            /\ pending' = [pending EXCEPT ![i] = @ \ {s}]
            /\ IF s = "TERM" THEN Ends(i) /\ Unlocked(i) ELSE UNCHANGED <<left, lock>>
            /\ thread' = [thread EXCEPT ![i] = IF s = "HUP" THEN "HUP" ELSE "waits"]
       \/ Ends(i) /\ Unlocked(i) /\ UNCHANGED <<pending, thread>>
    /\ UNCHANGED <<pid, content, onhup, unwritten>>
reread(i) == /\ Lives(i) /\ thread[i] = "HUP" /\ thread' = [thread EXCEPT ![i] = "waits"]
             /\ UNCHANGED <<left, pid, lock, content, onhup, pending, unwritten>>
(* kill(); SIGKILL is not asked about.                                     *)
Signal(i) ==
    /\ Lives(i) /\ \E s \in {"HUP", "TERM", "INT"} :
          IF Blocked(i) THEN pending' = [pending EXCEPT ![i] = @ \cup {s}] /\ UNCHANGED <<left, lock>>
          ELSE IF s = "HUP" /\ onhup[i] = "ignore" THEN UNCHANGED <<left, lock, pending>>
          ELSE Ends(i) /\ Unlocked(i) /\ UNCHANGED pending
    /\ UNCHANGED <<pid, content, onhup, thread, unwritten>>

DaemonNext ==
    \E i \in Instance :
        \/ Call(i) \/ Setsid(i) \/ Fork(i) \/ CloseAll(i) \/ Lock(i) \/ Truncate(i) \/ Write(i)
        \/ Sighup(i) \/ Block(i) \/ Thread(i) \/ Exit(i)
        \/ thr_fn(i) \/ reread(i) \/ Signal(i)

(* However many are started, killed or fail at any step, at most one       *)
(* instance is past already_running(), it holds the lock then, the lock is *)
(* free when its holder ended, and unless truncating or writing once       *)
(* failed the file has the pid of that instance, not of a parent or of one *)
(* that came before (ch13_daemon.c:26-42, 68-85).                          *)
Past(i) == Lives(i) /\ Len(left[i]) <= Len(serve)
OneInstance ==
    /\ \A i, j \in Instance : Past(i) /\ Past(j) => i = j
    /\ \A i \in Instance : Past(i) => lock = pid[i] /\ (unwritten \/ content = pid[i])
    /\ lock # Nobody => \E i \in Instance : Lives(i) /\ pid[i] = lock
=============================================================================
