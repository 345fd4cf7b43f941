------------------------------ MODULE Signals ------------------------------
(***************************************************************************)
(* The signal programs of apue/ch10 and ch08_system.c, with lib/sleep.c    *)
(* and lib/signal.c.  A program is data: for main() and for each handler a *)
(* sequence of instructions, one for each call after which something can   *)
(* happen.  The machine that runs them is the kernel's side: dispositions, *)
(* the mask, pending signals, the alarm, a stack of handlers and one child.*)
(* The arguments of an instruction are expressions over the current state. *)
(***************************************************************************)
EXTENDS Integers, Sequences

CONSTANTS
    MaxSent,     \* bound: signals that come from outside
    Seconds      \* the argument of sleep() and alarm(), in ticks of the clock

VARIABLES
    who,         \* the program
    stack,       \* main() and the handlers inside it, the running one last
    disp,        \* disposition: "DFL", "IGN" or the name of a handler
    mask, pending,
    timer,       \* what is left of alarm(); 0: none
    var,         \* the variables of the program
    child,       \* the command of system(), and what it was started with
    ended,       \* "no", "exit", "stop", "undefined" or the signal that killed it
    sent, caught, cut    \* history: signals sent and caught, handlers cut short

sigprogVars == <<who, stack, disp, mask, pending, timer, var, child, ended, sent, caught, cut>>

Sig == {"INT", "QUIT", "ALRM", "CHLD", "ABRT", "TSTP", "USR1"}
Top == stack[Len(stack)]
Frame(fn, old) == [fn |-> fn, ip |-> 1, wait |-> FALSE, old |-> old]
NoVars == [oldact |-> "DFL", oldact2 |-> "DFL", oldmask |-> {}, flag |-> 0, jumped |-> FALSE, ret |-> "DFL", pid |-> 0,
           unslept |-> 0, status |-> "none", reaped |-> "none", before |-> [disp |-> [s \in Sig |-> "DFL"], mask |-> {}],
           jmp |-> [set |-> FALSE, depth |-> 0, ip |-> 0, saves |-> FALSE, mask |-> {}]]

-----------------------------------------------------------------------------
(* The programs.  signal() is sigaction() that returns the old handler.    *)

(* lib/sleep.c; a copy of it is mysleep() of ch10_sleep.c.                 *)
Fault_Sleep(n) == <<
    <<"alarm", n>>,
    <<"sigaction", "ALRM", "empty", "oldact">>,
    <<"mask", mask \cup {"ALRM"}, "oldmask">>,
    <<"suspend", var.oldmask \ {"ALRM"}>>,
    <<"alarm", 0>>,
    <<"sigaction", "ALRM", var.oldact, "ret">>,
    <<"mask", var.oldmask, "oldmask">> >>
Fault_Sleep_mask(n) == <<
    <<"sigaction", "ALRM", "empty", "oldact">>,
    <<"alarm", n>>,
    <<"mask", mask \cup {"ALRM"}, "oldmask">>,
    <<"suspend", var.oldmask \ {"ALRM"}>>,
    <<"alarm", 0>>,
    <<"sigaction", "ALRM", var.oldact, "ret">>,
    <<"mask", var.oldmask, "oldmask">> >>
Sleep(n) == <<
    <<"sigaction", "ALRM", "empty", "oldact">>,
    <<"mask", mask \cup {"ALRM"}, "oldmask">>,
    <<"alarm", n>>,
    <<"suspend", var.oldmask \ {"ALRM"}>>,
    <<"alarm", 0>>,
    <<"sigaction", "ALRM", var.oldact, "ret">>,
    <<"mask", var.oldmask, "oldmask">> >>
MySleep(n) == Sleep(n)

(* ch10_pause.c: sleep2(), and a handler of SIGINT that is busy for a while.*)
SigAlrm == << <<"longjmp">> >>
SigIntBusy == << <<"await", TRUE>> >>
Sleep2(n) == <<
    <<"sigaction", "ALRM", "sig_alrm_jump", "ret">>,
    <<"setjmp", FALSE>>,
    <<"skip", var.jumped, 2>>,
    <<"alarm", n>>,
    <<"suspend", mask>>,
    <<"alarm", 0>> >>
MainPause == << <<"sigaction", "INT", "sig_int_busy", "ret">> >> \o Sleep2(Seconds)

MainAlarm == <<
    <<"sigaction", "ALRM", "sig_alrm_jump", "ret">>,
    <<"setjmp", FALSE>>,
    <<"skip", var.jumped, 3>>,
    <<"alarm", Seconds>>,
    <<"read">>,
    <<"alarm", 0>> >>

(* abort() of ch10_abort.c; it must not return.                            *)
Abort == <<
    <<"set", "oldact", disp["ABRT"]>>,
    <<"skip", var.oldact # "IGN", 1>>,
    <<"sigaction", "ABRT", "DFL", "ret">>,
    <<"mask", Sig \ {"ABRT"}, "oldmask">>,
    <<"kill", "ABRT">>,
    <<"sigaction", "ABRT", "DFL", "ret">>,
    <<"mask", Sig \ {"ABRT"}, "oldmask">>,
    <<"kill", "ABRT">> >>

(* ch10_jobctl.c: the mask is blocked where it should be unblocked.        *)
SigTstp == <<
    <<"mask", mask \cup {"TSTP"}, "oldmask">>,
    <<"sigaction", "TSTP", "DFL", "ret">>,
    <<"kill", "TSTP">>,
    <<"sigaction", "TSTP", "sig_tstp", "ret">> >>
MainJobctl == <<
    <<"sigaction", "TSTP", "IGN", "ret">>,
    <<"skip", var.ret # "DFL", 1>>,
    <<"sigaction", "TSTP", "sig_tstp", "ret">>,
    <<"read">>,
    <<"read">> >>

(* system() of ch10_system2.c, and without signals of ch08_system.c.       *)
Fault_System2 == <<
    <<"sigaction", "INT", "IGN", "oldact">>,
    <<"sigaction", "QUIT", "IGN", "oldact2">>,
    <<"mask", mask \cup {"CHLD"}, "oldmask">>,
    <<"fork", [disp EXCEPT !["INT"] = var.oldact, !["QUIT"] = var.oldact2], mask>>,
    <<"skip", var.pid = -1, 1>>,
    <<"waitpid", "status">>,
    <<"sigaction", "INT", var.oldact, "ret">>,
    <<"sigaction", "QUIT", var.oldact2, "ret">>,
    <<"mask", var.oldmask, "oldmask">> >>
System2 == <<
    <<"sigaction", "INT", "IGN", "oldact">>,
    <<"sigaction", "QUIT", "IGN", "oldact2">>,
    <<"mask", mask \cup {"CHLD"}, "oldmask">>,
    <<"fork", [disp EXCEPT !["INT"] = var.oldact, !["QUIT"] = var.oldact2], var.oldmask>>,
    <<"skip", var.pid = -1, 1>>,
    <<"waitpid", "status">>,
    <<"sigaction", "INT", var.oldact, "ret">>,
    <<"sigaction", "QUIT", var.oldact2, "ret">>,
    <<"mask", var.oldmask, "oldmask">> >>
PlainSystem == << <<"fork", disp, mask>>, <<"skip", var.pid = -1, 1>>, <<"waitpid", "status">> >>

(* main() of ch10_system.c, whose SIGCHLD handler does nothing, around      *)
(* either function; with sig_cld it is a caller that waits in the handler. *)
MainSystem(system, sig_chld) == <<
    <<"sigaction", "INT", "empty", "ret">>,
    <<"sigaction", "CHLD", sig_chld, "ret">> >> \o system

(* ch10_sigchld.c: the child ends by itself, wait() is in the handler.     *)
SigCld == << <<"sigaction", "CHLD", "sig_cld", "ret">>, <<"waitpid", "reaped">> >>
MainSigchld == <<
    <<"sigaction", "CHLD", "sig_cld", "ret">>,
    <<"fork", disp, mask>>,
    <<"suspend", mask>> >>

MainSigsuspend == <<
    <<"sigaction", "INT", "empty", "ret">>,
    <<"mask", mask \cup {"INT"}, "oldmask">>,
    <<"suspend", {"USR1"}>>,
    <<"mask", var.oldmask, "oldmask">> >>

(* ch10_sigsuspend_global.c: the flag is set by SIGQUIT, SIGINT is blocked.*)
SigIntQuit == << <<"set", "flag", 1>> >>
MainGlobal == <<
    <<"sigaction", "INT", "empty", "ret">>,
    <<"sigaction", "QUIT", "sig_int_quit", "ret">>,
    <<"mask", mask \cup {"INT"}, "oldmask">>,
    <<"skip", var.flag # 0, 2>>,
    <<"suspend", {}>>,
    <<"skip", TRUE, -3>>,
    <<"set", "flag", 0>>,
    <<"mask", var.oldmask, "oldmask">> >>

SigQuit == << <<"sigaction", "QUIT", "DFL", "ret">> >>
MainSigpending == <<
    <<"sigaction", "QUIT", "sig_quit", "ret">>,
    <<"mask", mask \cup {"QUIT"}, "oldmask">>,
    <<"doze">>,
    <<"set", "status", IF "QUIT" \in pending THEN "pending" ELSE "not_pending">>,
    <<"mask", var.oldmask, "oldmask">>,
    <<"doze">> >>

(* ch10_sigjmp_func.c: canjump is flag; the handler is busy for longer     *)
(* than the alarm it sets.                                                 *)
SigUsr1 == <<
    <<"skip", var.flag = 0, 4>>,
    <<"alarm", Seconds>>,
    <<"await", timer = 0>>,
    <<"set", "flag", 0>>,
    <<"longjmp">> >>
MainSigjmp == <<
    <<"sigaction", "USR1", "sig_usr1", "ret">>,
    <<"sigaction", "ALRM", "empty", "ret">>,
    <<"setjmp", TRUE>>,
    <<"skip", var.jumped, 3>>,
    <<"set", "flag", 1>>,
    <<"suspend", mask>>,
    <<"skip", TRUE, -2>> >>

(* ch10_signal.c runs until it is killed.                                  *)
MainSignal == << <<"sigaction", "USR1", "empty", "ret">>, <<"suspend", mask>>, <<"skip", TRUE, -2>> >>

(* A call by an arbitrary caller, whose dispositions and mask are noted.   *)
Call(body) == << <<"set", "before", [disp |-> disp, mask |-> mask]>> >> \o body \o << <<"left">> >>

Code(fn) ==
    CASE fn = "empty" -> << >>
      [] fn = "sig_int_busy" -> SigIntBusy
      [] fn = "sig_int_quit" -> SigIntQuit
      [] fn = "sig_alrm_jump" -> SigAlrm
      [] fn = "sig_tstp" -> SigTstp
      [] fn = "sig_cld" -> SigCld
      [] fn = "sig_quit" -> SigQuit
      [] fn = "sig_usr1" -> SigUsr1
      [] fn = "signal" -> MainSignal
      [] fn = "sleep" -> Call(Sleep(Seconds))
      [] fn = "mysleep" -> MySleep(Seconds)
      [] fn = "pause" -> MainPause
      [] fn = "alarm" -> MainAlarm
      [] fn = "abort" -> Abort
      [] fn = "jobctl" -> MainJobctl
      [] fn = "system2" -> MainSystem(Call(System2), "empty")
      [] fn = "system2_reaping" -> MainSystem(Call(System2), "sig_cld")
      [] fn = "system" -> MainSystem(PlainSystem, "empty")
      [] fn = "system_reaping" -> MainSystem(PlainSystem, "sig_cld")
      [] fn = "sigchld" -> MainSigchld
      [] fn = "sigsuspend" -> MainSigsuspend
      [] fn = "global" -> MainGlobal
      [] fn = "sigpending" -> MainSigpending
      [] fn = "sigjmp" -> MainSigjmp

Programs == {"sleep", "mysleep", "pause", "alarm", "abort", "jobctl", "system2", "system2_reaping",
             "system", "system_reaping", "sigchld", "sigsuspend", "global", "sigpending", "sigjmp", "signal"}

-----------------------------------------------------------------------------
(* The machine.                                                            *)
Instr == Code(Top.fn)[Top.ip]
Deliverable == pending \ mask
Ignored(s) == disp[s] = "IGN" \/ (disp[s] = "DFL" /\ s = "CHLD")
(* kill(), the alarm and the end of a child: an ignored signal that is not *)
(* blocked is gone.                                                        *)
Raised(s) == IF Ignored(s) /\ s \notin mask THEN pending ELSE pending \cup {s}
Here(frame) == [stack EXCEPT ![Len(stack)] = frame]
Goto(ip) == stack' = Here([Top EXCEPT !.ip = ip])
Advance == Goto(Top.ip + 1)
CanRun == ended = "no" /\ ~Top.wait /\ Deliverable = {} /\ Top.ip <= Len(Code(Top.fn))
At(op) == CanRun /\ Instr[1] = op
History == <<who, sent, caught, cut>>

Sigaction == /\ At("sigaction")
             /\ LET s == Instr[2]  h == Instr[3] IN
                /\ disp' = [disp EXCEPT ![s] = h]
                /\ var' = [var EXCEPT ![Instr[4]] = disp[s]]
                /\ pending' = IF h = "IGN" \/ (h = "DFL" /\ s = "CHLD") THEN pending \ {s} ELSE pending
             /\ Advance /\ UNCHANGED <<mask, timer, child, ended, History>>
Sigprocmask == /\ At("mask") /\ mask' = Instr[2] /\ var' = [var EXCEPT ![Instr[3]] = mask]
               /\ Advance /\ UNCHANGED <<disp, pending, timer, child, ended, History>>
Alarm == /\ At("alarm") /\ timer' = Instr[2] /\ var' = [var EXCEPT !.unslept = timer]
         /\ Advance /\ UNCHANGED <<disp, mask, pending, child, ended, History>>
(* sigsuspend() and pause(), until a signal is caught: the mask is         *)
(* exchanged and the wait begins in one step.                              *)
Suspend == /\ At("suspend") /\ mask' = Instr[2]
           /\ stack' = Here([Top EXCEPT !.wait = TRUE, !.old = mask])
           /\ UNCHANGED <<disp, pending, timer, var, child, ended, History>>
SetJmp == /\ At("setjmp")
          /\ var' = [var EXCEPT !.jmp = [set |-> TRUE, depth |-> Len(stack), ip |-> Top.ip + 1,
                                        saves |-> Instr[2], mask |-> mask]]
          /\ Advance /\ UNCHANGED <<disp, mask, pending, timer, child, ended, History>>
(* The handlers above the frame of setjmp() are cut short; the mask stays  *)
(* that of the handler unless sigsetjmp() saved it.                        *)
LongJump == /\ At("longjmp")
            /\ \/ /\ var.jmp.set
                  /\ stack' = [SubSeq(stack, 1, var.jmp.depth) EXCEPT
                                   ![var.jmp.depth].ip = var.jmp.ip, ![var.jmp.depth].wait = FALSE]
                  /\ mask' = IF var.jmp.saves THEN var.jmp.mask ELSE mask
                  /\ var' = [var EXCEPT !.jumped = TRUE]
                  /\ cut' = cut \cup {stack[i].fn : i \in var.jmp.depth + 1 .. Len(stack) - 1}
                  /\ UNCHANGED ended
               \/ ~var.jmp.set /\ ended' = "undefined" /\ UNCHANGED <<stack, mask, var, cut>>
            /\ UNCHANGED <<disp, pending, timer, child, who, sent, caught>>
Kill == /\ At("kill") /\ pending' = Raised(Instr[2])
        /\ Advance /\ UNCHANGED <<disp, mask, timer, var, child, ended, History>>
Set == /\ At("set") /\ var' = [var EXCEPT ![Instr[2]] = Instr[3]]
       /\ Advance /\ UNCHANGED <<disp, mask, pending, timer, child, ended, History>>
Skip == /\ At("skip") /\ Goto(Top.ip + 1 + IF Instr[2] THEN Instr[3] ELSE 0)
        /\ UNCHANGED <<disp, mask, pending, timer, var, child, ended, History>>
Fork == /\ At("fork")
        /\ \/ /\ child' = [status |-> "runs", disp |-> Instr[2], mask |-> Instr[3]]
              /\ var' = [var EXCEPT !.pid = 1]
           \/ var' = [var EXCEPT !.pid = -1, !.status = "failed"] /\ UNCHANGED child
        /\ Advance /\ UNCHANGED <<disp, mask, pending, timer, ended, History>>
(* waitpid() goes on after EINTR; there is nothing to wait for if another  *)
(* call took the child.                                                    *)
Waitpid == /\ At("waitpid") /\ child.status # "runs"
           /\ var' = [var EXCEPT ![Instr[2]] = IF child.status = "zombie" THEN "code" ELSE "error"]
           /\ child' = [child EXCEPT !.status = IF @ = "zombie" THEN "reaped" ELSE @]
           /\ Advance /\ UNCHANGED <<disp, mask, pending, timer, ended, History>>
Wakes == /\ At("doze") \/ At("left") \/ (At("await") /\ Instr[2])
         /\ Advance /\ UNCHANGED <<disp, mask, pending, timer, var, child, ended, History>>
(* The end of a handler, which restores the mask, and of main().           *)
Return == /\ ended = "no" /\ Deliverable = {} /\ Top.ip > Len(Code(Top.fn))
          /\ \/ /\ Len(stack) > 1 /\ mask' = Top.old
                /\ stack' = SubSeq(stack, 1, Len(stack) - 1) /\ UNCHANGED ended
             \/ Len(stack) = 1 /\ ended' = "exit" /\ UNCHANGED <<stack, mask>>
          /\ UNCHANGED <<disp, pending, timer, var, child, History>>
ProgramStep == \/ Sigaction \/ Sigprocmask \/ Alarm \/ Suspend \/ SetJmp \/ LongJump \/ Kill
               \/ Set \/ Skip \/ Fork \/ Waitpid \/ Wakes \/ Return

(* Input for read(), which is started again after a handler.               *)
Input == /\ At("read") /\ Advance
         /\ UNCHANGED <<disp, mask, pending, timer, var, child, ended, History>>

Deliver == \E s \in Deliverable :
    /\ ended = "no" /\ pending' = pending \ {s}
    /\ \/ /\ disp[s] \notin {"DFL", "IGN"}
          /\ stack' = Here([Top EXCEPT !.wait = FALSE,
                                      !.ip = IF Top.wait THEN @ + 1 ELSE @])
                      \o <<Frame(disp[s], IF Top.wait THEN Top.old ELSE mask)>>
          /\ mask' = mask \cup {s}
          /\ caught' = caught \cup {[sig |-> s, waiting |-> stack[1].wait, command |-> child.status = "runs"]}
          /\ UNCHANGED ended
       \/ Ignored(s) /\ UNCHANGED <<stack, mask, ended, caught>>
       \/ /\ disp[s] = "DFL" /\ ~Ignored(s)
          /\ ended' = IF s = "TSTP" THEN "stop" ELSE s
          /\ UNCHANGED <<stack, mask, caught>>
    /\ UNCHANGED <<who, disp, timer, var, child, sent, cut>>
Tick == /\ ended = "no" /\ timer > 0 /\ timer' = timer - 1
        /\ pending' = IF timer = 1 THEN Raised("ALRM") ELSE pending
        /\ UNCHANGED <<stack, disp, mask, var, child, ended, History>>
ChildEnds == /\ ended = "no" /\ child.status = "runs" /\ child' = [child EXCEPT !.status = "zombie"]
             /\ pending' = Raised("CHLD")
             /\ UNCHANGED <<stack, disp, mask, timer, var, ended, History>>

FromOutside ==
    CASE who \in {"jobctl"} -> {"TSTP"}
      [] who \in {"sigjmp", "signal"} -> {"USR1"}
      [] who \in {"global"} -> {"INT", "QUIT"}
      [] who \in {"sigpending"} -> {"QUIT"}
      [] who \in {"abort", "alarm", "sigchld"} -> {}
      [] OTHER -> {"INT"}
Send == /\ ended = "no" /\ sent < MaxSent /\ sent' = sent + 1
        /\ \E s \in FromOutside : pending' = Raised(s)
        /\ UNCHANGED <<who, stack, disp, mask, timer, var, child, ended, caught, cut>>

-----------------------------------------------------------------------------
(* What the process may inherit from its parent, or a caller have set up.  *)
Inherited(p) ==
    CASE p \in {"sleep", "mysleep"} -> [ALRM : {"DFL", "empty"}, INT : {"DFL", "empty"}]
      [] p = "abort" -> [ABRT : {"DFL", "IGN", "empty"}]
      [] p = "jobctl" -> [TSTP : {"DFL", "IGN"}]
      [] OTHER -> [INT : {"DFL"}]
SigprogInit ==
    /\ who \in Programs
    /\ stack = <<Frame(who, {})>>
    /\ \E d \in Inherited(who) : disp = [s \in Sig |-> IF s \in DOMAIN d THEN d[s] ELSE "DFL"]
    /\ mask \in IF who \in {"sleep", "mysleep"} THEN {{}, {"ALRM"}} ELSE {{}}
    /\ timer \in IF who \in {"sleep", "mysleep"} /\ disp["ALRM"] = "empty" THEN {0, 1} ELSE {0}
    /\ pending = {} /\ var = NoVars /\ ended = "no"
    /\ child = [status |-> "none", disp |-> disp, mask |-> {}]
    /\ sent = 0 /\ caught = {} /\ cut = {}
SigprogNext == ProgramStep \/ Input \/ Deliver \/ Tick \/ ChildEnds \/ Send

-----------------------------------------------------------------------------
HasCaught(s) == \E c \in caught : c.sig = s
AtReturn == Len(stack) = 1 /\ At("left")

(* sleep() and system() give the caller back its handlers and its mask,    *)
(* and system() starts the command with them, whatever signals come        *)
(* meanwhile (lib/sleep.c:40-44, ch10_system2.c:37-40 and 53-63).          *)
CallerRestored ==
    AtReturn => /\ disp = var.before.disp /\ mask = var.before.mask
                /\ var.pid = 1 => child.disp = var.before.disp /\ child.mask = var.before.mask

(* The alarm of sleep() kills the caller only if it went off after another *)
(* signal had ended the wait (lib/sleep.c:38-41).                          *)
LateAlarmOnly == who \in {"sleep", "mysleep"} /\ ended = "ALRM" => HasCaught("INT")
(* abort() ends the process by SIGABRT, caught or ignored (ch10_abort.c).  *)
AbortAborts == who = "abort" /\ ended # "no" => ended = "ABRT"
(* Once caught, SIGTSTP comes again and again from the handler itself and  *)
(* the program neither stops nor ends: line 11 of ch10_jobctl.c blocks.    *)
NeverStops == who = "jobctl" /\ ended # "no" => ~HasCaught("TSTP")
(* system() returns the status of the command unless fork() failed, and no *)
(* handler of the caller runs meanwhile; without the signal calls a        *)
(* handler of SIGCHLD that waits takes the status (ch08_system.c:23).      *)
SystemStatus ==
    /\ who \in {"system2", "system2_reaping"} =>
         /\ ended = "exit" => var.status = IF var.pid = 1 THEN "code" ELSE "failed"
         /\ \A c \in caught : ~c.command
    /\ who = "system_reaping" /\ ended = "exit" /\ var.pid = 1 => (var.status = "code") # (var.reaped = "code")
(* No handler jumps before setjmp(), and only the timeout of sleep2() cuts *)
(* another handler short (ch10_sigjmp_func.c:39, ch10_pause.c:50).         *)
JumpsInTime == ended # "undefined" /\ (cut # {} => who = "pause" /\ HasCaught("INT"))

(* How the programs end, signal by signal.                                 *)
Outcome == LateAlarmOnly /\ AbortAborts /\ NeverStops /\ SystemStatus /\ JumpsInTime

(* A wake-up that came before the wait: SIGCHLD before pause() in          *)
(* ch10_sigchld.c:20, SIGQUIT, which is not blocked, between the test of   *)
(* quitflag and sigsuspend() (ch10_sigsuspend_global.c:21-29).             *)
Missed == \E c \in caught : ~c.waiting /\ <<who, c.sig>> \in {<<"sigchld", "CHLD">>, <<"global", "QUIT">>}
Due == \/ who \in {"sleep", "mysleep", "pause", "alarm", "abort", "system2", "system2_reaping", "system",
                    "system_reaping", "sigpending"}
       \/ who = "sigchld" /\ child.status = "zombie"
       \/ who = "sigsuspend" /\ "INT" \in pending \cap mask /\ Len(stack) = 1
       \/ who = "global" /\ var.flag = 1
       \/ who = "sigjmp" /\ Top.fn = "sig_usr1" /\ var.flag = 1
(* A program whose event has happened ends, unless it missed it.           *)
Ends == Due ~> (ended # "no" \/ Missed)
=============================================================================
