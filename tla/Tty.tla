-------------------------------- MODULE Tty --------------------------------
(***************************************************************************)
(* apue/lib/ttymodes.c: cbreak and raw mode of a terminal, and the way     *)
(* back.  Settings are the terminal they come from and the groups of flags *)
(* that were changed; tcsetattr() may fail, or apply a part and succeed    *)
(* (ttymodes.c:37).                                                        *)
(***************************************************************************)
EXTENDS Integers

CONSTANT Terminals   \* open terminal descriptors

VARIABLES
    settings,   \* of each terminal
    save_termios, ttysavefd, ttystate,
    trouble     \* history: settings were not put back in full, or on another terminal

ttyVars == <<settings, save_termios, ttysavefd, ttystate, trouble>>

Original(fd) == [of |-> fd, changed |-> {}]
Wanted(mode) == IF mode = "CBREAK" THEN {"ECHO|ICANON", "VMIN,VTIME"}
                ELSE {"ECHO|ICANON", "VMIN,VTIME", "IEXTEN|ISIG,iflag,cflag,oflag"}
(* The results of tcsetattr(): whether it returns 0, and the settings.     *)
tcsetattr(now, new) ==
    {[ok |-> TRUE, now |-> new], [ok |-> FALSE, now |-> now]}
    \cup {[ok |-> TRUE, now |-> [now EXCEPT !.changed = (@ \cap new.changed) \cup part]] :
            part \in SUBSET ((now.changed \cup new.changed) \ (now.changed \cap new.changed))}

TtyInit == /\ settings = [fd \in Terminals |-> Original(fd)]
           /\ save_termios = [of |-> "none", changed |-> {}] /\ ttysavefd = "none"
           /\ ttystate = "RESET" /\ trouble = FALSE

(* tty_cbreak() and tty_raw(): the change is read back, and undone if only *)
(* some of it was made or it cannot be read.                               *)
Fault_Enter(fd, mode) ==
    /\ ttystate = "RESET"
    /\ save_termios' = settings[fd]
    /\ \E r \in tcsetattr(settings[fd], [settings[fd] EXCEPT !.changed = @ \cup Wanted(mode)]) :
          IF r.ok THEN settings' = [settings EXCEPT ![fd] = r.now] /\ ttystate' = mode /\ ttysavefd' = fd
          ELSE UNCHANGED <<settings, ttystate, ttysavefd>>
    /\ UNCHANGED trouble
Enter(fd, mode) ==
    /\ ttystate = "RESET"
    /\ save_termios' = settings[fd]
    /\ \E r \in tcsetattr(settings[fd], [settings[fd] EXCEPT !.changed = @ \cup Wanted(mode)]), readable \in BOOLEAN :
          \/ ~r.ok /\ UNCHANGED <<settings, ttystate, ttysavefd, trouble>>
          \/ /\ r.ok /\ readable /\ Wanted(mode) \subseteq r.now.changed
             /\ settings' = [settings EXCEPT ![fd] = r.now]
             /\ ttystate' = mode /\ ttysavefd' = fd /\ UNCHANGED trouble
          \/ /\ r.ok /\ ~(readable /\ Wanted(mode) \subseteq r.now.changed)
             /\ \E back \in tcsetattr(r.now, settings[fd]) :
                   /\ settings' = [settings EXCEPT ![fd] = back.now]
                   /\ trouble' = (trouble \/ back.now # settings[fd])
             /\ UNCHANGED <<ttystate, ttysavefd>>
tty_cbreak(fd) == Enter(fd, "CBREAK")
tty_raw(fd) == Enter(fd, "RAW")
(* The saved settings are put on whatever terminal is named, and what was  *)
(* applied is not read back.                                               *)
tty_reset(fd) ==
    /\ ttystate # "RESET"
    /\ \E r \in tcsetattr(settings[fd], save_termios) :
          IF r.ok THEN /\ settings' = [settings EXCEPT ![fd] = r.now] /\ ttystate' = "RESET"
                       /\ trouble' = (trouble \/ r.now # save_termios \/ fd # ttysavefd)
          ELSE UNCHANGED <<settings, ttystate, trouble>>
    /\ UNCHANGED <<save_termios, ttysavefd>>
tty_atexit == ttysavefd # "none" /\ tty_reset(ttysavefd)
TtyNext == (\E fd \in Terminals : tty_cbreak(fd) \/ tty_raw(fd) \/ tty_reset(fd)) \/ tty_atexit

(* Unless a reset was partial or named another terminal, the state tells   *)
(* the truth: RESET when every terminal has its own settings, otherwise    *)
(* the saved ones are those of the one terminal that was changed, and it   *)
(* has every flag of the mode (ttymodes.c:46-59, 122-138, 144-148).        *)
ModesRestored ==
    ~trouble =>
        /\ ttystate = "RESET" => \A fd \in Terminals : settings[fd] = Original(fd)
        /\ ttystate # "RESET" =>
            /\ save_termios = Original(ttysavefd)
            /\ settings[ttysavefd].changed = Wanted(ttystate)
            /\ \A fd \in Terminals \ {ttysavefd} : settings[fd] = Original(fd)
=============================================================================
