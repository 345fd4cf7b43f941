----------------------------- MODULE Coprocess ------------------------------
(***************************************************************************)
(* The pipe programs of apue/ch15: ch15_pipe.c ("hello"), ch15_pipe_page.c *)
(* ("page"), ch15_pipe_add.c with its coprocess ch15_add.c ("add"), and    *)
(* ch15_popen_pclose.c reading from ch15_tolower.c ("lower").  After the   *)
(* fork() each process closes the ends it does not use; a reader sees the  *)
(* end of a pipe when nobody has its write end open.                       *)
(***************************************************************************)
EXTENDS Integers, Sequences, SequencesExt

CONSTANTS
    MaxLines,     \* bound: lines of input
    PipeSize      \* lines a pipe holds

VARIABLES
    program, lines,      \* the program and its input
    input,               \* lines nobody has read
    up, down,            \* the pipe to the child and the pipe to the parent
    open,                \* ends of the pipes each process has
    parent, child,       \* places in the programs
    pbuf, cbuf,          \* the line buffers
    shown,               \* lines on the terminal
    quit                 \* the child was killed, or the user left the pager

coVars == <<program, lines, input, up, down, open, parent, child, pbuf, cbuf, shown, quit>>

Line == {"sum", "words"}
End == {"up.r", "up.w", "down.r", "down.w"}
Pipes(p) == CASE p = "add" -> End [] p = "lower" -> {"down.r", "down.w"} [] OTHER -> {"up.r", "up.w"}
Has(end) == \E p \in {"parent", "child"} : <<p, end>> \in open

CoInit == /\ program \in {"hello", "page", "add", "lower"} /\ lines \in UNION {[1 .. n -> Line] : n \in 0 .. MaxLines}
          /\ input = (IF program = "hello" THEN <<"sum">> ELSE lines)
          /\ up = << >> /\ down = << >> /\ open = {"parent", "child"} \X Pipes(program)
          /\ parent = "setup" /\ child = "setup" /\ pbuf = "" /\ cbuf = "" /\ shown = << >> /\ quit = FALSE

Closes(proc, ends) == open' = open \ ({proc} \X ends)
Ends(proc) == Closes(proc, End)

-----------------------------------------------------------------------------
(* The parent.                                                             *)
ParentCloses(p) == Pipes(p) \cap {"up.r", "down.w"}
Fault_AfterWrite(p) == IF p = "hello" THEN "ended" ELSE "fgets"
AfterWrite(p) == CASE p = "hello" -> "ended" [] p = "page" -> "fgets" [] p = "add" -> "read"
(* At the end of its input "add" exits, "page" closes the pipe and waits.  *)
AtEof == IF program = "page" THEN parent' = "wait" /\ Closes("parent", {"up.w"})
         ELSE parent' = "ended" /\ Ends("parent")

ParentSetup == /\ parent = "setup" /\ Closes("parent", ParentCloses(program))
               /\ parent' = IF program = "lower" THEN "read" ELSE "fgets"
               /\ UNCHANGED <<program, lines, input, up, down, child, pbuf, cbuf, shown, quit>>
Fgets == /\ parent = "fgets"
         /\ IF input = << >> THEN AtEof /\ UNCHANGED <<input, pbuf>>
            ELSE parent' = "write" /\ pbuf' = Head(input) /\ input' = Tail(input) /\ UNCHANGED open
         /\ UNCHANGED <<program, lines, up, down, child, cbuf, shown, quit>>
(* A write() waits for room; with no reader SIGPIPE ends the parent.       *)
Write == /\ parent = "write"
         /\ \/ /\ Has("up.r") /\ Len(up) < PipeSize /\ up' = Append(up, pbuf)
               /\ parent' = AfterWrite(program)
               /\ IF AfterWrite(program) = "ended" THEN Ends("parent") ELSE UNCHANGED open
            \/ ~Has("up.r") /\ parent' = "ended" /\ Ends("parent") /\ UNCHANGED up
         /\ UNCHANGED <<program, lines, input, down, child, pbuf, cbuf, shown, quit>>
(* The answer of the coprocess, or a line of popen()'s child; at the end   *)
(* "add" breaks and exits, "lower" calls pclose().                         *)
ParentRead == /\ parent = "read"
              /\ \/ /\ down # << >> /\ down' = Tail(down) /\ shown' = Append(shown, Head(down))
                    /\ parent' = IF program = "add" THEN "fgets" ELSE "read"
                    /\ UNCHANGED open
                 \/ /\ down = << >> /\ ~Has("down.w") /\ UNCHANGED <<down, shown>>
                    /\ IF program = "add" THEN parent' = "ended" /\ Ends("parent")
                       ELSE parent' = "wait" /\ Closes("parent", {"down.r"})
              /\ UNCHANGED <<program, lines, input, up, child, pbuf, cbuf, quit>>
WaitChild == /\ parent = "wait" /\ child = "ended" /\ parent' = "ended" /\ Ends("parent")
             /\ UNCHANGED <<program, lines, input, up, down, child, pbuf, cbuf, shown, quit>>

-----------------------------------------------------------------------------
(* The child; its program may fail to start.                               *)
Fault_ChildCloses(p) == {}
ChildCloses(p) == Pipes(p) \cap {"up.w", "down.r"}
ChildSetup == /\ child = "setup" /\ child' = "exec" /\ Closes("child", ChildCloses(program))
              /\ UNCHANGED <<program, lines, input, up, down, parent, pbuf, cbuf, shown, quit>>
Exec == /\ child = "exec"
        /\ \/ child' = "read" /\ UNCHANGED <<open, quit>>
           \/ program # "hello" /\ child' = "ended" /\ Ends("child") /\ quit' = TRUE
        /\ UNCHANGED <<program, lines, input, up, down, parent, pbuf, cbuf, shown>>
(* "lower" reads the terminal, the others the pipe.                        *)
ChildRead ==
    /\ child = "read"
    /\ \/ /\ program = "lower" /\ input # << >> /\ child' = "answer"
          /\ cbuf' = Head(input) /\ input' = Tail(input) /\ UNCHANGED <<up, open>>
       \/ /\ program # "lower" /\ up # << >> /\ child' = "answer"
          /\ cbuf' = Head(up) /\ up' = Tail(up) /\ UNCHANGED <<input, open>>
       \/ /\ IF program = "lower" THEN input = << >> ELSE up = << >> /\ ~Has("up.w")
          /\ child' = "ended" /\ Ends("child") /\ UNCHANGED <<input, up, cbuf>>
    /\ UNCHANGED <<program, lines, down, parent, pbuf, shown, quit>>
(* The pager and "hello" write on the terminal, the others into the pipe.  *)
Converted(p, l) == CASE p = "add" -> (IF l = "sum" THEN "3" ELSE "invalid args")
                     [] p = "lower" -> (IF l = "words" THEN "lower-case words" ELSE l)
                     [] OTHER -> l
ToPipe == program \in {"add", "lower"}
Answer ==
    /\ child = "answer"
    /\ \/ /\ ToPipe /\ Has("down.r") /\ Len(down) < PipeSize /\ child' = "read"
          /\ down' = Append(down, Converted(program, cbuf)) /\ UNCHANGED <<open, shown>>
       \/ ToPipe /\ ~Has("down.r") /\ child' = "ended" /\ Ends("child") /\ UNCHANGED <<down, shown>>
       \/ /\ ~ToPipe /\ shown' = Append(shown, cbuf) /\ UNCHANGED down
          /\ IF program = "hello" THEN child' = "ended" /\ Ends("child") ELSE child' = "read" /\ UNCHANGED open
    /\ UNCHANGED <<program, lines, input, up, parent, pbuf, cbuf, quit>>
Quit == /\ child \in {"read", "answer"} /\ program # "hello" /\ child' = "ended" /\ Ends("child") /\ quit' = TRUE
        /\ UNCHANGED <<program, lines, input, up, down, parent, pbuf, cbuf, shown>>

ParentStep == ParentSetup \/ Fgets \/ Write \/ ParentRead \/ WaitChild
ChildStep == ChildSetup \/ Exec \/ ChildRead \/ Answer
CoNext == ParentStep \/ ChildStep \/ Quit

(* What is shown is, line by line, the answer to the input, and all of it  *)
(* when both ended by themselves (ch15_pipe_add.c:25-41, ch15_add.c:8-21). *)
Given == IF program = "hello" THEN <<"sum">> ELSE lines
LinesRight ==
    LET answers == [k \in DOMAIN Given |-> Converted(program, Given[k])]
    IN /\ IsPrefix(shown, answers)
       /\ parent = "ended" /\ child = "ended" /\ ~quit => shown = answers
(* Both processes end: each sees the end of the pipe it reads because the  *)
(* other end is closed in its own process too (ch15_pipe_add.c:47-48,      *)
(* ch15_pipe_page.c:50).                                                   *)
PipesEnd == <>(parent = "ended" /\ child = "ended")
=============================================================================
