------------------------------- MODULE FdPass -------------------------------
(***************************************************************************)
(* apue/lib/sendfd.c, senderr.c, recvfd.c: a descriptor or an error comes  *)
(* over a stream as an optional text, a null byte and a status byte.  A    *)
(* server answers one request after the other; the client calls recv_fd()  *)
(* for each.  A byte of the stream carries the descriptor of its message.  *)
(***************************************************************************)
EXTENDS Integers, SequencesExt

CONSTANTS
    MAXLINE,    \* the size of the client's buffer
    Replies,    \* what a request is answered with: [fd, errcode, text]
    Rounds      \* bound: requests of a connection

VARIABLES
    stream,     \* bytes sent and not read: [b, fd]
    answer,     \* of the current request
    server,     \* "text", "final", "done" or "failed"
    left,       \* bytes of the text not written yet
    client,     \* "reading", "done" or "dumped"
    shown,      \* bytes of text given to userfunc
    result,     \* of recv_fd()
    round,      \* the request
    gaveUp,     \* history: recv_fd() returned before the end of the answer
    lost        \* history: descriptors received and not returned

fdVars == <<stream, answer, server, left, client, shown, result, round, gaveUp, lost>>

Char == 120
NoFd == 0
Begin(a) == answer' = a /\ left' = a.text /\ server' = IF a.text > 0 THEN "text" ELSE "final"

FdInit == /\ stream = << >> /\ answer \in Replies
          /\ left = answer.text /\ server = (IF answer.text > 0 THEN "text" ELSE "final")
          /\ client = "reading" /\ shown = 0 /\ result = 0 /\ round = 1 /\ gaveUp = FALSE /\ lost = {}

(* writen() of send_err(): a write() takes some of the bytes; if one fails *)
(* or takes none, send_err() returns -1 and the answer stays incomplete.   *)
WriteText ==
    /\ server = "text"
    /\ \/ \E n \in 1 .. left :
             /\ stream' = stream \o [i \in 1 .. n |-> [b |-> Char, fd |-> NoFd]]
             /\ left' = left - n /\ server' = IF left = n THEN "final" ELSE "text"
       \/ server' = "failed" /\ UNCHANGED <<stream, left>>
    /\ UNCHANGED <<answer, client, shown, result, round, gaveUp, lost>>

(* The status byte: 0 for a descriptor, else the low byte of the code,     *)
(* which must not be 0.  send_err() makes the code negative.               *)
Fault_status(a) == IF a.fd # NoFd THEN 0 ELSE (-a.errcode) % 256
status(a) == IF a.fd # NoFd THEN 0
             ELSE LET code == IF a.errcode >= 0 THEN -1 ELSE a.errcode
                  IN IF (-code) % 256 = 0 THEN 1 ELSE (-code) % 256
(* send_fd(): both bytes in one message, or -1 (malloc() or sendmsg()).    *)
SendFd ==
    /\ server = "final"
    /\ \/ /\ stream' = stream \o <<[b |-> 0, fd |-> answer.fd], [b |-> status(answer), fd |-> NoFd]>>
          /\ server' = "done"
       \/ server' = "failed" /\ UNCHANGED stream
    /\ UNCHANGED <<answer, left, client, shown, result, round, gaveUp, lost>>

-----------------------------------------------------------------------------
(* One turn of recv_fd().  recvmsg() takes what is there, at most MAXLINE  *)
(* bytes and nothing after a message with a descriptor.                    *)
Available == LET ends == {i + 1 : i \in {j \in DOMAIN stream : stream[j].fd # NoFd}}
             IN Min({MAXLINE, Len(stream)} \cup ends)
Nulls(buf) == {i \in DOMAIN buf : buf[i].b = 0}
Fds(buf) == {buf[i].fd : i \in DOMAIN buf} \ {NoFd}
Read ==
    /\ client = "reading" /\ stream # << >>
    /\ LET nr == Available
           buf == SubSeq(stream, 1, nr)
           null == Min(Nulls(buf))
           final == Nulls(buf) # {}
           text == IF final THEN nr - 2 ELSE nr
       IN /\ stream' = SubSeq(stream, nr + 1, Len(stream))
          /\ \/ /\ final /\ (null # nr - 1 \/ (buf[nr].b = 0 /\ Fds(buf) = {}))   \* err_dump()
                /\ client' = "dumped" /\ UNCHANGED <<shown, result, gaveUp, lost>>
             \/ /\ ~final /\ shown' = shown + text
                /\ UNCHANGED <<client, result, gaveUp, lost>>
             \/ /\ final /\ null = nr - 1 /\ (buf[nr].b = 0 => Fds(buf) # {})
                /\ shown' = shown + text /\ client' = "done"
                /\ result' = IF buf[nr].b = 0 THEN Max(Fds(buf)) ELSE -buf[nr].b
                /\ UNCHANGED <<gaveUp, lost>>
             \/ /\ text > 0 /\ (final => null = nr - 1)              \* userfunc failed
                /\ client' = "done" /\ result' = -1 /\ gaveUp' = TRUE
                /\ lost' = lost \cup Fds(buf) /\ UNCHANGED shown
    /\ UNCHANGED <<answer, server, left, round>>
(* recvmsg() or malloc() failed, or the server closed the connection.      *)
ReadFails ==
    /\ client = "reading" /\ client' = "done" /\ result' = -1
    /\ IF server = "failed" /\ stream = << >> THEN UNCHANGED gaveUp ELSE gaveUp' = TRUE
    /\ UNCHANGED <<stream, answer, server, left, shown, round, lost>>
(* The next request, after either outcome.                                 *)
NextRequest ==
    /\ client = "done" /\ server = "done" /\ round < Rounds /\ round' = round + 1
    /\ client' = "reading" /\ shown' = 0 /\ result' = 0
    /\ \E a \in Replies : Begin(a)
    /\ UNCHANGED <<stream, gaveUp, lost>>
FdNext == WriteText \/ SendFd \/ Read \/ ReadFails \/ NextRequest

(* Unless recv_fd() once gave up early, and so left the rest of an answer  *)
(* to the next call, its result is that of the request: the descriptor, or *)
(* minus the low byte of the code with the whole text shown, or -1 for an  *)
(* answer that failed.  A descriptor that arrives and is not returned is   *)
(* lost only when userfunc failed in that call (recvfd.c:48-66).           *)
Answered ==
    /\ ~gaveUp /\ client = "done" =>
          \/ server = "failed" /\ result = -1
          \/ answer.fd # NoFd /\ result = answer.fd
          \/ /\ answer.fd = NoFd /\ shown = answer.text
             /\ result = -(IF answer.errcode >= 0 THEN 1 ELSE IF (-answer.errcode) % 256 = 0 THEN 1 ELSE (-answer.errcode) % 256)
    /\ ~gaveUp => lost = {}
(* The text and the two bytes may be cut between the null byte and the     *)
(* status, but only if the text nearly fills the buffer: a shorter one     *)
(* never makes recv_fd() dump core (recvfd.c:49-51).                       *)
NoFormatError == client = "dumped" => gaveUp \/ answer.text >= MAXLINE - 1
Delivered == Answered /\ NoFormatError
=============================================================================
