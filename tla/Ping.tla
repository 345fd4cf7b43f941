-------------------------------- MODULE Ping --------------------------------
(***************************************************************************)
(* ping.c with the socket functions of my_icmp.c: one thread sends an echo *)
(* request a second, one polls for the answers, SIGINT ends both.  The raw *)
(* socket gets every ICMP message of the host.                             *)
(***************************************************************************)
EXTENDS Integers, Sequences, FiniteSets

CONSTANTS
    PACKET_SEND_MAX_NUM,
    MaxOthers              \* bound: other messages, duplicates and losses

VARIABLES
    main,        \* "socket", "dest", "started", "one", "both", or how it ended
    dest,        \* what the requests are sent to
    alive, send_count, recv_count,
    sender, receiver,      \* places of the threads; "" before they exist
    slot,        \* of ping_packet: the answers whose times were put there
    socket,      \* messages that arrived: [kind, id, seq]
    wire,        \* answers on their way, by sequence number
    timed,       \* time_interval: "no", "from 1970" or "right"
    bad,         \* history: an answer lost, late, doubled or another's with this id
    extra,       \* history: answers beyond one for each request
    others, interrupted

pingVars == <<main, dest, alive, send_count, recv_count, sender, receiver, slot, socket, wire,
              timed, bad, extra, others, interrupted>>

PingInit == /\ main = "socket" /\ dest = "none" /\ alive = FALSE /\ send_count = 0 /\ recv_count = 0
            /\ sender = "" /\ receiver = "" /\ slot = << >> /\ socket = << >> /\ wire = << >>
            /\ timed = "no" /\ bad = FALSE /\ extra = 0 /\ others = 0 /\ interrupted = FALSE

Threads == <<alive, send_count, recv_count, sender, receiver, slot>>
Network == <<socket, wire, bad, extra, others>>

raw_sock == /\ main = "socket" /\ main' \in {"dest", "ended"}
            /\ UNCHANGED <<dest, Threads, Network, timed, interrupted>>
(* If the name is unknown the address stays 0.0.0.0 and the (unsigned) -1  *)
(* that is returned is not < 0: the program goes on.                       *)
set_dest == /\ main = "dest" /\ main' = "started"
            /\ dest' \in {"the host", "0.0.0.0"} /\ alive' = TRUE
            /\ UNCHANGED <<send_count, recv_count, sender, receiver, slot, Network, timed, interrupted>>
(* If a thread cannot be made main() returns, and the process ends.        *)
StartThreads ==
    /\ \/ main = "started" /\ main' = "one" /\ sender' = "begin" /\ UNCHANGED receiver
       \/ main = "one" /\ main' = "both" /\ receiver' = "test" /\ UNCHANGED sender
       \/ main \in {"started", "one"} /\ main' = "ended" /\ UNCHANGED <<sender, receiver>>
    /\ UNCHANGED <<dest, alive, send_count, recv_count, slot, Network, timed, interrupted>>
Running == main \in {"one", "both"}

Fault_Goes(count) == count < PACKET_SEND_MAX_NUM
Goes(count) == alive /\ count < PACKET_SEND_MAX_NUM

(* The count is raised after sendto(); a request that is not sent is not   *)
(* waited for but counts.                                                  *)
ping_send ==
    /\ Running
    /\ \/ sender = "begin" /\ sender' = "test" /\ UNCHANGED <<send_count, wire, bad>>
       \/ /\ sender = "test" /\ sender' = IF Goes(send_count) THEN "send" ELSE "done"
          /\ UNCHANGED <<send_count, wire, bad>>
       \/ sender = "send" /\ sender' = "sent" /\ wire' = Append(wire, send_count) /\ UNCHANGED <<send_count, bad>>
       \/ sender = "send" /\ sender' = "failed" /\ bad' = TRUE /\ UNCHANGED <<send_count, wire>>
       \/ /\ sender \in {"sent", "failed"} /\ send_count' = send_count + 1
          /\ sender' = IF sender = "sent" THEN "sleep" ELSE "test"
          /\ UNCHANGED <<wire, bad>>
       \/ sender = "sleep" /\ sender' = "test" /\ UNCHANGED <<send_count, wire, bad>>
    /\ UNCHANGED <<main, dest, alive, recv_count, receiver, slot, socket, timed, extra, others, interrupted>>

(* A message counts if it is an echo reply with this process' pid, of      *)
(* which the id has 16 bits; the test of the sequence number is never true.*)
Fault_icmp_unpack(m) == m.kind # "short"
icmp_unpack(m) == m.kind = "reply" /\ m.id = "own"
ping_recv ==
    /\ Running
    /\ \/ /\ receiver = "test" /\ receiver' = IF Goes(recv_count) THEN "select" ELSE "done"
          /\ UNCHANGED <<recv_count, slot, socket>>
       \/ /\ receiver = "select" /\ socket = << >> /\ receiver' = "test"     \* after 200 us, then at once
          /\ UNCHANGED <<recv_count, slot, socket>>
       \/ /\ receiver = "select" /\ socket # << >> /\ receiver' = "test" /\ socket' = Tail(socket)
          /\ IF icmp_unpack(Head(socket))
             THEN slot' = Append(slot, Head(socket).seq) /\ recv_count' = recv_count + 1
             ELSE UNCHANGED <<slot, recv_count>>
    /\ UNCHANGED <<main, dest, alive, send_count, sender, wire, timed, bad, extra, others, interrupted>>

(* Answers come in order, or one of the bounded mishaps happens.           *)
Arrive == /\ Running /\ wire # << >> /\ wire' = Tail(wire)
          /\ socket' = Append(socket, [kind |-> "reply", id |-> "own", seq |-> Head(wire)])
          /\ UNCHANGED <<main, dest, Threads, timed, bad, extra, others, interrupted>>
Mishap == /\ Running /\ others < MaxOthers /\ others' = others + 1
          /\ \/ /\ wire # << >> /\ wire' = Tail(wire) /\ bad' = TRUE /\ UNCHANGED <<socket, extra>>     \* lost
             \/ /\ Len(wire) > 1 /\ bad' = TRUE /\ UNCHANGED <<socket, extra>>                          \* overtaken
                /\ wire' = Tail(wire) \o <<Head(wire)>>
             \/ /\ wire # << >> /\ wire' = <<Head(wire)>> \o wire /\ bad' = TRUE /\ extra' = extra + 1  \* doubled
                /\ UNCHANGED socket
             \/ /\ socket' = Append(socket, [kind |-> "reply", id |-> "own", seq |-> 0])  \* of a pid with these bits
                /\ bad' = TRUE /\ extra' = extra + 1 /\ UNCHANGED wire
             \/ /\ \E kind \in {"reply", "request", "short"} :
                      socket' = Append(socket, [kind |-> kind, id |-> "other", seq |-> 0])
                /\ UNCHANGED <<wire, bad, extra>>
          /\ UNCHANGED <<main, dest, Threads, timed, interrupted>>
(* The handler takes the time from start_time, which the sender sets.      *)
icmp_sigint ==
    /\ Running \/ main = "started"
    /\ ~interrupted /\ interrupted' = TRUE /\ alive' = FALSE
    /\ timed' = IF sender \in {"", "begin"} THEN "from 1970" ELSE "right"
    /\ UNCHANGED <<main, dest, send_count, recv_count, sender, receiver, slot, Network>>
(* The joins, then ping_stats_show(), which divides by send_count.         *)
Stats == /\ main = "both" /\ sender = "done" /\ receiver = "done"
         /\ main' = IF send_count = 0 THEN "division by zero" ELSE "shown"
         /\ UNCHANGED <<dest, Threads, Network, timed, interrupted>>

MainStep == raw_sock \/ set_dest \/ StartThreads \/ Stats

PingNext == \/ MainStep \/ ping_send \/ ping_recv
            \/ Arrive \/ Mishap \/ icmp_sigint

(* The times printed for the k-th answer are of the k-th request unless a  *)
(* request or an answer was lost, overtaken, doubled or another's; the     *)
(* share of lost packets is never negative unless answers came twice; and  *)
(* the division by zero and the time since 1970 need a SIGINT before the   *)
(* first request, no SIGINT leaves the time 0 (ping.c:88, 104, 113).       *)
SlotRight ==
    /\ ~bad => \A k \in DOMAIN slot : slot[k] = k - 1
    /\ main = "shown" => recv_count <= send_count + extra
    /\ main = "division by zero" => interrupted
    /\ timed = "from 1970" => interrupted
    /\ main = "shown" /\ ~interrupted => timed = "no" /\ recv_count = send_count
(* SIGINT ends the program, and without it the program ends if no answer   *)
(* is lost; with one lost the receiver polls for ever (ping.c:67).         *)
PingEnds ==
    /\ interrupted ~> main \notin {"started", "one", "both"}
    /\ <>(bad \/ main \in {"ended", "shown", "division by zero"})
=============================================================================
