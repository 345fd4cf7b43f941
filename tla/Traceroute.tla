----------------------------- MODULE Traceroute -----------------------------
(***************************************************************************)
(* traceroute_std.c: one or more users tracing the route to a host.  Every *)
(* task sends UDP probes with a growing ttl, numbers them with the         *)
(* destination port, and looks for the ICMP answer to its last probe among *)
(* all the ICMP messages of the machine: a raw socket gets a copy of each. *)
(* The network loses, delays and reorders probes and answers.              *)
(***************************************************************************)
EXTENDS Integers, Sequences, FiniteSets

CONSTANTS
    Tasks,       \* the running traceroutes
    Pid,         \* their process IDs
    IdentMod,    \* 2^15: the bits of the pid that "ident" keeps
    PortMod,     \* 2^16: the width of a UDP port
    Port,        \* base port (-p)
    NProbes,     \* probes per ttl (-q)
    MaxTtl,      \* largest ttl (-m)
    WaitTime,    \* seconds to wait for an answer (-w)
    Dist,        \* hops to the destination of each task
    Unreach,       \* ICMP unreachable codes that are met on the route of each task
    MaxLate      \* bound: an answer is lost, or at most MaxLate probes late

(* main()'s checks of its arguments (a ttl above 255 does not fit ip_ttl). *)
ASSUME OptionAssumption ==
    /\ MaxTtl \in 2..255
    /\ NProbes \in Nat \ {0}
    /\ WaitTime \in Nat \ {0, 1}
    /\ PortMod \in Nat \ {0} /\ Port \in 1 .. PortMod - 1
    /\ IdentMod \in Nat \ {0} /\ Pid \in [Tasks -> Nat]
    /\ Dist \in [Tasks -> Nat \ {0}]
    /\ MaxLate \in Nat

(* Neither an answer of another type nor the lack of one is such a code.   *)
ASSUME CodeAssumption == \A t \in Tasks : Unreach[t] \cap {"timxceed", "*"} = {}

VARIABLES
    pc,          \* "send", "wait", "line" (probes of this ttl done), "exit"
    ttl, seq, got_there, unreachable,
    line,        \* what was printed for the probes of this ttl
    left,        \* seconds until select() times out
    rcvbuf,      \* ICMP messages in the task's raw socket
    net          \* probes sent and not answered

vars == <<pc, ttl, seq, got_there, unreachable, line, left, rcvbuf, net>>

(* The switch on the code of an answer: what counts as "got_there", what   *)
(* as "unreachable".  Any other code is accepted and counts as neither.    *)
HostCodes == {"port", "protocol"}
Errors == {"net", "host", "needfrag", "srcfail"}

Ident(t) == Pid[t] % IdentMod
DPort(n) == (Port + n) % PortMod

(* What is printed for a probe that timed out.                             *)
NoAnswer == [kind |-> "*"]

Init ==
    /\ pc = [t \in Tasks |-> "send"]
    /\ ttl = [t \in Tasks |-> 1]
    /\ seq = [t \in Tasks |-> 0]
    /\ got_there = [t \in Tasks |-> 0]
    /\ unreachable = [t \in Tasks |-> 0]
    /\ line = [t \in Tasks |-> <<>>]
    /\ left = [t \in Tasks |-> 0]
    /\ rcvbuf = [t \in Tasks |-> <<>>]
    /\ net = {}

-----------------------------------------------------------------------------
(* The network.  "task" and "seq" say which probe a message really belongs *)
(* to; the program sees only the ports.                                    *)

(* The host, or a router on the way, answers probe m with an ICMP message; *)
(* a probe or an answer that is lost stays in "net".  Only a router sees   *)
(* the ttl exceeded and only the host has ports; either may refuse the     *)
(* probe with any other code of the route, as a filter does.               *)
Kinds(m) ==
    IF m.ttl < Dist[m.task] THEN (Unreach[m.task] \ HostCodes) \cup {"timxceed"}
                            ELSE Unreach[m.task]

Answer(m) ==
    /\ m \in net
    /\ \E k \in Kinds(m) :
          LET r == [m |-> m, kind |-> k, sport |-> Ident(m.task), dport |-> DPort(m.seq)]
          IN  rcvbuf' = [t \in Tasks |-> IF pc[t] = "exit" THEN rcvbuf[t]
                                         ELSE Append(rcvbuf[t], r)]
    /\ net' = net \ {m}
    /\ UNCHANGED <<pc, ttl, seq, got_there, unreachable, line, left>>

(* A second passes.  Programs are fast: nothing else is left to do.        *)
Tick ==
    /\ \E t \in Tasks : pc[t] # "exit"
    /\ \A t \in Tasks : pc[t] = "exit" \/ (pc[t] = "wait" /\ rcvbuf[t] = <<>> /\ left[t] > 0)
    /\ left' = [t \in Tasks |-> IF pc[t] = "wait" THEN left[t] - 1 ELSE left[t]]
    /\ UNCHANGED <<pc, ttl, seq, got_there, unreachable, line, rcvbuf, net>>

-----------------------------------------------------------------------------
(* send_probe(++seq, ttl), and the first select() of wait_for_reply().     *)
Send(t) ==
    /\ pc[t] = "send"
    /\ seq' = [seq EXCEPT ![t] = @ + 1]
    /\ net' = {m \in net : m.task = t => m.seq + MaxLate >= seq'[t]}
                  \cup {[task |-> t, seq |-> seq'[t], ttl |-> ttl[t]]}
    /\ left' = [left EXCEPT ![t] = WaitTime]
    /\ pc' = [pc EXCEPT ![t] = "wait"]
    /\ UNCHANGED <<ttl, got_there, unreachable, line, rcvbuf>>

Fault_PacketOk_seq(t, r) == r.sport = Ident(t)
(* packet_ok(): the ports of the probe quoted in the answer are those of   *)
(* the last probe.                                                         *)
PacketOk(t, r) == r.sport = Ident(t) /\ r.dport = DPort(seq[t])

(* The next probe of this ttl, or the end of the line.                     *)
NextProbe(t) ==
    pc' = [pc EXCEPT ![t] = IF Len(line'[t]) < NProbes THEN "send" ELSE "line"]

(* recvfrom() of the answer; the switch on its code.                       *)
Reply(t) ==
    /\ pc[t] = "wait"
    /\ rcvbuf[t] # <<>>
    /\ PacketOk(t, Head(rcvbuf[t]))
    /\ LET r == Head(rcvbuf[t])
       IN  /\ line' = [line EXCEPT ![t] = Append(@, r)]
           /\ got_there' = [got_there EXCEPT ![t] = @ + IF r.kind \in HostCodes THEN 1 ELSE 0]
           /\ unreachable' = [unreachable EXCEPT ![t] = @ + IF r.kind \in Errors THEN 1 ELSE 0]
    /\ rcvbuf' = [rcvbuf EXCEPT ![t] = Tail(@)]
    /\ NextProbe(t)
    /\ UNCHANGED <<ttl, seq, left, net>>

(* recvfrom() of another message: wait_for_reply() again, with all of      *)
(* waittime.                                                               *)
Stray(t) ==
    /\ pc[t] = "wait"
    /\ rcvbuf[t] # <<>>
    /\ ~PacketOk(t, Head(rcvbuf[t]))
    /\ rcvbuf' = [rcvbuf EXCEPT ![t] = Tail(@)]
    /\ left' = [left EXCEPT ![t] = WaitTime]
    /\ UNCHANGED <<pc, ttl, seq, got_there, unreachable, line, net>>

(* A timeout that does not count as the answer.                            *)
Fault_Timeout(t) ==
    /\ pc[t] = "wait"
    /\ rcvbuf[t] = <<>>
    /\ left[t] = 0
    /\ left' = [left EXCEPT ![t] = WaitTime]
    /\ UNCHANGED <<pc, ttl, seq, got_there, unreachable, line, rcvbuf, net>>
(* select() returns 0: " *".                                               *)
Timeout(t) ==
    /\ pc[t] = "wait"
    /\ rcvbuf[t] = <<>>
    /\ left[t] = 0
    /\ line' = [line EXCEPT ![t] = Append(@, NoAnswer)]
    /\ NextProbe(t)
    /\ UNCHANGED <<ttl, seq, got_there, unreachable, left, rcvbuf, net>>

Fault_Stop_unreachable(t) == unreachable[t] >= NProbes - 1
Fault_Stop_early(t) == got_there[t] > 0 \/ unreachable[t] >= NProbes - 2
Stop(t) == got_there[t] > 0 \/ unreachable[t] >= NProbes - 1

LastTtl(t) == ttl[t] = MaxTtl

(* End of the body of the ttl loop.                                        *)
EndLine(t) ==
    /\ pc[t] = "line"
    /\ IF Stop(t) \/ LastTtl(t)
       THEN /\ pc' = [pc EXCEPT ![t] = "exit"]
            /\ rcvbuf' = [rcvbuf EXCEPT ![t] = <<>>]
            /\ UNCHANGED <<ttl, line, got_there, unreachable>>
       ELSE /\ pc' = [pc EXCEPT ![t] = "send"]
            /\ ttl' = [ttl EXCEPT ![t] = @ + 1]
            /\ line' = [line EXCEPT ![t] = <<>>]
            /\ got_there' = [got_there EXCEPT ![t] = 0]
            /\ unreachable' = [unreachable EXCEPT ![t] = 0]
            /\ UNCHANGED rcvbuf
    /\ UNCHANGED <<seq, left, net>>

Run(t) == Send(t) \/ Reply(t) \/ Stray(t) \/ Timeout(t) \/ EndLine(t)

Next == \/ \E t \in Tasks : Run(t)
        \/ \E m \in net : Answer(m)
        \/ Tick

Spec == Init /\ [][Next]_vars

(* The program runs and time passes; the network owes nothing.             *)
FairSpec == Spec /\ WF_vars(Tick) /\ \A t \in Tasks : WF_vars(Run(t))

-----------------------------------------------------------------------------
(* Properties.                                                             *)

Probe == [task : Tasks, seq : Nat, ttl : Nat]
ICMP == [m : Probe, kind : {"timxceed"} \cup UNION {Unreach[t] : t \in Tasks},
         sport : Nat, dport : Nat]

(* "times and/or hop counts don't get confused by a reply that was delayed *)
(* in transit", nor by the replies to another user's traceroute: what is   *)
(* printed for the i-th probe of a ttl is the answer to that very probe.   *)
Attribution ==
    \A t \in Tasks : \A i \in DOMAIN line[t] :
        line[t][i] # NoAnswer =>
            /\ line[t][i].m.task = t
            /\ line[t][i].m.ttl = ttl[t]
            /\ line[t][i].m.seq = (ttl[t] - 1) * NProbes + i

(* The probes of a line whose answers have a code in K.                    *)
On(t, K) == {i \in DOMAIN line[t] : line[t][i].kind \in K}

(* The ttl grows "until we get an icmp port unreachable (which means we    *)
(* got to host) or hit a max": on the last line of a trace that stopped    *)
(* early some answer says so, or some say that the host cannot be reached, *)
(* and those are all of the line but one at most.                          *)
StopsForReason ==
    \A t \in Tasks : pc[t] = "exit" /\ ttl[t] < MaxTtl =>
        \/ On(t, HostCodes) # {}
        \/ On(t, Errors) # {} /\ Cardinality(On(t, Errors)) >= NProbes - 1

(* A line that neither reached the host nor has all its probes but one, at *)
(* most, told that the host cannot be reached: what came from the host on  *)
(* it, if anything, is one of too few "unreachable"s or has a code that    *)
(* the switch does not know.                                               *)
NotThere(t) ==
    /\ \A i \in DOMAIN line[t] : \/ line[t][i] = NoAnswer
                                \/ line[t][i].m.ttl < Dist[t]
                                \/ line[t][i].kind \notin HostCodes \cup {"timxceed"}
    /\ Cardinality(On(t, Errors)) < NProbes - 1

(* The ttl grows beyond no other line.  (A host that answers with codes    *)
(* unknown to the switch is therefore probed up to max_ttl.)               *)
StopsAtHost == [][\A t \in Tasks : ttl'[t] > ttl[t] => NotThere(t)]_vars

(* Whatever the network loses or delays, every trace ends.                 *)
Terminates == <>(\A t \in Tasks : pc[t] = "exit")
=============================================================================
