------------------------------ MODULE OldTrace ------------------------------
(***************************************************************************)
(* traceroute_udp.c and traceroute_icmp.c, the versions before             *)
(* traceroute_std.c: probes with a growing ttl, and whatever ICMP message  *)
(* comes next is taken for the answer.                                     *)
(***************************************************************************)
EXTENDS Integers, Sequences

CONSTANTS
    Target,             \* hops to the host
    MaxTtl, Probes,     \* ttl < MaxTtl + 1 (63 or 127); 3 probes of each
    Budget,             \* seconds in tv, which select() counts down
    MaxForeign          \* bound: ICMP messages of other traffic

VARIABLES
    version,            \* "udp" or "icmp"
    at,                 \* "open", "probe", "select", "sleep" or "ended"
    ttl, probe, tv,
    got_there, unreachable,
    flight,             \* answers on their way
    socket,             \* messages to read: [type, code, from, foreign]
    shown,              \* printed: [ttl, from, exceeded], what was said by whom on which line
    told,               \* history: answers read that end a trace, at once or two together
    late,               \* history: a probe given up while its answer was on its way
    foreign             \* foreign messages so far, 0 if none

oldVars == <<version, at, ttl, probe, tv, got_there, unreachable, flight, socket, shown, told, late, foreign>>

NET == 0
HOST == 1
PROTOCOL == 2
PORT == 3
NEEDFRAG == 4
SRCFAIL == 5
FILTER_PROHIB == 13     \* stands for the codes that main() does not count

OldInit == /\ version \in {"udp", "icmp"} /\ at = "open" /\ ttl = 1 /\ probe = 0 /\ tv = Budget
           /\ got_there = 0 /\ unreachable = 0 /\ flight = << >> /\ socket = << >>
           /\ shown = {} /\ told = 0 /\ late = FALSE /\ foreign = 0

Counters == <<got_there, unreachable, shown, told>>

(* main() until the loop; a name that is not found becomes 0.0.0.0.        *)
Open == /\ at = "open" /\ at' \in {"probe", "ended"}
        /\ UNCHANGED <<version, ttl, probe, tv, Counters, flight, socket, late, foreign>>

(* The UDP probe is answered by the router at its ttl, by the target, by   *)
(* any router on the way that cannot or may not pass it on, or not at all. *)
(* The ICMP probe is never sent: sendto() gets the address of the pointer  *)
(* dest and the size of a pointer, and fails.                              *)
Says(type, code, hop) == [type |-> type, code |-> code, from |-> hop, foreign |-> FALSE]
Answers == {Says("unreach", code, hop) : code \in {HOST, FILTER_PROHIB}, hop \in {h \in 1 .. ttl : h < Target}}
           \cup IF ttl >= Target THEN {Says("unreach", code, Target) : code \in {PORT, PROTOCOL, FILTER_PROHIB}}
                                 ELSE {Says("timxceed", 0, ttl)}
send_probe ==
    /\ at = "probe" /\ at' = "select"
    /\ \/ UNCHANGED flight
       \/ version = "udp" /\ \E a \in Answers : flight' = Append(flight, a)
    /\ UNCHANGED <<version, ttl, probe, tv, Counters, socket, late, foreign>>

(* The loops: three probes, then the next ttl; the UDP version ends after  *)
(* a probe that got there, or two "unreachable".                           *)
Next3(got, unr) ==
    IF version = "udp" /\ (got > 0 \/ unr >= 2) THEN at' = "ended" /\ UNCHANGED <<ttl, probe>>
    ELSE IF probe < Probes - 1 THEN at' = "probe" /\ probe' = probe + 1 /\ UNCHANGED ttl
    ELSE /\ at' = IF version = "icmp" THEN "sleep" ELSE IF ttl = MaxTtl THEN "ended" ELSE "probe"
         /\ probe' = 0 /\ ttl' = ttl + 1

(* Nothing came within what is left of tv (or select() failed).            *)
Timeout ==
    /\ at = "select" /\ socket = << >>
    /\ IF tv > 0 THEN tv' = tv - 1 /\ UNCHANGED <<at, ttl, probe, late>>
       ELSE tv' = 0 /\ late' = (late \/ flight # << >>) /\ Next3(got_there, unreachable)
    /\ UNCHANGED <<version, Counters, flight, socket, foreign>>

(* What icmp_packet_ok() returns: 0 is "not accepted", -1 counts nothing.  *)
Fault_udp_packet_ok(m) == m.code + 1
udp_packet_ok(m) == IF m.type \in {"timxceed", "short"} THEN -1 ELSE m.code + 1
icmp_packet_ok(m) == CASE m.type = "short" -> -1
                       [] m.type = "unreach" \/ (m.type = "timxceed" /\ m.code = 0) -> m.code + 1
                       [] OTHER -> 0
Recv ==
    /\ at = "select" /\ socket # << >> /\ socket' = Tail(socket)
    /\ LET m == Head(socket)
           i == IF version = "udp" THEN udp_packet_ok(m) ELSE icmp_packet_ok(m)
           got == IF i - 1 \in {PORT, PROTOCOL} THEN got_there + 1 ELSE got_there
           unr == IF i - 1 \in {NET, HOST, NEEDFRAG, SRCFAIL} THEN unreachable + 1 ELSE unreachable
       IN /\ got_there' = got /\ unreachable' = unr
          /\ shown' = IF i # 0 THEN shown \cup {[ttl |-> ttl, from |-> m.from, exceeded |-> m.type = "timxceed"]}
                                ELSE shown
          /\ told' = IF ~m.foreign /\ m.type = "unreach" /\ m.code # FILTER_PROHIB THEN told + 1 ELSE told
          /\ IF version = "icmp" /\ i = 0 THEN at' = "ended" /\ UNCHANGED <<ttl, probe>>
             ELSE Next3(got, unr)
    /\ UNCHANGED <<version, tv, flight, late, foreign>>
Sleep1 == /\ at = "sleep" /\ at' = IF ttl > MaxTtl THEN "ended" ELSE "probe"
          /\ UNCHANGED <<version, ttl, probe, tv, Counters, flight, socket, late, foreign>>

Arrive == /\ flight # << >> /\ flight' = Tail(flight) /\ socket' = Append(socket, Head(flight))
          /\ UNCHANGED <<version, at, ttl, probe, tv, Counters, late, foreign>>
Foreign == /\ at \in {"probe", "select", "sleep"} /\ foreign < MaxForeign /\ foreign' = foreign + 1
           /\ \E type \in {"timxceed", "unreach", "echo", "short"}, code \in {0, PORT} :
                 socket' = Append(socket, [type |-> type, code |-> code, from |-> 0, foreign |-> TRUE])
           /\ UNCHANGED <<version, at, ttl, probe, tv, Counters, flight, late>>

OldNext == Open \/ send_probe \/ Timeout \/ Recv \/ Sleep1 \/ Arrive \/ Foreign

(* Without messages of other traffic, which are not told from answers      *)
(* (traceroute_udp.c:77-95), every answer shown comes from no farther than *)
(* the ttl of its line, the counts are those of the answers that count, so *)
(* that one with another code never ends the trace, got_there means that   *)
(* the target is shown, and the trace ends early only because of it or two *)
(* errors; the ICMP version, whose probes never leave, shows nothing.  If  *)
(* moreover no answer came after its probe was given up, for which there   *)
(* are five seconds in the whole trace (145, 208), the router whose time   *)
(* was exceeded is that of the line, and the next probe starts with no     *)
(* answer left over.                                                       *)
InStep ==
    foreign = 0 =>
        /\ \A r \in shown : version = "udp" /\ r.from <= r.ttl /\ r.from <= Target
        /\ got_there + unreachable = told
        /\ got_there > 0 => \E r \in shown : r.from = Target
        /\ at = "ended" /\ ttl \in 2 .. MaxTtl => got_there > 0 \/ unreachable >= 2
        /\ ~late => /\ \A r \in shown : r.exceeded => r.from = r.ttl
                    /\ at = "probe" => flight = << >> /\ socket = << >>
=============================================================================
