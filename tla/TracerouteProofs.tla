--------------------------- MODULE TracerouteProofs ---------------------------
(***************************************************************************)
(* Proofs about traceroute_std.c, for any number of users, any network     *)
(* delays and any options that leave the ports of one run distinct.        *)
(***************************************************************************)
EXTENDS Traceroute, SequenceTheorems, FiniteSetTheorems, TLAPS

-----------------------------------------------------------------------------
(* The hypotheses.  A run does not use a destination port twice, and the   *)
(* users that run at the same time have different idents.                  *)
PortsDistinct == MaxTtl * NProbes <= PortMod
IdentsDistinct == \A t, u \in Tasks : Ident(t) = Ident(u) => t = u

(* The probes that a task can send, and the answers they can have.         *)
Before(k) == (k - 1) * NProbes
Sendable == {m \in Probe : m.ttl \in 1 .. MaxTtl /\ m.seq \in Before(m.ttl) + 1 .. Before(m.ttl) + NProbes}
Honest == {r \in ICMP : /\ r.m \in Sendable /\ r.kind \in Kinds(r.m)
                        /\ r.sport = Ident(r.m.task) /\ r.dport = DPort(r.m.seq)}

(* The inductive invariant.                                                *)
TraceTypes ==
    /\ pc \in [Tasks -> {"send", "wait", "line", "exit"}]
    /\ ttl \in [Tasks -> 1 .. MaxTtl] /\ seq \in [Tasks -> Nat]
    /\ got_there \in [Tasks -> Nat] /\ unreachable \in [Tasks -> Nat]
    /\ line \in [Tasks -> Seq(Honest \cup {NoAnswer})]
    /\ rcvbuf \in [Tasks -> Seq(Honest)]
    /\ net \subseteq Sendable
(* The number of the next or last probe tells its place on the line.       *)
Numbered(t) ==
    /\ pc[t] = "send" => Len(line[t]) < NProbes /\ seq[t] = Before(ttl[t]) + Len(line[t])
    /\ pc[t] = "wait" => Len(line[t]) < NProbes /\ seq[t] = Before(ttl[t]) + Len(line[t]) + 1
    /\ pc[t] = "line" => seq[t] = Before(ttl[t] + 1)
(* got_there and unreachable count what is on the line.                    *)
Counted(t) ==
    /\ got_there[t] = Cardinality(On(t, HostCodes))
    /\ unreachable[t] = Cardinality(On(t, Errors))
    /\ pc[t] = "exit" => Stop(t) \/ LastTtl(t)
TraceInv ==
    /\ TraceTypes
    /\ \A t \in Tasks : Numbered(t) /\ Counted(t)

-----------------------------------------------------------------------------
(* The numbers of the probes of one ttl: where those of the next begin.    *)
LEMMA BeforeNext ==
    /\ NProbes \in Nat \ {0} /\ Before(1) = 0
    /\ \A k \in Nat : Before(k) \in Int /\ Before(k + 1) = Before(k) + NProbes
    /\ \A k \in 1 .. MaxTtl : k \in Nat \ {0} /\ Before(k) \in Nat
<1>1. NProbes \in Nat \ {0}
  BY OptionAssumption
<1>2. ASSUME NEW n \in Nat PROVE n * NProbes \in Nat
  BY <1>1
<1>3. ASSUME NEW k \in Nat PROVE Before(k) \in Int /\ Before(k + 1) = Before(k) + NProbes
  BY <1>1 DEF Before
<1>4. ASSUME NEW k \in 1 .. MaxTtl PROVE k \in Nat \ {0} /\ Before(k) \in Nat
  <2>1. MaxTtl \in Nat  BY OptionAssumption
  <2>2. k \in Nat \ {0} /\ k - 1 \in Nat  BY <2>1
  <2>. QED  BY <1>2, <2>2 DEF Before
<1>5. Before(1) = 0
  BY <1>1 DEF Before
<1>. QED  BY <1>1, <1>3, <1>4, <1>5

(* A probe number belongs to one ttl.                                      *)
LEMMA OneTtl ==
    ASSUME NEW k \in Nat, NEW l \in Nat, NEW n \in Int,
           Before(k) < n, n <= Before(k) + NProbes, Before(l) < n, n <= Before(l) + NProbes
    PROVE  k = l
<1>1. ASSUME NEW a \in Nat, NEW b \in Nat, a < b PROVE Before(a) + NProbes <= Before(b)
  <2>1. NProbes \in Nat  BY OptionAssumption
  <2>2. b - 1 - a \in Nat  BY <1>1
  <2>3. (b - 1 - a) * NProbes \in Nat  BY <2>1, <2>2
  <2>4. Before(b) = Before(a) + NProbes + (b - 1 - a) * NProbes
    BY <2>1 DEF Before
  <2>5. Before(a) \in Int
    BY <2>1 DEF Before
  <2>. QED  BY <2>1, <2>3, <2>4, <2>5
<1>2. Before(k) \in Int /\ Before(l) \in Int /\ NProbes \in Nat
  BY BeforeNext
<1>3. ~(k < l)
  BY <1>1, <1>2
<1>4. ~(l < k)
  BY <1>1, <1>2
<1>. QED  BY <1>3, <1>4

(* Two probes of a run never have the same port.                           *)
LEMMA PortsDiffer ==
    ASSUME PortsDistinct, NEW a \in 1 .. MaxTtl * NProbes, NEW b \in 1 .. MaxTtl * NProbes,
           DPort(a) = DPort(b)
    PROVE  a = b
<1>. DEFINE M == PortMod
            x == (Port + a) \div M
            y == (Port + b) \div M
<1>1. M \in Nat \ {0} /\ Port \in Nat /\ MaxTtl * NProbes \in Nat /\ MaxTtl * NProbes <= M
  BY OptionAssumption DEF PortsDistinct
<1>2. /\ x \in Int /\ y \in Int
      /\ Port + a = M * x + ((Port + a) % M) /\ Port + b = M * y + ((Port + b) % M)
  BY <1>1
<1>. HIDE DEF M, x, y
<1>3. a - b = M * (x - y) /\ a - b < M /\ b - a < M
  BY <1>1, <1>2 DEF DPort, M
<1>4. x = y
  BY <1>1, <1>2, <1>3
<1>. QED  BY <1>1, <1>2, <1>3, <1>4

(* The probes of all ttls together are numbered 1 to MaxTtl * NProbes.     *)
LEMMA InRun ==
    ASSUME NEW k \in 1 .. MaxTtl, NEW n \in Int, Before(k) < n, n <= Before(k) + NProbes
    PROVE  n \in 1 .. MaxTtl * NProbes
<1>1. NProbes \in Nat /\ MaxTtl \in Nat /\ Before(k) \in Nat
  BY OptionAssumption, BeforeNext
<1>2. (MaxTtl - k) * NProbes \in Nat
  <2>1. MaxTtl - k \in Nat  BY <1>1
  <2>. QED  BY <1>1, <2>1
<1>3. MaxTtl * NProbes = Before(k) + NProbes + (MaxTtl - k) * NProbes
  BY <1>1 DEF Before
<1>. QED  BY <1>1, <1>2, <1>3

(* packet_ok() accepts the answer to the last probe and nothing else.      *)
LEMMA OwnAnswer ==
    ASSUME PortsDistinct, IdentsDistinct, TraceTypes, NEW t \in Tasks, Numbered(t),
           pc[t] = "wait", NEW r \in Honest, PacketOk(t, r)
    PROVE  r.m.task = t /\ r.m.ttl = ttl[t] /\ r.m.seq = Before(ttl[t]) + Len(line[t]) + 1
<1>. DEFINE m == r.m
<1>1. /\ m \in Sendable /\ Ident(m.task) = Ident(t) /\ DPort(m.seq) = DPort(seq[t])
  BY DEF Honest, PacketOk
<1>2. /\ m.task \in Tasks /\ m.ttl \in 1 .. MaxTtl /\ m.seq \in Nat
      /\ m.seq \in Before(m.ttl) + 1 .. Before(m.ttl) + NProbes
  BY <1>1 DEF Sendable, Probe
<1>3. Len(line[t]) \in Nat /\ ttl[t] \in 1 .. MaxTtl /\ seq[t] \in Nat
  BY DEF TraceTypes
<1>. HIDE DEF m
<1>4. seq[t] = Before(ttl[t]) + Len(line[t]) + 1 /\ Len(line[t]) < NProbes
  BY DEF Numbered
<1>5. /\ \A k \in 1 .. MaxTtl : k \in Nat /\ Before(k) \in Nat
      /\ NProbes \in Nat
  BY BeforeNext
<1>6. /\ Before(ttl[t]) < seq[t] /\ seq[t] <= Before(ttl[t]) + NProbes
      /\ Before(m.ttl) < m.seq /\ m.seq <= Before(m.ttl) + NProbes
  <2>. DEFINE b == Before(ttl[t])
              c == Before(m.ttl)
  <2>1. b \in Nat /\ c \in Nat /\ NProbes \in Nat
    BY <1>2, <1>3, <1>5
  <2>2. seq[t] = b + Len(line[t]) + 1 /\ m.seq \in c + 1 .. c + NProbes
    BY <1>2, <1>4
  <2>. HIDE DEF b, c
  <2>3. b < seq[t] /\ seq[t] <= b + NProbes
    BY <1>3, <1>4, <2>1, <2>2
  <2>4. c < m.seq /\ m.seq <= c + NProbes
    BY <1>2, <2>1, <2>2
  <2>. QED  BY <2>3, <2>4 DEF b, c
<1>7. m.task = t
  BY <1>1, <1>2 DEF IdentsDistinct
<1>8. m.seq = seq[t]
  <2>1. m.seq \in 1 .. MaxTtl * NProbes /\ seq[t] \in 1 .. MaxTtl * NProbes
    BY <1>2, <1>3, <1>6, InRun
  <2>. QED  BY <1>1, <2>1, PortsDiffer
<1>9. m.ttl = ttl[t]
  <2>1. m.ttl \in Nat /\ ttl[t] \in Nat
    BY <1>2, <1>3, <1>5
  <2>2. Before(m.ttl) < seq[t] /\ seq[t] <= Before(m.ttl) + NProbes
    BY <1>6, <1>8
  <2>. QED  BY <1>3, <1>6, <2>1, <2>2, OneTtl
<1>. QED  BY <1>4, <1>7, <1>8, <1>9 DEF m

-----------------------------------------------------------------------------
(* A task whose variables do not change is as it was.                      *)
LEMMA SameTask ==
    ASSUME NEW t, pc'[t] = pc[t], ttl'[t] = ttl[t], seq'[t] = seq[t], line'[t] = line[t],
           got_there'[t] = got_there[t], unreachable'[t] = unreachable[t], Numbered(t), Counted(t)
    PROVE  Numbered(t)' /\ Counted(t)'
BY DEF Numbered, Counted, On, Stop, LastTtl

(* One more answer on the line.                                            *)
LEMMA Appended ==
    ASSUME NEW S, NEW s \in Seq(S), NEW r \in S
    PROVE  /\ Append(s, r) \in Seq(S) /\ Len(Append(s, r)) = Len(s) + 1 /\ Len(s) \in Nat
           /\ DOMAIN s = 1 .. Len(s) /\ DOMAIN Append(s, r) = DOMAIN s \cup {Len(s) + 1}
           /\ Append(s, r)[Len(s) + 1] = r /\ \A i \in DOMAIN s : Append(s, r)[i] = s[i]
OBVIOUS

(* What is on the line after that: one more with a code in K, or as many.  *)
LEMMA OnAppended ==
    ASSUME NEW t \in Tasks, NEW S, line[t] \in Seq(S), NEW r \in S, line'[t] = Append(line[t], r), NEW K
    PROVE  Cardinality(On(t, K)') = Cardinality(On(t, K)) + IF r.kind \in K THEN 1 ELSE 0
<1>. DEFINE n == Len(line[t]) + 1
<1>1. /\ DOMAIN line'[t] = DOMAIN line[t] \cup {n} /\ Len(line[t]) \in Nat /\ DOMAIN line[t] = 1 .. Len(line[t])
      /\ line'[t][n] = r /\ \A i \in DOMAIN line[t] : line'[t][i] = line[t][i]
  BY Appended
<1>2. IsFiniteSet(On(t, K)) /\ n \notin On(t, K) /\ Cardinality(On(t, K)) \in Nat
  <2>1. IsFiniteSet(1 .. Len(line[t]))  BY <1>1, FS_Interval
  <2>2. On(t, K) \subseteq 1 .. Len(line[t])  BY <1>1 DEF On
  <2>3. IsFiniteSet(On(t, K))  BY <2>1, <2>2, FS_Subset
  <2>4. n \notin 1 .. Len(line[t])  BY <1>1
  <2>. QED  BY <2>2, <2>3, <2>4, FS_CardinalityType
<1>. HIDE DEF n
<1>3. CASE r.kind \in K
  <2>1. On(t, K)' = On(t, K) \cup {n}
    BY <1>1, <1>3 DEF On
  <2>2. Cardinality(On(t, K) \cup {n}) = Cardinality(On(t, K)) + 1
    BY <1>2, FS_AddElement
  <2>. QED  BY <1>3, <2>1, <2>2
<1>4. CASE r.kind \notin K
  <2>1. On(t, K)' = On(t, K)
    BY <1>1, <1>4 DEF On
  <2>. QED  BY <1>2, <1>4, <2>1
<1>. QED  BY <1>3, <1>4

(* The count is zero where there is none.                                  *)
LEMMA NoneOn ==
    ASSUME NEW t \in Tasks, NEW S, line[t] \in Seq(S), NEW K
    PROVE  Cardinality(On(t, K)) \in Nat /\ (Cardinality(On(t, K)) = 0 <=> On(t, K) = {})
<1>1. DOMAIN line[t] = 1 .. Len(line[t]) /\ Len(line[t]) \in Nat
  OBVIOUS
<1>2. IsFiniteSet(1 .. Len(line[t]))
  BY <1>1, FS_Interval
<1>3. On(t, K) \subseteq 1 .. Len(line[t])
  BY <1>1 DEF On
<1>4. IsFiniteSet(On(t, K))
  BY <1>2, <1>3, FS_Subset
<1>. QED  BY <1>4, FS_CardinalityType, FS_EmptySet

(* An empty line.                                                          *)
LEMMA EmptyLine == ASSUME NEW t, line[t] = <<>>, NEW K PROVE Cardinality(On(t, K)) = 0
<1>1. On(t, K) = {}  BY DEF On
<1>. QED  BY <1>1, FS_EmptySet

(* A line that did not answer has no code of an answer.                    *)
LEMMA CodesApart ==
    /\ NoAnswer.kind \notin HostCodes /\ NoAnswer.kind \notin Errors
    /\ \A k \in HostCodes \cup Errors : k \notin {"*", "timxceed"}
    /\ HostCodes \cap Errors = {}
BY DEF NoAnswer, HostCodes, Errors

(* The start of a run.                                                     *)
LEMMA TraceStart == Init => TraceInv /\ Attribution
<1>. SUFFICES ASSUME Init PROVE TraceInv /\ Attribution  OBVIOUS
<1>1. TraceTypes
  BY OptionAssumption DEF Init, TraceTypes
<1>2. ASSUME NEW t \in Tasks PROVE Numbered(t) /\ Counted(t)
  <2>1. pc[t] = "send" /\ ttl[t] = 1 /\ seq[t] = 0 /\ line[t] = <<>> /\ got_there[t] = 0 /\ unreachable[t] = 0
    BY DEF Init
  <2>2. Cardinality(On(t, HostCodes)) = 0 /\ Cardinality(On(t, Errors)) = 0
    BY <2>1, EmptyLine
  <2>3. Numbered(t)
    BY <2>1, BeforeNext DEF Numbered
  <2>. QED  BY <2>1, <2>2, <2>3 DEF Counted
<1>3. Attribution
  BY DEF Init, Attribution
<1>. QED  BY <1>1, <1>2, <1>3 DEF TraceInv

-----------------------------------------------------------------------------
(* One step of a task t: what it may change, and what it leaves alone.     *)
OnlyTask(t) ==
    \A u \in Tasks \ {t} :
        /\ pc'[u] = pc[u] /\ ttl'[u] = ttl[u] /\ seq'[u] = seq[u] /\ line'[u] = line[u]
        /\ got_there'[u] = got_there[u] /\ unreachable'[u] = unreachable[u]

(* The invariant after a step of one task.                                 *)
LEMMA TaskStep ==
    ASSUME TraceInv, NEW t \in Tasks, OnlyTask(t), TraceTypes', Numbered(t)', Counted(t)'
    PROVE  TraceInv'
<1>1. ASSUME NEW u \in Tasks, u # t PROVE Numbered(u)' /\ Counted(u)'
  <2>1. Numbered(u) /\ Counted(u)  BY DEF TraceInv
  <2>. QED  BY <1>1, <2>1, SameTask DEF OnlyTask
<1>. QED  BY <1>1 DEF TraceInv

(* send_probe().                                                           *)
LEMMA SendKeeps ==
    ASSUME TraceInv, NEW t \in Tasks, Send(t)
    PROVE  TraceInv' /\ OnlyTask(t) /\ UNCHANGED <<ttl, line>>
<1>0. TraceTypes /\ Numbered(t) /\ Counted(t)
  BY DEF TraceInv
<1>a. /\ pc[t] = "send" /\ seq' = [seq EXCEPT ![t] = @ + 1] /\ pc' = [pc EXCEPT ![t] = "wait"]
      /\ net' \subseteq net \cup {[task |-> t, seq |-> seq'[t], ttl |-> ttl[t]]}
      /\ UNCHANGED <<ttl, got_there, unreachable, line, rcvbuf>>
  BY DEF Send
<1>b. /\ seq'[t] = seq[t] + 1 /\ pc'[t] = "wait" /\ seq' \in [Tasks -> Nat]
      /\ pc' \in [Tasks -> {"send", "wait", "line", "exit"}]
      /\ \A u \in Tasks \ {t} : seq'[u] = seq[u] /\ pc'[u] = pc[u]
  BY <1>0, <1>a DEF TraceTypes
<1>1. /\ Len(line[t]) \in Nat /\ ttl[t] \in 1 .. MaxTtl /\ MaxTtl \in Nat /\ seq[t] \in Nat
  BY <1>0, OptionAssumption DEF TraceTypes
<1>2. seq'[t] = Before(ttl[t]) + Len(line[t]) + 1 /\ Len(line[t]) < NProbes
  BY <1>0, <1>1, <1>a, <1>b, BeforeNext DEF Numbered
<1>3. [task |-> t, seq |-> seq'[t], ttl |-> ttl[t]] \in Sendable
  <2>1. ttl[t] \in Nat \ {0} /\ Before(ttl[t]) \in Nat /\ NProbes \in Nat
    BY <1>1, BeforeNext
  <2>2. seq'[t] \in Nat /\ seq'[t] \in Before(ttl[t]) + 1 .. Before(ttl[t]) + NProbes
    BY <1>1, <1>2, <2>1
  <2>. QED  BY <1>1, <2>1, <2>2 DEF Sendable, Probe
<1>4. TraceTypes'
  <2>1. net' \subseteq Sendable  BY <1>0, <1>a, <1>3 DEF TraceTypes
  <2>. QED  BY <1>0, <1>a, <1>b, <2>1 DEF TraceTypes
<1>5. Numbered(t)'
  BY <1>a, <1>b, <1>2 DEF Numbered
<1>6. Counted(t)'
  BY <1>0, <1>a, <1>b DEF Counted, On
<1>7. OnlyTask(t)
  BY <1>a, <1>b DEF OnlyTask
<1>. QED  BY <1>a, <1>4, <1>5, <1>6, <1>7, TaskStep

(* What NextProbe() does at the end of a reply or a timeout.               *)
LEMMA NextPlace ==
    ASSUME TraceInv, NEW t \in Tasks, pc[t] = "wait", NEW r \in Honest \cup {NoAnswer},
           line' = [line EXCEPT ![t] = Append(@, r)], NextProbe(t), UNCHANGED <<ttl, seq>>
    PROVE  /\ Numbered(t)' /\ pc' \in [Tasks -> {"send", "wait", "line", "exit"}] /\ pc'[t] # "exit"
           /\ line' \in [Tasks -> Seq(Honest \cup {NoAnswer})] /\ line'[t] = Append(line[t], r)
           /\ \A u \in Tasks \ {t} : pc'[u] = pc[u] /\ line'[u] = line[u]
<1>0. TraceTypes /\ Numbered(t)
  BY DEF TraceInv
<1>1. line \in [Tasks -> Seq(Honest \cup {NoAnswer})] /\ pc \in [Tasks -> {"send", "wait", "line", "exit"}]
  BY <1>0 DEF TraceTypes
<1>2. line'[t] = Append(line[t], r) /\ line' \in [Tasks -> Seq(Honest \cup {NoAnswer})]
  BY <1>1, Appended
<1>3. Len(line'[t]) = Len(line[t]) + 1 /\ Len(line[t]) \in Nat
  BY <1>1, <1>2, Appended
<1>4. seq[t] = Before(ttl[t]) + Len(line[t]) + 1 /\ Len(line[t]) < NProbes
  BY <1>0 DEF Numbered
<1>5. /\ Before(ttl[t] + 1) = Before(ttl[t]) + NProbes /\ Before(ttl[t]) \in Int
      /\ NProbes \in Nat
  <2>1. MaxTtl \in Nat /\ ttl[t] \in 1 .. MaxTtl  BY <1>0, OptionAssumption DEF TraceTypes
  <2>2. ttl[t] \in Nat  BY <2>1
  <2>. QED  BY <2>2, BeforeNext
<1>6. pc'[t] = (IF Len(line'[t]) < NProbes THEN "send" ELSE "line")
  BY <1>1 DEF NextProbe
<1>7. CASE Len(line'[t]) < NProbes
  <2>1. pc'[t] = "send" /\ seq'[t] = Before(ttl[t]) + Len(line'[t])
    BY <1>3, <1>4, <1>5, <1>6, <1>7
  <2>. QED  BY <1>1, <1>2, <1>7, <2>1 DEF Numbered, NextProbe
<1>8. CASE ~(Len(line'[t]) < NProbes)
  <2>1. pc'[t] = "line" /\ seq'[t] = Before(ttl[t] + 1)
    BY <1>3, <1>4, <1>5, <1>6, <1>8
  <2>. QED  BY <1>1, <1>2, <2>1 DEF Numbered, NextProbe
<1>. QED  BY <1>7, <1>8

(* The answer to the last probe.                                           *)
LEMMA ReplyKeeps ==
    ASSUME TraceInv, NEW t \in Tasks, Reply(t)
    PROVE  TraceInv' /\ OnlyTask(t)
<1>0. TraceTypes /\ Numbered(t) /\ Counted(t)
  BY DEF TraceInv
<1>. DEFINE r == Head(rcvbuf[t])
            gain == IF r.kind \in HostCodes THEN 1 ELSE 0
            lost == IF r.kind \in Errors THEN 1 ELSE 0
<1>a. /\ pc[t] = "wait" /\ rcvbuf[t] # <<>> /\ line' = [line EXCEPT ![t] = Append(@, r)]
      /\ got_there' = [got_there EXCEPT ![t] = @ + gain]
      /\ unreachable' = [unreachable EXCEPT ![t] = @ + lost]
      /\ rcvbuf' = [rcvbuf EXCEPT ![t] = Tail(@)] /\ NextProbe(t)
      /\ UNCHANGED <<ttl, seq, net>>
  BY DEF Reply
<1>b. r \in Honest /\ rcvbuf' \in [Tasks -> Seq(Honest)]
  <2>1. rcvbuf \in [Tasks -> Seq(Honest)] /\ rcvbuf[t] \in Seq(Honest)
    BY <1>0 DEF TraceTypes
  <2>2. Head(rcvbuf[t]) \in Honest /\ Tail(rcvbuf[t]) \in Seq(Honest)
    BY <1>a, <2>1
  <2>. QED  BY <1>a, <2>1, <2>2
<1>c. gain \in {0, 1} /\ lost \in {0, 1}
  OBVIOUS
<1>. HIDE DEF r, gain, lost
<1>d. /\ got_there' \in [Tasks -> Nat] /\ unreachable' \in [Tasks -> Nat]
      /\ got_there'[t] = got_there[t] + gain /\ unreachable'[t] = unreachable[t] + lost
      /\ got_there[t] \in Nat /\ unreachable[t] \in Nat
      /\ \A u \in Tasks \ {t} : got_there'[u] = got_there[u] /\ unreachable'[u] = unreachable[u]
  <2>1. got_there \in [Tasks -> Nat] /\ unreachable \in [Tasks -> Nat]
    BY <1>0 DEF TraceTypes
  <2>. QED  BY <1>a, <1>c, <2>1
<1>1. /\ Numbered(t)' /\ pc' \in [Tasks -> {"send", "wait", "line", "exit"}] /\ pc'[t] # "exit"
      /\ line' \in [Tasks -> Seq(Honest \cup {NoAnswer})] /\ line'[t] = Append(line[t], r)
      /\ \A u \in Tasks \ {t} : pc'[u] = pc[u] /\ line'[u] = line[u]
  BY <1>a, <1>b, NextPlace
<1>2. TraceTypes'
  BY <1>0, <1>a, <1>b, <1>d, <1>1 DEF TraceTypes
<1>3. /\ Cardinality(On(t, HostCodes)') = Cardinality(On(t, HostCodes)) + gain
      /\ Cardinality(On(t, Errors)') = Cardinality(On(t, Errors)) + lost
  <2>1. line[t] \in Seq(Honest \cup {NoAnswer}) /\ r \in Honest \cup {NoAnswer}
    BY <1>0, <1>b DEF TraceTypes
  <2>. QED  BY <1>1, <2>1, OnAppended DEF gain, lost
<1>4. Counted(t)'
  <2>1. got_there[t] = Cardinality(On(t, HostCodes)) /\ unreachable[t] = Cardinality(On(t, Errors))
    BY <1>0 DEF Counted
  <2>2. /\ got_there'[t] = Cardinality(On(t, HostCodes)')
        /\ unreachable'[t] = Cardinality(On(t, Errors)')
    BY <1>d, <1>3, <2>1
  <2>. QED  BY <1>1, <2>2 DEF Counted
<1>5. OnlyTask(t)
  BY <1>a, <1>d, <1>1 DEF OnlyTask
<1>. QED  BY <1>1, <1>2, <1>4, <1>5, TaskStep

(* select() returns 0.                                                     *)
LEMMA TimeoutKeeps ==
    ASSUME TraceInv, NEW t \in Tasks, Timeout(t)
    PROVE  TraceInv' /\ OnlyTask(t)
<1>0. TraceTypes /\ Numbered(t) /\ Counted(t)
  BY DEF TraceInv
<1>a. /\ pc[t] = "wait" /\ line' = [line EXCEPT ![t] = Append(@, NoAnswer)] /\ NextProbe(t)
      /\ UNCHANGED <<ttl, seq, got_there, unreachable, rcvbuf, net>>
  BY DEF Timeout
<1>1. /\ Numbered(t)' /\ pc' \in [Tasks -> {"send", "wait", "line", "exit"}] /\ pc'[t] # "exit"
      /\ line' \in [Tasks -> Seq(Honest \cup {NoAnswer})] /\ line'[t] = Append(line[t], NoAnswer)
      /\ \A u \in Tasks \ {t} : pc'[u] = pc[u] /\ line'[u] = line[u]
  <2>1. NoAnswer \in Honest \cup {NoAnswer}  OBVIOUS
  <2>. QED  BY <1>a, <2>1, NextPlace
<1>2. TraceTypes'
  BY <1>0, <1>a, <1>1 DEF TraceTypes
<1>3. /\ Cardinality(On(t, HostCodes)') = Cardinality(On(t, HostCodes))
      /\ Cardinality(On(t, Errors)') = Cardinality(On(t, Errors))
  <2>1. line[t] \in Seq(Honest \cup {NoAnswer}) /\ NoAnswer \in Honest \cup {NoAnswer}
    BY <1>0 DEF TraceTypes
  <2>2. Cardinality(On(t, HostCodes)) \in Nat /\ Cardinality(On(t, Errors)) \in Nat
    BY <2>1, NoneOn
  <2>. QED  BY <1>1, <2>1, <2>2, OnAppended, CodesApart
<1>4. Counted(t)'
  BY <1>0, <1>a, <1>1, <1>3 DEF Counted
<1>5. OnlyTask(t)
  BY <1>a, <1>1 DEF OnlyTask
<1>. QED  BY <1>2, <1>1, <1>4, <1>5, TaskStep

(* A message that is not the answer.                                       *)
LEMMA StrayKeeps ==
    ASSUME TraceInv, NEW t \in Tasks, Stray(t)
    PROVE  TraceInv' /\ UNCHANGED <<ttl, line>>
<1>0. TraceTypes
  BY DEF TraceInv
<1>a. /\ rcvbuf[t] # <<>> /\ rcvbuf' = [rcvbuf EXCEPT ![t] = Tail(@)]
      /\ UNCHANGED <<pc, ttl, seq, got_there, unreachable, line, net>>
  BY DEF Stray
<1>1. rcvbuf' \in [Tasks -> Seq(Honest)]
  <2>1. rcvbuf \in [Tasks -> Seq(Honest)] /\ rcvbuf[t] \in Seq(Honest)
    BY <1>0 DEF TraceTypes
  <2>2. Tail(rcvbuf[t]) \in Seq(Honest)
    BY <1>a, <2>1
  <2>. QED  BY <1>a, <2>1, <2>2
<1>2. TraceTypes'
  BY <1>0, <1>a, <1>1 DEF TraceTypes
<1>3. \A u \in Tasks : Numbered(u)' /\ Counted(u)'
  BY <1>a, SameTask DEF TraceInv
<1>. QED  BY <1>a, <1>2, <1>3 DEF TraceInv

(* The end of the body of the ttl loop.                                    *)
LEMMA EndLineKeeps ==
    ASSUME TraceInv, NEW t \in Tasks, EndLine(t)
    PROVE  /\ TraceInv' /\ OnlyTask(t)
           /\ UNCHANGED <<ttl, line>> \/ (~Stop(t) /\ line'[t] = <<>>)
<1>0. TraceTypes /\ Numbered(t) /\ Counted(t)
  BY DEF TraceInv
<1>a. pc[t] = "line" /\ UNCHANGED <<seq, net>>
  BY DEF EndLine
<1>1. CASE Stop(t) \/ LastTtl(t)
  <2>1. /\ pc' = [pc EXCEPT ![t] = "exit"] /\ rcvbuf' = [rcvbuf EXCEPT ![t] = <<>>]
        /\ UNCHANGED <<ttl, line, got_there, unreachable>>
    BY <1>1 DEF EndLine
  <2>2. /\ pc' \in [Tasks -> {"send", "wait", "line", "exit"}] /\ pc'[t] = "exit"
        /\ \A u \in Tasks \ {t} : pc'[u] = pc[u]
    BY <1>0, <2>1 DEF TraceTypes
  <2>3. rcvbuf' \in [Tasks -> Seq(Honest)]
    BY <1>0, <2>1 DEF TraceTypes
  <2>4. TraceTypes'
    BY <1>0, <1>a, <2>1, <2>2, <2>3 DEF TraceTypes
  <2>5. Numbered(t)' /\ Counted(t)'
    BY <1>0, <1>1, <2>1, <2>2 DEF Numbered, Counted, On, Stop, LastTtl
  <2>6. OnlyTask(t)
    BY <1>a, <2>1, <2>2 DEF OnlyTask
  <2>. QED  BY <2>1, <2>4, <2>5, <2>6, TaskStep
<1>2. CASE ~(Stop(t) \/ LastTtl(t))
  <2>1. /\ pc' = [pc EXCEPT ![t] = "send"] /\ ttl' = [ttl EXCEPT ![t] = @ + 1]
        /\ line' = [line EXCEPT ![t] = <<>>] /\ got_there' = [got_there EXCEPT ![t] = 0]
        /\ unreachable' = [unreachable EXCEPT ![t] = 0] /\ UNCHANGED rcvbuf
    BY <1>2 DEF EndLine
  <2>2. /\ pc' \in [Tasks -> {"send", "wait", "line", "exit"}] /\ pc'[t] = "send"
        /\ line' \in [Tasks -> Seq(Honest \cup {NoAnswer})] /\ line'[t] = <<>>
        /\ \A u \in Tasks \ {t} : pc'[u] = pc[u] /\ line'[u] = line[u]
    <3>1. pc' \in [Tasks -> {"send", "wait", "line", "exit"}] /\ pc'[t] = "send"
      <4>1. pc \in [Tasks -> {"send", "wait", "line", "exit"}]
        BY <1>0 DEF TraceTypes
      <4>. QED  BY <2>1, <4>1
    <3>2. line' \in [Tasks -> Seq(Honest \cup {NoAnswer})] /\ line'[t] = <<>>
      <4>. DEFINE S == Seq(Honest \cup {NoAnswer})
      <4>1. line \in [Tasks -> S] /\ <<>> \in S
        BY <1>0 DEF TraceTypes
      <4>. HIDE DEF S
      <4>2. line' \in [Tasks -> S] /\ line'[t] = <<>>
        BY <2>1, <4>1
      <4>. QED  BY <4>2 DEF S
    <3>3. DOMAIN pc = Tasks /\ DOMAIN line = Tasks
      BY <1>0 DEF TraceTypes
    <3>4. \A u \in Tasks \ {t} : pc'[u] = pc[u] /\ line'[u] = line[u]
      BY <2>1, <3>3
    <3>. QED  BY <3>1, <3>2, <3>4
  <2>3. /\ got_there' \in [Tasks -> Nat] /\ got_there'[t] = 0
        /\ unreachable' \in [Tasks -> Nat] /\ unreachable'[t] = 0
        /\ \A u \in Tasks \ {t} : got_there'[u] = got_there[u] /\ unreachable'[u] = unreachable[u]
    BY <1>0, <2>1 DEF TraceTypes
  <2>4. /\ ttl' \in [Tasks -> 1 .. MaxTtl] /\ ttl'[t] = ttl[t] + 1
        /\ \A u \in Tasks \ {t} : ttl'[u] = ttl[u]
    <3>1. ttl \in [Tasks -> 1 .. MaxTtl] /\ MaxTtl \in Nat
      BY <1>0, OptionAssumption DEF TraceTypes
    <3>2. ttl[t] # MaxTtl
      BY <1>2 DEF LastTtl
    <3>. QED  BY <2>1, <3>1, <3>2
  <2>5. TraceTypes'
    BY <1>0, <1>a, <2>1, <2>2, <2>3, <2>4 DEF TraceTypes
  <2>6. Numbered(t)'
    <3>1. seq'[t] = Before(ttl'[t]) /\ Before(ttl'[t]) \in Nat
      BY <1>0, <1>a, <2>4, BeforeNext DEF Numbered, TraceTypes
    <3>2. Len(line'[t]) = 0 /\ 0 < NProbes
      BY <2>2, BeforeNext
    <3>. QED  BY <2>2, <3>1, <3>2 DEF Numbered
  <2>7. Counted(t)'
    <3>1. On(t, HostCodes)' = {} /\ On(t, Errors)' = {}
      BY <2>2 DEF On
    <3>2. Cardinality(On(t, HostCodes)') = 0 /\ Cardinality(On(t, Errors)') = 0
      BY <3>1, FS_EmptySet
    <3>. QED  BY <2>2, <2>3, <3>2 DEF Counted
  <2>8. OnlyTask(t)
    BY <1>a, <2>2, <2>3, <2>4 DEF OnlyTask
  <2>. QED  BY <1>2, <2>2, <2>5, <2>6, <2>7, <2>8, TaskStep
<1>. QED  BY <1>1, <1>2

(* The network answers, or time passes.                                    *)
LEMMA OutsideKeeps ==
    ASSUME TraceInv, (\E m \in net : Answer(m)) \/ Tick \/ UNCHANGED vars
    PROVE  TraceInv' /\ UNCHANGED <<ttl, line>>
<1>0. TraceTypes
  BY DEF TraceInv
<1>1. ASSUME UNCHANGED <<pc, ttl, seq, got_there, unreachable, line>>, TraceTypes'
      PROVE  TraceInv' /\ UNCHANGED <<ttl, line>>
  BY <1>1, SameTask DEF TraceInv
<1>2. ASSUME NEW m \in net, Answer(m) PROVE TraceInv' /\ UNCHANGED <<ttl, line>>
  <2>1. PICK k \in Kinds(m) :
            rcvbuf' = [t \in Tasks |-> IF pc[t] = "exit" THEN rcvbuf[t] ELSE Append(rcvbuf[t],
                         [m |-> m, kind |-> k, sport |-> Ident(m.task), dport |-> DPort(m.seq)])]
    BY <1>2 DEF Answer
  <2>. DEFINE r == [m |-> m, kind |-> k, sport |-> Ident(m.task), dport |-> DPort(m.seq)]
  <2>2. net' \subseteq net /\ UNCHANGED <<pc, ttl, seq, got_there, unreachable, line>>
    BY <1>2 DEF Answer
  <2>3. r \in Honest
    <3>1. m \in Sendable /\ m \in Probe /\ m.task \in Tasks /\ m.seq \in Nat
      BY <1>0 DEF TraceTypes, Sendable, Probe
    <3>2. k \in {"timxceed"} \cup UNION {Unreach[t] : t \in Tasks}
      BY <3>1 DEF Kinds
    <3>3. IdentMod \in Nat \ {0} /\ Pid[m.task] \in Nat /\ PortMod \in Nat \ {0} /\ Port + m.seq \in Nat
      <4>1. Port \in 1 .. PortMod - 1 /\ PortMod \in Nat  BY OptionAssumption
      <4>2. Port \in Nat  BY <4>1
      <4>. QED  BY <3>1, <4>2, OptionAssumption
    <3>4. Ident(m.task) \in Nat /\ DPort(m.seq) \in Nat
      BY <3>3 DEF Ident, DPort
    <3>. QED  BY <3>1, <3>2, <3>4 DEF Honest, ICMP
  <2>. HIDE DEF r
  <2>4. rcvbuf' \in [Tasks -> Seq(Honest)]
    <3>1. rcvbuf' = [t \in Tasks |-> IF pc[t] = "exit" THEN rcvbuf[t] ELSE Append(rcvbuf[t], r)]
      BY <2>1 DEF r
    <3>2. \A t \in Tasks : rcvbuf[t] \in Seq(Honest) /\ Append(rcvbuf[t], r) \in Seq(Honest)
      BY <1>0, <2>3 DEF TraceTypes
    <3>. QED  BY <3>1, <3>2
  <2>. QED  BY <1>0, <1>1, <2>2, <2>4 DEF TraceTypes
<1>3. CASE Tick
  BY <1>0, <1>1, <1>3 DEF Tick, TraceTypes
<1>4. CASE UNCHANGED vars
  BY <1>0, <1>1, <1>4 DEF vars, TraceTypes
<1>. QED  BY <1>2, <1>3, <1>4

(* Every step keeps the invariant.                                         *)
LEMMA TraceStep == TraceInv /\ [Next]_vars => TraceInv'
BY SendKeeps, ReplyKeeps, TimeoutKeeps, StrayKeeps, EndLineKeeps, OutsideKeeps DEF Next, Run

-----------------------------------------------------------------------------
(* What a step does to the line of a task u: nothing, or a fresh line, or  *)
(* one more entry.                                                         *)
LEMMA AttributionStep ==
    ASSUME PortsDistinct, IdentsDistinct, TraceInv, TraceInv', Attribution, [Next]_vars
    PROVE  Attribution'
<1>0. TraceTypes /\ TraceTypes'
  BY DEF TraceInv
<1>. DEFINE Good(t) == \A i \in DOMAIN line[t] : line[t][i] # NoAnswer =>
                /\ line[t][i].m.task = t
                /\ line[t][i].m.ttl = ttl[t]
                /\ line[t][i].m.seq = (ttl[t] - 1) * NProbes + i
<1>1. (\A t \in Tasks : Good(t)) /\ (Attribution' <=> \A t \in Tasks : Good(t)')
  BY DEF Attribution
<1>2. ASSUME NEW t \in Tasks, line'[t] = line[t], ttl'[t] = ttl[t] PROVE Good(t)'
  BY <1>1, <1>2
<1>3. ASSUME NEW t \in Tasks, line'[t] = <<>> PROVE Good(t)'
  BY <1>3
<1>4. ASSUME NEW t \in Tasks, NEW r \in Honest \cup {NoAnswer}, line'[t] = Append(line[t], r), ttl'[t] = ttl[t],
             r # NoAnswer => /\ r.m.task = t /\ r.m.ttl = ttl[t]
                             /\ r.m.seq = (ttl[t] - 1) * NProbes + (Len(line[t]) + 1)
      PROVE  Good(t)'
  <2>1. line[t] \in Seq(Honest \cup {NoAnswer})
    BY <1>0 DEF TraceTypes
  <2>2. /\ DOMAIN line'[t] = DOMAIN line[t] \cup {Len(line[t]) + 1}
        /\ line'[t][Len(line[t]) + 1] = r /\ \A i \in DOMAIN line[t] : line'[t][i] = line[t][i]
    BY <1>4, <2>1, Appended
  <2>. HIDE DEF Good
  <2>3. Good(t)  BY <1>1
  <2>. USE DEF Good
  <2>4. ASSUME NEW i \in DOMAIN line'[t], line'[t][i] # NoAnswer
        PROVE  /\ line'[t][i].m.task = t /\ line'[t][i].m.ttl = ttl'[t]
               /\ line'[t][i].m.seq = (ttl'[t] - 1) * NProbes + i
    <3>1. CASE i \in DOMAIN line[t]
      BY <1>4, <2>2, <2>3, <2>4, <3>1
    <3>2. CASE i = Len(line[t]) + 1
      BY <1>4, <2>2, <2>4, <3>2
    <3>. QED  BY <2>2, <3>1, <3>2
  <2>. QED  BY <2>4
<1>. HIDE DEF Good
<1>5. CASE UNCHANGED <<ttl, line>>
  BY <1>1, <1>2, <1>5
<1>6. ASSUME NEW t \in Tasks, OnlyTask(t), Good(t)' PROVE Attribution'
  BY <1>1, <1>2, <1>6 DEF OnlyTask
<1>7. ASSUME NEW t \in Tasks, Reply(t) PROVE Attribution'
  <2>. DEFINE r == Head(rcvbuf[t])
  <2>1. /\ pc[t] = "wait" /\ rcvbuf[t] # <<>> /\ PacketOk(t, r) /\ UNCHANGED ttl
        /\ line' = [line EXCEPT ![t] = Append(@, r)]
    BY <1>7 DEF Reply
  <2>2. r \in Honest
    <3>1. rcvbuf[t] \in Seq(Honest)  BY <1>0 DEF TraceTypes
    <3>. QED  BY <2>1, <3>1
  <2>. HIDE DEF r
  <2>3. r.m.task = t /\ r.m.ttl = ttl[t] /\ r.m.seq = Before(ttl[t]) + Len(line[t]) + 1
    BY <1>0, <2>1, <2>2, OwnAnswer DEF TraceInv
  <2>4. line'[t] = Append(line[t], r)
    BY <1>0, <2>1 DEF TraceTypes
  <2>5. r.m.seq = (ttl[t] - 1) * NProbes + (Len(line[t]) + 1)
    <3>1. Len(line[t]) \in Nat /\ ttl[t] \in 1 .. MaxTtl
      BY <1>0 DEF TraceTypes
    <3>2. Before(ttl[t]) \in Nat
      BY <3>1, BeforeNext
    <3>. QED  BY <2>3, <3>1, <3>2 DEF Before
  <2>6. Good(t)'
    BY <1>4, <2>1, <2>2, <2>3, <2>4, <2>5
  <2>. QED  BY <1>6, <1>7, <2>6, ReplyKeeps
<1>8. ASSUME NEW t \in Tasks, Timeout(t) PROVE Attribution'
  <2>1. line' = [line EXCEPT ![t] = Append(@, NoAnswer)] /\ UNCHANGED ttl
    BY <1>8 DEF Timeout
  <2>2. line'[t] = Append(line[t], NoAnswer)
    BY <1>0, <2>1 DEF TraceTypes
  <2>3. Good(t)'
    <3>1. NoAnswer \in Honest \cup {NoAnswer}  OBVIOUS
    <3>. QED  BY <1>4, <2>1, <2>2, <3>1
  <2>. QED  BY <1>6, <1>8, <2>3, TimeoutKeeps
<1>9. ASSUME NEW t \in Tasks, EndLine(t) PROVE Attribution'
  BY <1>3, <1>5, <1>6, <1>9, EndLineKeeps
<1>10. ASSUME NEW t \in Tasks, Send(t) \/ Stray(t) PROVE Attribution'
  BY <1>5, <1>10, SendKeeps, StrayKeeps
<1>11. CASE (\E m \in net : Answer(m)) \/ Tick \/ UNCHANGED vars
  BY <1>5, <1>11, OutsideKeeps
<1>. QED  BY <1>7, <1>8, <1>9, <1>10, <1>11 DEF Next, Run

-----------------------------------------------------------------------------
(* The inductive invariant holds in every behaviour.                       *)
THEOREM TraceInvariant == Spec => []TraceInv
<1>. QED  BY TraceStart, TraceStep, PTL DEF Spec

(* What is printed for the i-th probe of a ttl is the answer to that very  *)
(* probe, however late answers come and whoever else traces a route, as    *)
(* long as no port and no ident is used twice.                             *)
THEOREM AnswersAttributed ==
    ASSUME PortsDistinct, IdentsDistinct
    PROVE  Spec => []Attribution
<1>1. TraceInv /\ TraceInv' /\ Attribution /\ [Next]_vars => Attribution'
  BY AttributionStep
<1>. QED  BY <1>1, TraceStart, TraceInvariant, PTL DEF Spec

(* A trace that ends below max_ttl has the answer of the host on its last  *)
(* line, or as many "unreachable"s as there are probes but one, and one at *)
(* least.  With one probe per ttl this is not so: "unreachable >= nprobes  *)
(* - 1" is then always true.                                               *)
THEOREM StopsWithReason ==
    ASSUME NProbes >= 2
    PROVE  Spec => []StopsForReason
<1>1. TraceInv => StopsForReason
  <2>. SUFFICES ASSUME TraceInv, NEW t \in Tasks, pc[t] = "exit", ttl[t] < MaxTtl
                PROVE  \/ On(t, HostCodes) # {}
                       \/ On(t, Errors) # {} /\ Cardinality(On(t, Errors)) >= NProbes - 1
    BY DEF StopsForReason
  <2>1. TraceTypes /\ Counted(t)
    BY DEF TraceInv
  <2>2. Stop(t)
    <3>1. ttl[t] \in 1 .. MaxTtl /\ MaxTtl \in Nat  BY <2>1, OptionAssumption DEF TraceTypes
    <3>. QED  BY <2>1, <3>1 DEF Counted, LastTtl
  <2>3. /\ Cardinality(On(t, HostCodes)) = 0 <=> On(t, HostCodes) = {}
        /\ Cardinality(On(t, Errors)) \in Nat
        /\ Cardinality(On(t, Errors)) = 0 <=> On(t, Errors) = {}
    <3>1. line[t] \in Seq(Honest \cup {NoAnswer})  BY <2>1 DEF TraceTypes
    <3>. QED  BY <3>1, NoneOn
  <2>4. Cardinality(On(t, HostCodes)) > 0 \/ Cardinality(On(t, Errors)) >= NProbes - 1
    BY <2>1, <2>2 DEF Counted, Stop
  <2>5. NProbes \in Nat
    BY BeforeNext
  <2>. QED  BY <2>3, <2>4, <2>5
<1>. QED  BY <1>1, TraceInvariant, PTL

(* The ttl does not grow beyond a line that reached the host, or on which  *)
(* all probes but one at most were told that the host cannot be reached:   *)
(* got_there and unreachable count the answers of this line, and no other. *)
THEOREM HostEndsTrace ==
    ASSUME PortsDistinct, IdentsDistinct
    PROVE  Spec => StopsAtHost
<1>. DEFINE Stays == \A t \in Tasks : ttl'[t] > ttl[t] => NotThere(t)
<1>1. ASSUME TraceInv, Attribution, [Next]_vars PROVE Stays
  <2>. SUFFICES ASSUME NEW t \in Tasks, ttl'[t] > ttl[t]
                PROVE  NotThere(t)
    OBVIOUS
  <2>1. TraceTypes /\ Counted(t) /\ ttl[t] \in Nat
    <3>1. TraceTypes /\ Counted(t)  BY <1>1 DEF TraceInv
    <3>2. MaxTtl \in Nat  BY OptionAssumption
    <3>. QED  BY <3>1, <3>2 DEF TraceTypes
  <2>2. ttl'[t] # ttl[t]
    BY <2>1
  <2>3. PICK u \in Tasks : EndLine(u) \/ Reply(u) \/ Timeout(u) \/ Send(u)
    BY <1>1, <2>2, OutsideKeeps, StrayKeeps DEF Next, Run
  <2>4. EndLine(u)
    BY <1>1, <2>2, <2>3, SendKeeps DEF Reply, Timeout
  <2>5. u = t /\ ~Stop(t)
    BY <1>1, <2>2, <2>4, EndLineKeeps DEF OnlyTask
  <2>6. line[t] \in Seq(Honest \cup {NoAnswer})
    BY <2>1 DEF TraceTypes
  <2>7. On(t, HostCodes) = {} /\ Cardinality(On(t, Errors)) < NProbes - 1
    <3>1. ~(Cardinality(On(t, HostCodes)) > 0) /\ ~(Cardinality(On(t, Errors)) >= NProbes - 1)
      BY <2>1, <2>5 DEF Stop, Counted
    <3>2. Cardinality(On(t, HostCodes)) \in Nat /\ Cardinality(On(t, Errors)) \in Nat /\ NProbes \in Nat
      BY <2>6, NoneOn, BeforeNext
    <3>3. Cardinality(On(t, HostCodes)) = 0 <=> On(t, HostCodes) = {}
      BY <2>6, NoneOn
    <3>. QED  BY <3>1, <3>2, <3>3
  <2>8. ASSUME NEW i \in DOMAIN line[t], line[t][i] # NoAnswer
        PROVE  line[t][i].m.ttl < Dist[t] \/ line[t][i].kind \notin HostCodes \cup {"timxceed"}
    <3>. DEFINE r == line[t][i]
    <3>1. r \in Honest
      BY <2>6, <2>8
    <3>2. r.kind \notin HostCodes /\ r.kind \in Kinds(r.m)
      BY <2>7, <3>1 DEF On, Honest
    <3>3. r.m.task = t
      BY <1>1, <2>8 DEF Attribution
    <3>. HIDE DEF r
    <3>4. r.m.ttl < Dist[t] \/ r.kind \notin HostCodes \cup {"timxceed"}
      BY <1>1, <3>2, <3>3, CodeAssumption DEF Kinds
    <3>. QED  BY <3>4 DEF r
  <2>. QED  BY <2>7, <2>8 DEF NotThere
<1>2. TraceInv /\ Attribution /\ [Next]_vars => [Stays]_vars
  BY <1>1
<1>. QED  BY <1>2, TraceInvariant, AnswersAttributed, PTL DEF Spec, StopsAtHost
=============================================================================
