--------------------------- MODULE NetworkProofs ----------------------------
(***************************************************************************)
(* Proofs about the programs of MCMessages that talk to others: the local  *)
(* connections, the echo requests, the older traceroutes, the pipes and    *)
(* the passing of descriptors, for every value of the constants.           *)
(***************************************************************************)
EXTENDS MCMessages, FiniteSets, SequenceTheorems, FiniteSetTheorems, TLAPS

-----------------------------------------------------------------------------
(* Local connections.  While a client's name is in use, from bind() until  *)
(* it is accepted, the file of that name is the client's own, or it was    *)
(* removed in place of the file of an ended client with the same pid.      *)
Words == N!Refusals \cup N!Judging \cup {"none"}
FileFields == {"user", "made", "private", "time"}
ClientFields == {"pid", "user", "at", "since"}
Waiting(c) == \E k \in 1 .. Len(queue) : queue[k] = c
Done(c) == proc[c].at = "connected" \/ proc[c].at = "dead"
Named(c) == proc[c].at = "chmod" \/ proc[c].at = "connect" \/ Waiting(c) \/ verdict[c] = "accepted"
OwnFile(c) == LET f == names[proc[c].pid] IN
    /\ f.made = c /\ f.user = proc[c].user /\ f.time = proc[c].since
    /\ proc[c].at # "chmod" => f.private
ClientInv(c) ==
    /\ DOMAIN proc[c] = ClientFields /\ proc[c].since \in Int
    /\ proc[c].at # "unborn" => proc[c].pid \in ProcId /\ proc[c].user \in User
    /\ Waiting(c) \/ verdict[c] # "none" => Done(c)
    /\ Waiting(c) => verdict[c] = "none"
    /\ N!Alive(c) /\ Named(c) => \/ OwnFile(c)
                                 \/ names[proc[c].pid] = N!NoFile /\ proc[c].pid \in reused
    /\ verdict[c] \in {"private", "fresh"} /\ N!Alive(c) =>
           statbuf.user = proc[c].user /\ statbuf.time = proc[c].since
    /\ verdict[c] \in User /\ N!Alive(c) => verdict[c] = proc[c].user
    /\ verdict[c] \in N!Refusals /\ N!Alive(c) =>
           proc[c].pid \in reused \/ now > proc[c].since + STALE
ConnInv ==
    /\ now \in Int /\ queue \in Seq(Client)
    /\ names = [p \in ProcId |-> names[p]] /\ \A p \in ProcId : DOMAIN names[p] = FileFields
    /\ proc = [c \in Client |-> proc[c]] /\ verdict = [c \in Client |-> verdict[c]]
    /\ \A c, d \in Client : N!Alive(c) /\ N!Alive(d) /\ proc[c].pid = proc[d].pid => c = d
    /\ \A k, m \in 1 .. Len(queue) : queue[k] = queue[m] => k = m
    /\ \A c, d \in Client : verdict[c] \in N!Judging /\ verdict[d] \in N!Judging => c = d
    /\ \A c \in Client : ClientInv(c)

(* A live client is untouched by a step that leaves its record, its file   *)
(* and what serv_accept() found for it alone.                              *)
LEMMA ClientKept ==
    ASSUME ConnInv, STALE \in Int, NEW c \in Client, proc'[c] = proc[c],
           N!Alive(c) => names'[proc[c].pid] = names[proc[c].pid],
           verdict'[c] = verdict[c], verdict[c] \in {"private", "fresh"} => statbuf' = statbuf,
           Waiting(c)' => Waiting(c), reused \subseteq reused', now' \in Int, now' >= now
    PROVE  ClientInv(c)'
<1>1. ClientInv(c) /\ now \in Int
  BY DEF ConnInv
<1>2. Named(c)' => Named(c)
  BY DEF Named
<1>3. OwnFile(c) /\ N!Alive(c) => OwnFile(c)'
  BY DEF OwnFile
<1>. QED  BY <1>1, <1>2, <1>3 DEF ClientInv, Done, N!Alive

(* A step of one client c, which changes no file of another live client.   *)
LEMMA OneClient ==
    ASSUME ConnInv, STALE \in Int, NEW c \in Client,
           proc' = [proc EXCEPT ![c] = proc'[c]], ClientInv(c)', UNCHANGED <<verdict, statbuf, reused, now>>,
           names' = [p \in ProcId |-> names'[p]], \A p \in ProcId : DOMAIN names'[p] = FileFields,
           \A d \in Client \ {c} : N!Alive(d) => names'[proc[d].pid] = names[proc[d].pid],
           N!Alive(c)' => \A d \in Client \ {c} : N!Alive(d) => proc[d].pid # proc'[c].pid,
           queue' \in Seq(Client), \A k, m \in 1 .. Len(queue') : queue'[k] = queue'[m] => k = m,
           \A d \in Client \ {c} : Waiting(d)' => Waiting(d)
    PROVE  ConnInv'
<1>1. \A d \in Client \ {c} : proc'[d] = proc[d]
  BY DEF ConnInv
<1>2. ASSUME NEW d \in Client \ {c} PROVE ClientInv(d)'
  <2>1. now' \in Int /\ now' >= now /\ verdict'[d] = verdict[d] /\ reused \subseteq reused'
    BY DEF ConnInv
  <2>. QED  BY <1>1, <2>1, ClientKept
<1>3. \A d \in Client : ClientInv(d)'
  BY <1>2
<1>4. proc' = [d \in Client |-> proc'[d]] /\ verdict' = [d \in Client |-> verdict'[d]] /\ now' \in Int
  BY DEF ConnInv
<1>5. \A d, e \in Client : N!Alive(d)' /\ N!Alive(e)' /\ proc'[d].pid = proc'[e].pid => d = e
  BY <1>1 DEF ConnInv, N!Alive
<1>. QED  BY <1>3, <1>4, <1>5 DEF ConnInv

(* What a client that was not accepted yet does is right as far as its     *)
(* file goes.                                                              *)
LEMMA NotJudged ==
    ASSUME ConnInv, \A w \in Words : w \notin User, NEW c \in Client, proc[c].at # "connected", proc[c].at # "dead",
           UNCHANGED verdict, proc'[c].since \in Int, DOMAIN proc'[c] = ClientFields,
           proc'[c].pid \in ProcId, proc'[c].user \in User,
           proc'[c].at # "unborn",
           Waiting(c)' => proc'[c].at = "connected" \/ proc'[c].at = "dead",
           Named(c)' => OwnFile(c)' \/ (names'[proc'[c].pid] = N!NoFile /\ proc'[c].pid \in reused')
    PROVE  ClientInv(c)'
<1>1. ClientInv(c)
  BY DEF ConnInv
<1>2. verdict'[c] = "none"
  BY <1>1 DEF ClientInv, Done
<1>3. verdict'[c] \notin User /\ verdict'[c] \notin N!Refusals /\ verdict'[c] \notin {"private", "fresh"}
  BY <1>2 DEF Words, N!Refusals
<1>. QED  BY <1>2, <1>3 DEF ClientInv, Done

LEMMA StartKept ==
    ASSUME ConnInv, STALE \in Int, \A w \in Words : w \notin User, NEW c \in Client, N!Start(c)
    PROVE  ConnInv'
<1>1. PICK p \in ProcId, u \in User :
          /\ \A d \in Client : N!Alive(d) => proc[d].pid # p
          /\ proc' = [proc EXCEPT ![c] = [@ EXCEPT !.pid = p, !.user = u, !.at = "unlink"]]
  BY DEF N!Start
<1>2. proc[c].at = "unborn" /\ UNCHANGED <<names, server, queue, verdict, statbuf, root, now, reused>>
  BY DEF N!Start
<1>3. proc'[c] = [proc[c] EXCEPT !.pid = p, !.user = u, !.at = "unlink"] /\ proc' = [proc EXCEPT ![c] = proc'[c]]
  BY <1>1 DEF ConnInv
<1>4. ClientInv(c)
  BY DEF ConnInv
<1>5. /\ proc'[c].pid = p /\ proc'[c].user = u /\ proc'[c].at = "unlink" /\ proc'[c].since = proc[c].since
      /\ DOMAIN proc'[c] = ClientFields
  BY <1>3, <1>4 DEF ClientInv, ClientFields
<1>6. ~(Waiting(c) \/ verdict[c] # "none")
  BY <1>2, <1>4 DEF ClientInv, Done
<1>7. \A d : Waiting(d)' <=> Waiting(d)
  BY <1>2 DEF Waiting
<1>8. ~Named(c)'
  BY <1>2, <1>5, <1>6, <1>7 DEF Named
<1>9. ClientInv(c)'
  BY <1>2, <1>4, <1>5, <1>6, <1>7, <1>8, NotJudged DEF ClientInv
<1>. QED
  <2>1. \A k, m \in 1 .. Len(queue') : queue'[k] = queue'[m] => k = m
    BY <1>2 DEF ConnInv
  <2>2. /\ names' = [q \in ProcId |-> names'[q]] /\ \A q \in ProcId : DOMAIN names'[q] = FileFields
        /\ queue' \in Seq(Client)
    BY <1>2 DEF ConnInv
  <2>3. \A d \in Client \ {c} : N!Alive(d) => proc[d].pid # proc'[c].pid /\ names'[proc[d].pid] = names[proc[d].pid]
    BY <1>1, <1>2, <1>5
  <2>. QED  BY <1>2, <1>3, <1>7, <1>9, <2>1, <2>2, <2>3, OneClient

(* A step of a live client, which changes the file of its own pid only.    *)
LEMMA OwnStep ==
    ASSUME ConnInv, STALE \in Int, \A w \in Words : w \notin User, NEW c \in Client, N!Alive(c), proc[c].at # "connected",
           proc' = [proc EXCEPT ![c] = proc'[c]], DOMAIN proc'[c] = ClientFields, proc'[c].since \in Int,
           proc'[c].pid = proc[c].pid, proc'[c].user = proc[c].user, proc'[c].at # "unborn",
           names' = [names EXCEPT ![proc[c].pid] = names'[proc[c].pid]],
           DOMAIN names'[proc[c].pid] = FileFields, UNCHANGED <<queue, verdict, statbuf, reused, now>>,
           proc'[c].at = "chmod" \/ proc'[c].at = "connect" =>
               OwnFile(c)' \/ (names'[proc[c].pid] = N!NoFile /\ proc[c].pid \in reused)
    PROVE  ConnInv'
<1>1. ClientInv(c) /\ proc[c].pid \in ProcId /\ proc[c].user \in User
  BY DEF ConnInv, ClientInv, N!Alive
<1>2. \A d : Waiting(d)' <=> Waiting(d)
  BY DEF Waiting
<1>3. ~Waiting(c) /\ verdict[c] = "none"
  BY <1>1 DEF ClientInv, Done, N!Alive
<1>4. ClientInv(c)'
  BY <1>1, <1>2, <1>3, NotJudged DEF Named, N!Alive
<1>5. names' = [q \in ProcId |-> names'[q]] /\ \A q \in ProcId : DOMAIN names'[q] = FileFields
  BY <1>1 DEF ConnInv
<1>6. \A d \in Client \ {c} : N!Alive(d) => proc[d].pid # proc'[c].pid /\ names'[proc[d].pid] = names[proc[d].pid]
  <2>1. \A d \in Client \ {c} : N!Alive(d) => proc[d].pid # proc[c].pid
    BY DEF ConnInv
  <2>2. \A d \in Client : N!Alive(d) => proc[d].pid \in ProcId
    BY DEF ConnInv, ClientInv, N!Alive
  <2>. QED  BY <2>1, <2>2 DEF ConnInv
<1>7. queue' \in Seq(Client) /\ \A k, m \in 1 .. Len(queue') : queue'[k] = queue'[m] => k = m
  BY DEF ConnInv
<1>. QED  BY <1>2, <1>4, <1>5, <1>6, <1>7, OneClient

LEMMA MovedTo ==
    ASSUME ConnInv, NEW c \in Client, NEW x, proc' = [proc EXCEPT ![c].at = x]
    PROVE  /\ proc' = [proc EXCEPT ![c] = proc'[c]] /\ proc'[c].at = x /\ proc'[c].pid = proc[c].pid
           /\ proc'[c].user = proc[c].user /\ proc'[c].since = proc[c].since /\ DOMAIN proc'[c] = ClientFields
           /\ proc'[c].since \in Int
<1>1. proc'[c] = [proc[c] EXCEPT !.at = x] /\ proc' = [proc EXCEPT ![c] = proc'[c]]
  BY DEF ConnInv
<1>2. DOMAIN proc[c] = ClientFields /\ proc[c].since \in Int
  BY DEF ConnInv, ClientInv
<1>. QED  BY <1>1, <1>2 DEF ClientFields

LEMMA UnlinkKept ==
    ASSUME ConnInv, STALE \in Int, \A w \in Words : w \notin User, NEW c \in Client, N!Unlink(c)
    PROVE  ConnInv'
<1>1. /\ proc[c].at = "unlink" /\ proc' = [proc EXCEPT ![c].at = "bind"]
      /\ UNCHANGED <<server, queue, verdict, statbuf, root, now, reused>>
      /\ names' = [names EXCEPT ![proc[c].pid] = N!NoFile] \/ UNCHANGED names
  BY DEF N!Unlink, N!Moved, N!Named
<1>2. ClientInv(c) /\ proc[c].pid \in ProcId
  BY <1>1 DEF ConnInv, ClientInv
<1>3. /\ proc' = [proc EXCEPT ![c] = proc'[c]] /\ proc'[c].at = "bind" /\ proc'[c].pid = proc[c].pid
      /\ proc'[c].user = proc[c].user /\ proc'[c].since \in Int /\ DOMAIN proc'[c] = ClientFields
  BY <1>1, MovedTo
<1>4. names' = [names EXCEPT ![proc[c].pid] = names'[proc[c].pid]] /\ DOMAIN names'[proc[c].pid] = FileFields
  <2>1. DOMAIN N!NoFile = FileFields
    BY DEF N!NoFile, FileFields
  <2>. HIDE DEF N!NoFile
  <2>. QED  BY <1>1, <1>2, <2>1 DEF ConnInv
<1>. QED  BY <1>1, <1>3, <1>4, OwnStep DEF N!Alive

LEMMA BindKept ==
    ASSUME ConnInv, STALE \in Int, \A w \in Words : w \notin User, NEW c \in Client, N!Bind(c)
    PROVE  ConnInv'
<1>1. proc[c].at = "bind" /\ UNCHANGED <<server, queue, verdict, statbuf, root, now, reused>>
  BY DEF N!Bind
<1>2. ClientInv(c) /\ proc[c].pid \in ProcId /\ now \in Int
  BY <1>1 DEF ConnInv, ClientInv
<1>3. CASE N!Here(proc[c].pid)
  <2>1. proc' = [proc EXCEPT ![c].at = "failed"] /\ UNCHANGED names
    BY <1>3 DEF N!Bind, N!Moved
  <2>2. proc' = [proc EXCEPT ![c] = proc'[c]] /\ proc'[c].since \in Int
    BY <2>1, MovedTo
  <2>3. /\ proc'[c].at = "failed" /\ proc'[c].pid = proc[c].pid
        /\ proc'[c].user = proc[c].user /\ proc'[c].since = proc[c].since /\ DOMAIN proc'[c] = ClientFields
    BY <2>1, MovedTo
  <2>4. names' = [names EXCEPT ![proc[c].pid] = names'[proc[c].pid]] /\ DOMAIN names'[proc[c].pid] = FileFields
    BY <1>2, <2>1 DEF ConnInv
  <2>. QED  BY <1>1, <2>2, <2>3, <2>4, OwnStep DEF N!Alive
<1>4. CASE ~N!Here(proc[c].pid)
  <2>. DEFINE file == [user |-> proc[c].user, made |-> c, private |-> FALSE, time |-> now]
  <2>1. /\ names' = [names EXCEPT ![proc[c].pid] = file]
        /\ proc' = [proc EXCEPT ![c].at = "chmod", ![c].since = now]
    BY <1>4 DEF N!Bind, N!Named, N!AfterBind
  <2>2. proc'[c] = [proc[c] EXCEPT !.at = "chmod", !.since = now] /\ proc' = [proc EXCEPT ![c] = proc'[c]]
    BY <2>1 DEF ConnInv
  <2>3. /\ proc'[c].at = "chmod" /\ proc'[c].pid = proc[c].pid
        /\ proc'[c].user = proc[c].user /\ proc'[c].since = now /\ DOMAIN proc'[c] = ClientFields
    BY <1>2, <2>2 DEF ClientInv, ClientFields
  <2>4. file.user = proc[c].user /\ file.made = c /\ file.time = now /\ DOMAIN file = FileFields
    BY DEF FileFields
  <2>. HIDE DEF file
  <2>5. /\ names' = [names EXCEPT ![proc[c].pid] = names'[proc[c].pid]] /\ DOMAIN names'[proc[c].pid] = FileFields
        /\ names'[proc[c].pid] = file
    BY <1>2, <2>1, <2>4 DEF ConnInv
  <2>6. OwnFile(c)'
    BY <2>3, <2>4, <2>5 DEF OwnFile
  <2>. QED  BY <1>1, <1>2, <2>2, <2>3, <2>5, <2>6, OwnStep DEF N!Alive
<1>. QED  BY <1>3, <1>4

(* chmod() finds the client's own file, or it is gone and the client gives *)
(* up.                                                                     *)
LEMMA ChmodKept ==
    ASSUME ConnInv, STALE \in Int, \A w \in Words : w \notin User, NEW c \in Client, N!Chmod(c)
    PROVE  ConnInv'
<1>1. proc[c].at = "chmod" /\ UNCHANGED <<server, queue, verdict, statbuf, root, now, reused>>
  BY DEF N!Chmod
<1>2. ClientInv(c) /\ proc[c].pid \in ProcId
  BY <1>1 DEF ConnInv, ClientInv
<1>3. CASE N!Here(proc[c].pid) /\ names[proc[c].pid].user = proc[c].user
  <2>1. /\ names' = [names EXCEPT ![proc[c].pid] = [names[proc[c].pid] EXCEPT !.private = TRUE]]
        /\ proc' = [proc EXCEPT ![c].at = "connect"]
    BY <1>3 DEF N!Chmod, N!Named
  <2>2. proc' = [proc EXCEPT ![c] = proc'[c]] /\ proc'[c].since \in Int
    BY <2>1, MovedTo
  <2>3. /\ proc'[c].at = "connect" /\ proc'[c].pid = proc[c].pid
        /\ proc'[c].user = proc[c].user /\ proc'[c].since = proc[c].since /\ DOMAIN proc'[c] = ClientFields
    BY <2>1, MovedTo
  <2>. DEFINE f == names[proc[c].pid]   yes == TRUE   g == [f EXCEPT !.private = yes]
  <2>4. names' = [names EXCEPT ![proc[c].pid] = g]
    BY <2>1, Zenon
  <2>5. DOMAIN f = FileFields
    BY <1>2 DEF ConnInv
  <2>. HIDE DEF yes, f
  <2>6. g.user = f.user /\ g.made = f.made /\ g.time = f.time /\ g.private = yes /\ DOMAIN g = FileFields
    BY <2>5 DEF FileFields
  <2>. HIDE DEF g
  <2>7. names' = [names EXCEPT ![proc[c].pid] = names'[proc[c].pid]] /\ names'[proc[c].pid] = g
    BY <1>2, <2>4 DEF ConnInv
  <2>8. OwnFile(c)
    BY <1>1, <1>2, <1>3 DEF ClientInv, N!Alive, Named, N!Here
  <2>9. f.made = c /\ f.user = proc[c].user /\ f.time = proc[c].since
    BY <2>8 DEF OwnFile, f
  <2>10. g.private
    BY <2>6, Zenon DEF yes
  <2>11. OwnFile(c)'
    <3>1. g.made = c /\ g.user = proc'[c].user /\ g.time = proc'[c].since
      BY <2>3, <2>6, <2>9
    <3>. QED  BY <2>3, <2>7, <2>10, <3>1 DEF OwnFile
  <2>. QED  BY <1>1, <2>2, <2>3, <2>6, <2>7, <2>11, OwnStep DEF N!Alive
<1>4. CASE ~(N!Here(proc[c].pid) /\ names[proc[c].pid].user = proc[c].user)
  <2>1. proc' = [proc EXCEPT ![c].at = "errout"] /\ UNCHANGED names
    BY <1>4 DEF N!Chmod, N!Moved
  <2>2. proc' = [proc EXCEPT ![c] = proc'[c]] /\ proc'[c].since \in Int
    BY <2>1, MovedTo
  <2>3. /\ proc'[c].at = "errout" /\ proc'[c].pid = proc[c].pid
        /\ proc'[c].user = proc[c].user /\ proc'[c].since = proc[c].since /\ DOMAIN proc'[c] = ClientFields
    BY <2>1, MovedTo
  <2>4. names' = [names EXCEPT ![proc[c].pid] = names'[proc[c].pid]] /\ DOMAIN names'[proc[c].pid] = FileFields
    BY <1>2, <2>1 DEF ConnInv
  <2>. QED  BY <1>1, <2>2, <2>3, <2>4, OwnStep DEF N!Alive
<1>. QED  BY <1>3, <1>4

LEMMA ErroutKept ==
    ASSUME ConnInv, STALE \in Int, \A w \in Words : w \notin User, NEW c \in Client, N!Errout(c)
    PROVE  ConnInv'
<1>1. /\ proc[c].at = "errout" /\ proc' = [proc EXCEPT ![c].at = "failed"]
      /\ UNCHANGED <<server, queue, verdict, statbuf, root, now, reused>>
      /\ names' = [names EXCEPT ![proc[c].pid] = N!NoFile] \/ UNCHANGED names
  BY DEF N!Errout, N!Moved, N!Named
<1>2. proc[c].pid \in ProcId
  BY <1>1 DEF ConnInv, ClientInv
<1>3. /\ proc' = [proc EXCEPT ![c] = proc'[c]] /\ proc'[c].at = "failed" /\ proc'[c].pid = proc[c].pid
      /\ proc'[c].user = proc[c].user /\ proc'[c].since \in Int /\ DOMAIN proc'[c] = ClientFields
  BY <1>1, MovedTo
<1>4. names' = [names EXCEPT ![proc[c].pid] = names'[proc[c].pid]] /\ DOMAIN names'[proc[c].pid] = FileFields
  <2>1. DOMAIN N!NoFile = FileFields
    BY DEF N!NoFile, FileFields
  <2>. HIDE DEF N!NoFile
  <2>. QED  BY <1>1, <1>2, <2>1 DEF ConnInv
<1>. QED  BY <1>1, <1>3, <1>4, OwnStep DEF N!Alive

(* connect() puts the client into the queue, once.                         *)
LEMMA ConnectKept ==
    ASSUME ConnInv, STALE \in Int, \A w \in Words : w \notin User, NEW c \in Client, N!Connect(c)
    PROVE  ConnInv'
<1>1. proc[c].at = "connect" /\ UNCHANGED <<names, server, verdict, statbuf, root, now, reused>>
  BY DEF N!Connect
<1>2. ClientInv(c) /\ proc[c].pid \in ProcId
  BY <1>1 DEF ConnInv, ClientInv
<1>3. CASE proc' = [proc EXCEPT ![c].at = "errout"] /\ UNCHANGED queue
  <2>1. proc' = [proc EXCEPT ![c] = proc'[c]] /\ proc'[c].since \in Int
    BY <1>3, MovedTo
  <2>2. /\ proc'[c].at = "errout" /\ proc'[c].pid = proc[c].pid
        /\ proc'[c].user = proc[c].user /\ DOMAIN proc'[c] = ClientFields
    BY <1>3, MovedTo
  <2>3. names' = [names EXCEPT ![proc[c].pid] = names'[proc[c].pid]] /\ DOMAIN names'[proc[c].pid] = FileFields
    BY <1>1, <1>2 DEF ConnInv
  <2>. QED  BY <1>1, <1>3, <2>1, <2>2, <2>3, OwnStep DEF N!Alive
<1>4. CASE proc' = [proc EXCEPT ![c].at = "connected"] /\ queue' = Append(queue, c)
  <2>1. proc' = [proc EXCEPT ![c] = proc'[c]] /\ proc'[c].since \in Int /\ proc'[c].since = proc[c].since
    BY <1>4, MovedTo
  <2>2. /\ proc'[c].at = "connected" /\ proc'[c].pid = proc[c].pid
        /\ proc'[c].user = proc[c].user /\ DOMAIN proc'[c] = ClientFields
    BY <1>4, MovedTo
  <2>3. /\ queue' \in Seq(Client) /\ Len(queue') = Len(queue) + 1 /\ queue'[Len(queue) + 1] = c
        /\ \A k \in 1 .. Len(queue) : queue'[k] = queue[k]
        /\ Len(queue) \in Nat
    BY <1>4 DEF ConnInv
  <2>4. ~Waiting(c)
    BY <1>1, <1>2 DEF ClientInv, Done
  <2>5. \A d \in Client \ {c} : Waiting(d)' => Waiting(d)
    BY <2>3 DEF Waiting
  <2>6. \A k, m \in 1 .. Len(queue') : queue'[k] = queue'[m] => k = m
    <3>1. \A k \in 1 .. Len(queue) : queue[k] # c
      BY <2>4 DEF Waiting
    <3>. QED  BY <2>3, <3>1 DEF ConnInv
  <2>7. OwnFile(c)' \/ (names'[proc'[c].pid] = N!NoFile /\ proc'[c].pid \in reused')
    <3>1. OwnFile(c) \/ (names[proc[c].pid] = N!NoFile /\ proc[c].pid \in reused)
      BY <1>1, <1>2 DEF ClientInv, N!Alive, Named
    <3>2. OwnFile(c) => OwnFile(c)'
      BY <1>1, <2>1, <2>2 DEF OwnFile
    <3>. QED  BY <1>1, <2>2, <3>1, <3>2
  <2>8. ClientInv(c)'
    BY <1>1, <1>2, <2>1, <2>2, <2>7, NotJudged DEF ClientInv
  <2>9. \A d \in Client \ {c} : N!Alive(d) => proc[d].pid # proc'[c].pid /\ names'[proc[d].pid] = names[proc[d].pid]
    BY <1>1, <2>2 DEF ConnInv, N!Alive
  <2>10. names' = [q \in ProcId |-> names'[q]] /\ \A q \in ProcId : DOMAIN names'[q] = FileFields
    BY <1>1 DEF ConnInv
  <2>. QED  BY <1>1, <2>1, <2>3, <2>5, <2>6, <2>8, <2>9, <2>10, OneClient
<1>. QED  BY <1>3, <1>4 DEF N!Connect, N!Moved

LEMMA DieKept ==
    ASSUME ConnInv, STALE \in Int, NEW c \in Client, N!Die(c)
    PROVE  ConnInv'
<1>1. /\ proc' = [proc EXCEPT ![c].at = "dead"] /\ UNCHANGED <<names, server, queue, verdict, statbuf, root, now, reused>>
      /\ N!Alive(c)
  BY DEF N!Die, N!Moved
<1>2. /\ proc' = [proc EXCEPT ![c] = proc'[c]] /\ proc'[c].since \in Int /\ proc'[c].at = "dead"
      /\ proc'[c].pid = proc[c].pid /\ proc'[c].user = proc[c].user /\ DOMAIN proc'[c] = ClientFields
  BY <1>1, MovedTo
<1>3. ClientInv(c)
  BY DEF ConnInv
<1>4. /\ names' = [q \in ProcId |-> names'[q]] /\ \A q \in ProcId : DOMAIN names'[q] = FileFields
      /\ queue' \in Seq(Client) /\ \A k, m \in 1 .. Len(queue') : queue'[k] = queue'[m] => k = m
      /\ \A d : Waiting(d)' => Waiting(d)
  BY <1>1 DEF ConnInv, Waiting
<1>5. ClientInv(c)' /\ ~N!Alive(c)'
  BY <1>1, <1>2, <1>3, <1>4 DEF ClientInv, N!Alive, Done
<1>. QED  BY <1>1, <1>2, <1>4, <1>5, OneClient

(* The server and the clock leave the clients alone.                       *)
LEMMA ServerKept ==
    ASSUME ConnInv, STALE \in Int, UNCHANGED <<names, proc, verdict, statbuf, reused>>,
           queue' = queue \/ queue' = << >>, now' = now \/ now' = now + 1
    PROVE  ConnInv'
<1>1. now' \in Int /\ now' >= now /\ queue' \in Seq(Client)
  <2>1. now \in Int /\ queue \in Seq(Client) /\ << >> \in Seq(Client)
    BY DEF ConnInv
  <2>2. queue' \in Seq(Client)
    BY <2>1, Zenon
  <2>3. now' \in Int /\ now' >= now
    BY <2>1
  <2>. QED  BY <2>2, <2>3
<1>2. \A d : Waiting(d)' => Waiting(d)
  BY DEF Waiting
<1>3. \A d \in Client : ClientInv(d)'
  BY <1>1, <1>2, ClientKept
<1>4. \A k, m \in 1 .. Len(queue') : queue'[k] = queue'[m] => k = m
  BY DEF ConnInv
<1>. QED  BY <1>1, <1>3, <1>4 DEF ConnInv, N!Alive

(* A step of serv_accept() for client c: no other client is being judged,  *)
(* and a name that is removed was of c, or its pid counts as reused.       *)
LEMMA OneVerdict ==
    ASSUME ConnInv, STALE \in Int, NEW c \in Client, UNCHANGED <<proc, now>>,
           verdict' = [verdict EXCEPT ![c] = verdict'[c]], ClientInv(c)', reused \subseteq reused',
           \A d \in Client \ {c} : verdict[d] \notin N!Judging,
           queue' \in Seq(Client), \A k, m \in 1 .. Len(queue') : queue'[k] = queue'[m] => k = m,
           \A d \in Client \ {c} : Waiting(d)' => Waiting(d),
           names' = [q \in ProcId |-> names'[q]], \A q \in ProcId : DOMAIN names'[q] = FileFields,
           \A d \in Client \ {c} : N!Alive(d) /\ Named(d) =>
               \/ names'[proc[d].pid] = names[proc[d].pid]
               \/ names'[proc[d].pid] = N!NoFile /\ proc[d].pid \in reused'
    PROVE  ConnInv'
<1>1. verdict' = [d \in Client |-> verdict'[d]] /\ \A d \in Client \ {c} : verdict'[d] = verdict[d]
  BY DEF ConnInv
<1>2. ASSUME NEW d \in Client \ {c} PROVE ClientInv(d)'
  <2>1. /\ ClientInv(d) /\ proc'[d] = proc[d] /\ verdict'[d] = verdict[d] /\ now' = now
        /\ verdict[d] \notin {"accepted", "private", "fresh"} /\ (Waiting(d)' => Waiting(d))
    BY <1>1 DEF ConnInv, N!Judging
  <2>2. Named(d)' => Named(d)
    BY <2>1 DEF Named
  <2>3. OwnFile(d) /\ names'[proc[d].pid] = names[proc[d].pid] => OwnFile(d)'
    BY <2>1 DEF OwnFile
  <2>4. N!Alive(d) /\ Named(d)' => OwnFile(d)' \/ (names'[proc[d].pid] = N!NoFile /\ proc[d].pid \in reused')
    BY <2>1, <2>2, <2>3 DEF ClientInv
  <2>. QED  BY <2>1, <2>4 DEF ClientInv, Done, N!Alive
<1>3. \A d \in Client : ClientInv(d)'
  BY <1>2
<1>4. \A d, e \in Client : verdict'[d] \in N!Judging /\ verdict'[e] \in N!Judging => d = e
  BY <1>1
<1>5. now' \in Int /\ proc' = [d \in Client |-> proc'[d]]
  BY DEF ConnInv
<1>6. \A d, e \in Client : N!Alive(d)' /\ N!Alive(e)' /\ proc'[d].pid = proc'[e].pid => d = e
  BY DEF ConnInv, N!Alive
<1>. QED  BY <1>1, <1>3, <1>4, <1>5, <1>6 DEF ConnInv

(* The queue without its head.                                             *)
LEMMA HeadAccepted ==
    ASSUME ConnInv, STALE \in Int, \A w \in Words : w \notin User, N!ServAccept, NEW c \in Client, c = Head(queue)
    PROVE  ConnInv'
<1>1. /\ queue # << >> /\ queue' = Tail(queue) /\ verdict' = [verdict EXCEPT ![c] = "accepted"]
      /\ UNCHANGED <<names, proc, server, statbuf, root, now, reused>>
      /\ \A d \in Client : verdict[d] \notin N!Judging
  BY DEF N!ServAccept, N!Found
<1>2. /\ queue' \in Seq(Client) /\ Len(queue') = Len(queue) - 1 /\ Len(queue) \in Nat \ {0}
      /\ c = queue[1] /\ \A k \in 1 .. Len(queue) - 1 : queue'[k] = queue[k + 1]
  BY <1>1, HeadTailProperties DEF ConnInv
<1>3. ASSUME NEW d, Waiting(d)' PROVE Waiting(d)
  <2>1. PICK k \in 1 .. Len(queue') : queue'[k] = d
    BY <1>3 DEF Waiting
  <2>2. k + 1 \in 1 .. Len(queue) /\ queue[k + 1] = d
    BY <1>2, <2>1
  <2>. QED  BY <2>2 DEF Waiting
<1>4. Waiting(c) /\ ~Waiting(c)'
  <2>1. Waiting(c)
    BY <1>2 DEF Waiting
  <2>2. ASSUME NEW k \in 1 .. Len(queue'), queue'[k] = c PROVE FALSE
    <3>1. k + 1 \in 1 .. Len(queue) /\ 1 \in 1 .. Len(queue) /\ queue[k + 1] = queue[1]
      BY <1>2, <2>2
    <3>. QED  BY <1>2, <3>1 DEF ConnInv
  <2>3. ~Waiting(c)'
    BY <2>2 DEF Waiting
  <2>. QED  BY <2>1, <2>3
<1>5. verdict' = [verdict EXCEPT ![c] = verdict'[c]] /\ verdict'[c] = "accepted"
  BY <1>1 DEF ConnInv
<1>6. ClientInv(c)'
  <2>1. ClientInv(c) /\ Done(c) /\ Named(c)
    BY <1>4 DEF ConnInv, ClientInv, Named
  <2>2. verdict'[c] \notin User /\ verdict'[c] \notin N!Refusals /\ verdict'[c] \notin {"private", "fresh"}
    BY <1>5 DEF Words, N!Refusals, N!Judging
  <2>3. OwnFile(c) => OwnFile(c)'
    BY <1>1 DEF OwnFile
  <2>. QED  BY <1>1, <1>4, <2>1, <2>2, <2>3 DEF ClientInv, Done, N!Alive
<1>7. \A k, m \in 1 .. Len(queue') : queue'[k] = queue'[m] => k = m
  <2>. SUFFICES ASSUME NEW k \in 1 .. Len(queue'), NEW m \in 1 .. Len(queue'), queue'[k] = queue'[m]
                PROVE  k = m
    OBVIOUS
  <2>1. k + 1 \in 1 .. Len(queue) /\ m + 1 \in 1 .. Len(queue) /\ queue[k + 1] = queue[m + 1]
    BY <1>2
  <2>2. k + 1 = m + 1
    BY <2>1 DEF ConnInv
  <2>. QED  BY <1>2, <2>2
<1>8. names' = [q \in ProcId |-> names'[q]] /\ \A q \in ProcId : DOMAIN names'[q] = FileFields
  BY <1>1 DEF ConnInv
<1>. QED  BY <1>1, <1>2, <1>3, <1>5, <1>6, <1>7, <1>8, OneVerdict

LEMMA AcceptKept ==
    ASSUME ConnInv, STALE \in Int, \A w \in Words : w \notin User, N!ServAccept
    PROVE  ConnInv'
<1>1. queue # << >> /\ queue \in Seq(Client)
  BY DEF N!ServAccept, ConnInv
<1>2. Head(queue) \in Client
  BY <1>1, HeadTailProperties
<1>. QED  BY <1>2, HeadAccepted

(* stat() and time() leave the names alone.                                *)
LEMMA LookKept ==
    ASSUME ConnInv, STALE \in Int, \A w \in Words : w \notin User, NEW c \in Client, N!ServStat(c) \/ N!ServTime(c)
    PROVE  ConnInv'
<1>. DEFINE f == names[proc[c].pid]
<1>1. ClientInv(c) /\ now \in Int /\ Done(c) /\ verdict[c] \in {"accepted", "private"}
  BY DEF ConnInv, ClientInv, N!ServStat, N!ServTime
<1>2. UNCHANGED <<names, proc, server, queue, root, now, reused>>
  BY DEF N!ServStat, N!ServTime
<1>3. verdict' = [verdict EXCEPT ![c] = verdict'[c]]
  BY DEF ConnInv, N!ServStat, N!ServTime, N!Found
<1>4. N!Alive(c) => proc[c].at = "connected" /\ proc[c].since \in Int
  BY <1>1 DEF ClientInv, Done, N!Alive
<1>5. /\ N!Alive(c) /\ verdict'[c] \in {"private", "fresh"} =>
             statbuf'.user = proc[c].user /\ statbuf'.time = proc[c].since
      /\ N!Alive(c) /\ verdict'[c] \in N!Refusals => proc[c].pid \in reused \/ now > proc[c].since + STALE
      /\ verdict'[c] \in N!Refusals \cup {"private", "fresh"}
  <2>1. CASE N!ServStat(c) /\ f.private
    <3>1. verdict'[c] = "private" /\ statbuf' = f /\ verdict[c] = "accepted"
      BY <2>1 DEF N!ServStat, N!Found, ConnInv
    <3>2. f # N!NoFile
      BY <2>1 DEF N!NoFile
    <3>3. N!Alive(c) => OwnFile(c)
      BY <1>1, <3>1, <3>2 DEF ClientInv, Named
    <3>. QED  BY <3>1, <3>3 DEF OwnFile, N!Refusals
  <2>2. CASE N!ServStat(c) /\ ~f.private
    <3>1. verdict'[c] \in N!Refusals /\ verdict'[c] \notin {"private", "fresh"} /\ verdict[c] = "accepted"
      BY <2>2 DEF N!ServStat, N!Found, ConnInv, N!Refusals
    <3>2. N!Alive(c) => ~OwnFile(c)
      BY <1>4, <2>2 DEF OwnFile
    <3>3. N!Alive(c) => proc[c].pid \in reused
      BY <1>1, <3>1, <3>2 DEF ClientInv, Named
    <3>. QED  BY <3>1, <3>3
  <2>3. CASE N!ServTime(c)
    <3>1. /\ verdict[c] = "private" /\ statbuf' = statbuf
          /\ verdict'[c] = IF statbuf.time < now - STALE THEN "too old" ELSE "fresh"
      BY <2>3 DEF N!ServTime, N!Found, ConnInv
    <3>2. N!Alive(c) => statbuf.user = proc[c].user /\ statbuf.time = proc[c].since
      BY <1>1, <3>1 DEF ClientInv
    <3>3. N!Alive(c) /\ statbuf.time < now - STALE => now > proc[c].since + STALE
      BY <1>1, <1>4, <3>2
    <3>. QED  BY <3>1, <3>2, <3>3 DEF N!Refusals
  <2>. QED  BY <2>1, <2>2, <2>3
<1>6. ClientInv(c)'
  <2>1. verdict'[c] \notin User /\ verdict'[c] \notin {"accepted"}
    BY <1>5 DEF Words, N!Refusals, N!Judging
  <2>2. \A d : Waiting(d)' <=> Waiting(d)
    BY <1>2 DEF Waiting
  <2>3. Named(c)' => Named(c)
    BY <1>2, <2>1, <2>2 DEF Named
  <2>4. OwnFile(c) => OwnFile(c)'
    BY <1>2 DEF OwnFile
  <2>. QED  BY <1>1, <1>2, <1>5, <2>1, <2>2, <2>3, <2>4 DEF ClientInv, Done, N!Alive
<1>7. \A d \in Client \ {c} : verdict[d] \notin N!Judging
  BY <1>1 DEF ConnInv, N!Judging
<1>8. /\ names' = [q \in ProcId |-> names'[q]] /\ \A q \in ProcId : DOMAIN names'[q] = FileFields
      /\ queue' \in Seq(Client) /\ \A k, m \in 1 .. Len(queue') : queue'[k] = queue'[m] => k = m
      /\ \A d : Waiting(d)' => Waiting(d)
  BY <1>2 DEF ConnInv, Waiting
<1>. QED  BY <1>2, <1>3, <1>6, <1>7, <1>8, OneVerdict

(* The name that is removed may be the one of a live client with the same  *)
(* pid, which then counts as reused.                                       *)
LEMMA UnlinkNameKept ==
    ASSUME ConnInv, STALE \in Int, \A w \in Words : w \notin User, NEW c \in Client, N!ServUnlink(c)
    PROVE  ConnInv'
<1>. DEFINE p == proc[c].pid   f == names[p]
<1>1. /\ verdict[c] = "fresh" /\ verdict' = [verdict EXCEPT ![c] = statbuf.user]
      /\ UNCHANGED <<proc, server, queue, root, now>>
      /\ \/ /\ names' = [names EXCEPT ![p] = N!NoFile]
            /\ reused' = IF f.made # c THEN reused \cup {p} ELSE reused
         \/ UNCHANGED <<names, reused>>
  BY DEF N!ServUnlink, N!Named, N!Found
<1>2. ClientInv(c) /\ Done(c) /\ p \in ProcId
  BY <1>1 DEF ConnInv, ClientInv, Done
<1>3. verdict' = [verdict EXCEPT ![c] = verdict'[c]] /\ verdict'[c] = statbuf.user
  BY <1>1 DEF ConnInv
<1>4. reused \subseteq reused'
  BY <1>1
<1>5. /\ names' = [q \in ProcId |-> names'[q]] /\ \A q \in ProcId : DOMAIN names'[q] = FileFields
      /\ \A q \in ProcId \ {p} : names'[q] = names[q]
      /\ names'[p] = names[p] \/ (names'[p] = N!NoFile /\ (f.made # c => p \in reused'))
  <2>1. DOMAIN N!NoFile = FileFields
    BY DEF N!NoFile, FileFields
  <2>. HIDE DEF N!NoFile
  <2>. QED  BY <1>1, <1>2, <2>1 DEF ConnInv
<1>6. ASSUME NEW d \in Client \ {c}, N!Alive(d), Named(d)
      PROVE  \/ names'[proc[d].pid] = names[proc[d].pid]
             \/ names'[proc[d].pid] = N!NoFile /\ proc[d].pid \in reused'
  <2>1. ClientInv(d) /\ proc[d].pid \in ProcId
    BY <1>6 DEF ConnInv, ClientInv, N!Alive
  <2>2. CASE proc[d].pid # p
    BY <1>5, <2>1, <2>2
  <2>3. CASE proc[d].pid = p /\ OwnFile(d)
    <3>1. f.made # c
      BY <1>6, <2>3 DEF OwnFile
    <3>. QED  BY <1>5, <2>3, <3>1
  <2>4. CASE proc[d].pid = p /\ ~OwnFile(d)
    <3>1. names[p] = N!NoFile /\ p \in reused
      BY <1>6, <2>1, <2>4 DEF ClientInv
    <3>. QED  BY <1>4, <1>5, <2>4, <3>1
  <2>. QED  BY <2>2, <2>3, <2>4
<1>7. \A d : Waiting(d)' <=> Waiting(d)
  BY <1>1 DEF Waiting
<1>8. ClientInv(c)'
  <2>1. N!Alive(c) => verdict'[c] = proc[c].user /\ proc[c].user \in User
    BY <1>1, <1>2, <1>3 DEF ClientInv, N!Alive
  <2>2. N!Alive(c) => verdict'[c] \notin Words
    BY <2>1
  <2>3. ~Waiting(c) /\ ~Waiting(c)'
    BY <1>1, <1>2, <1>7 DEF ClientInv
  <2>4. N!Alive(c) => ~Named(c)'
    BY <1>1, <1>2, <2>2, <2>3 DEF Named, Done, Words, N!Judging, N!Alive
  <2>5. N!Alive(c) => verdict'[c] \notin N!Refusals \cup {"private", "fresh"}
    BY <2>2 DEF Words, N!Judging
  <2>. QED  BY <1>1, <1>2, <2>1, <2>3, <2>4, <2>5 DEF ClientInv, Done, N!Alive
<1>9. \A d \in Client \ {c} : verdict[d] \notin N!Judging
  BY <1>1 DEF ConnInv, N!Judging
<1>10. /\ queue' \in Seq(Client) /\ \A k, m \in 1 .. Len(queue') : queue'[k] = queue'[m] => k = m
       /\ \A d : Waiting(d)' => Waiting(d)
  BY <1>1 DEF ConnInv, Waiting
<1>. QED  BY <1>1, <1>3, <1>4, <1>5, <1>6, <1>8, <1>9, <1>10, OneVerdict

LEMMA ConnStart ==
    ASSUME \A w \in Words : w \notin User
    PROVE  N!ConnInit => ConnInv
<1>. SUFFICES ASSUME N!ConnInit PROVE ConnInv
  OBVIOUS
<1>1. /\ now = 0 /\ queue = << >> /\ names = [q \in ProcId |-> names[q]] /\ proc = [c \in Client |-> proc[c]]
      /\ verdict = [c \in Client |-> verdict[c]] /\ \A c \in Client : verdict[c] = "none"
  BY DEF N!ConnInit
<1>2. \A c \in Client : proc[c].at = "unborn" /\ proc[c].since = 0 /\ DOMAIN proc[c] = ClientFields
  BY DEF N!ConnInit, ClientFields
<1>3. \A q \in ProcId : DOMAIN names[q] = FileFields
  BY DEF N!ConnInit, N!NoFile, FileFields
<1>4. \A c \in Client : ClientInv(c)
  <2>1. \A c : ~Waiting(c)
    BY <1>1 DEF Waiting
  <2>. QED  BY <1>1, <1>2, <2>1 DEF ClientInv, N!Alive
<1>5. \A c \in Client : verdict[c] \notin N!Judging
  BY <1>1 DEF N!Judging
<1>. QED  BY <1>1, <1>2, <1>3, <1>4, <1>5 DEF ConnInv, N!Alive

(* A server that ends loses the clients it had not judged.                 *)
LEMMA ServEndsKept == ASSUME ConnInv, STALE \in Int, \A w \in Words : w \notin User, N!ServEnds PROVE ConnInv'
<1>1. /\ queue' = << >> /\ UNCHANGED <<names, proc, root, now, reused>>
      /\ verdict' = [c \in Client |-> IF verdict[c] \in N!Judging THEN "none" ELSE verdict[c]]
  BY DEF N!ServEnds
<1>2. \A c : ~Waiting(c)'
  BY <1>1 DEF Waiting
<1>3. ASSUME NEW c \in Client PROVE ClientInv(c)'
  <2>1. ClientInv(c) /\ proc'[c] = proc[c] /\ now' = now
    BY <1>1 DEF ConnInv
  <2>2. verdict'[c] = "none" \/ (verdict'[c] = verdict[c] /\ verdict[c] \notin {"accepted", "private", "fresh"})
    BY <1>1 DEF N!Judging
  <2>3. "none" \notin User /\ "none" \notin N!Refusals
    BY DEF Words, N!Refusals
  <2>4. (Named(c)' => Named(c)) /\ (OwnFile(c) => OwnFile(c)')
    BY <1>1, <1>2, <2>1, <2>2 DEF Named, OwnFile
  <2>. QED  BY <1>1, <1>2, <2>1, <2>2, <2>3, <2>4 DEF ClientInv, Done, N!Alive
<1>4. /\ queue' \in Seq(Client) /\ \A k, m \in 1 .. Len(queue') : queue'[k] = queue'[m] => k = m
      /\ verdict' = [c \in Client |-> verdict'[c]]
      /\ \A c, d \in Client : verdict'[c] \in N!Judging /\ verdict'[d] \in N!Judging => c = d
  BY <1>1 DEF N!Judging
<1>. QED  BY <1>1, <1>3, <1>4 DEF ConnInv, N!Alive

LEMMA ConnStep ==
    ASSUME STALE \in Int, \A w \in Words : w \notin User
    PROVE  ConnInv /\ [N!ConnNext]_connVars => ConnInv'
<1>. SUFFICES ASSUME ConnInv, [N!ConnNext]_connVars PROVE ConnInv'
  OBVIOUS
<1>1. ASSUME NEW c \in Client, N!Start(c) \/ N!Die(c) \/ N!cli_conn(c) PROVE ConnInv'
  BY <1>1, StartKept, DieKept, UnlinkKept, BindKept, ChmodKept, ConnectKept, ErroutKept DEF N!cli_conn
<1>2. ASSUME N!ServBind \/ N!ServListen \/ N!Tick PROVE ConnInv'
  BY <1>2, ServerKept DEF N!ServBind, N!ServListen, N!Tick
<1>3. ASSUME UNCHANGED connVars PROVE ConnInv'
  BY <1>3, ServerKept DEF connVars
<1>4. ASSUME N!serv_accept PROVE ConnInv'
  BY <1>4, AcceptKept, LookKept, UnlinkNameKept DEF N!serv_accept
<1>. QED  BY <1>1, <1>2, <1>3, <1>4, ServEndsKept DEF N!ConnNext

LEMMA ConnPart == [Next]_all => [N!ConnNext]_connVars
<1>. SUFFICES ASSUME [Next]_all PROVE [N!ConnNext]_connVars
  OBVIOUS
<1>1. CASE UNCHANGED all
  BY <1>1 DEF all, connVars
<1>2. CASE Next
  BY <1>2 DEF Next, InPopen, InFd, InConn, InPing, InOld, InDaemon, InCo, connVars
<1>. QED  BY <1>1, <1>2

(* A file, the one serv_accept() found, and the user it takes a client for *)
(* are of a process that had the pid of the name.                          *)
Bears(t, p, u) == \E d \in Client : t[d].at # "unborn" /\ t[d].pid = p /\ t[d].user = u
FilesInv ==
    /\ \A p \in ProcId : names[p] = N!NoFile \/ Bears(proc, p, names[p].user)
    /\ \A c \in Client : verdict[c] \in {"private", "fresh"} => Bears(proc, proc[c].pid, statbuf.user)
    /\ \A c \in Client : verdict[c] \in User => Bears(proc, proc[c].pid, verdict[c])
(* A process keeps its pid and its user.                                   *)
Kept == \A d \in Client : proc[d].at # "unborn" =>
            proc'[d].at # "unborn" /\ proc'[d].pid = proc[d].pid /\ proc'[d].user = proc[d].user

LEMMA BearsKept == ASSUME Kept, NEW p, NEW u, Bears(proc, p, u) PROVE Bears(proc', p, u)
BY DEF Kept, Bears

LEMMA MoveKept ==
    ASSUME ConnInv, NEW c \in Client, NEW x, x # "unborn", proc' = [proc EXCEPT ![c].at = x]
    PROVE  Kept
BY MovedTo DEF Kept, ConnInv

(* A step of a client: a file it makes is its own.                         *)
LEMMA FilesClient ==
    ASSUME ConnInv, FilesInv, \A w \in Words : w \notin User, Kept, UNCHANGED <<verdict, statbuf>>,
           \A p \in ProcId : \/ names'[p] = names[p]
                             \/ names'[p] = N!NoFile
                             \/ Bears(proc', p, names'[p].user)
    PROVE  FilesInv'
<1>0. "none" \notin User
  BY DEF Words
<1>1. \A p \in ProcId : (names[p] = N!NoFile \/ Bears(proc, p, names[p].user))
  BY DEF FilesInv
<1>2. ASSUME NEW p \in ProcId PROVE names'[p] = N!NoFile \/ Bears(proc', p, names'[p].user)
  <2>1. CASE names'[p] = names[p]
    <3>1. names[p] = N!NoFile \/ Bears(proc', p, names[p].user)
      BY <1>1, BearsKept
    <3>. HIDE DEF N!NoFile
    <3>. QED  BY <2>1, <3>1 DEF Bears
  <2>. QED  BY <2>1
<1>3. \A c \in Client : verdict[c] # "none" => proc'[c].pid = proc[c].pid
  BY DEF ConnInv, ClientInv, Done, Kept
<1>4. ASSUME NEW c \in Client, verdict'[c] \in {"private", "fresh"} PROVE Bears(proc', proc'[c].pid, statbuf'.user)
  <2>1. Bears(proc, proc[c].pid, statbuf.user) /\ proc'[c].pid = proc[c].pid
    BY <1>3, <1>4 DEF FilesInv
  <2>. QED  BY <2>1, BearsKept
<1>5. ASSUME NEW c \in Client, verdict'[c] \in User PROVE Bears(proc', proc'[c].pid, verdict'[c])
  <2>1. Bears(proc, proc[c].pid, verdict[c]) /\ proc'[c].pid = proc[c].pid
    BY <1>3, <1>5, <1>0 DEF FilesInv
  <2>. QED  BY <2>1, BearsKept
<1>. QED  BY <1>2, <1>4, <1>5 DEF FilesInv

LEMMA FilesStart ==
    ASSUME ConnInv, FilesInv, \A w \in Words : w \notin User, NEW c \in Client, N!Start(c)
    PROVE  FilesInv'
<1>1. PICK p \in ProcId, u \in User : proc' = [proc EXCEPT ![c] = [@ EXCEPT !.pid = p, !.user = u, !.at = "unlink"]]
  BY DEF N!Start
<1>2. proc[c].at = "unborn" /\ UNCHANGED <<names, verdict, statbuf>>
  BY DEF N!Start
<1>3. Kept
  BY <1>1, <1>2 DEF Kept, ConnInv
<1>. QED  BY <1>2, <1>3, FilesClient

LEMMA FilesMove ==
    ASSUME ConnInv, FilesInv, \A w \in Words : w \notin User, NEW c \in Client,
           N!Die(c) \/ N!Unlink(c) \/ N!Connect(c) \/ N!Errout(c)
    PROVE  FilesInv'
<1>1. UNCHANGED <<verdict, statbuf>> /\ \E x \in {"dead", "bind", "connected", "errout", "failed"} :
          proc' = [proc EXCEPT ![c].at = x]
  BY DEF N!Die, N!Unlink, N!Connect, N!Errout, N!Moved
<1>2. Kept
  BY <1>1, MoveKept
<1>3. UNCHANGED names \/ names' = [names EXCEPT ![proc[c].pid] = N!NoFile]
  BY DEF N!Die, N!Unlink, N!Connect, N!Errout, N!Named
<1>4. \A p \in ProcId : names'[p] = names[p] \/ names'[p] = N!NoFile
  <2>. HIDE DEF N!NoFile
  <2>. QED  BY <1>3 DEF ConnInv
<1>. QED  BY <1>1, <1>2, <1>4, FilesClient

LEMMA FilesBind ==
    ASSUME ConnInv, FilesInv, \A w \in Words : w \notin User, NEW c \in Client, N!Bind(c)
    PROVE  FilesInv'
<1>0. proc[c].at = "bind" /\ UNCHANGED <<verdict, statbuf>>
  BY DEF N!Bind
<1>1. CASE N!Here(proc[c].pid)
  <2>1. proc' = [proc EXCEPT ![c].at = "failed"] /\ UNCHANGED names
    BY <1>1 DEF N!Bind, N!Moved
  <2>. QED  BY <1>0, <2>1, MoveKept, FilesClient
<1>2. CASE ~N!Here(proc[c].pid)
  <2>. DEFINE file == [user |-> proc[c].user, made |-> c, private |-> FALSE, time |-> now]
  <2>1. /\ names' = [names EXCEPT ![proc[c].pid] = file]
        /\ proc' = [proc EXCEPT ![c].at = "chmod", ![c].since = now]
    BY <1>2 DEF N!Bind, N!Named, N!AfterBind
  <2>2. proc'[c] = [proc[c] EXCEPT !.at = "chmod", !.since = now] /\ proc' = [proc EXCEPT ![c] = proc'[c]]
    BY <2>1 DEF ConnInv
  <2>3. /\ proc'[c].at = "chmod" /\ proc'[c].pid = proc[c].pid /\ proc'[c].user = proc[c].user
        /\ \A d \in Client \ {c} : proc'[d] = proc[d]
    BY <2>2 DEF ConnInv, ClientInv, ClientFields
  <2>4. Kept
    BY <2>3 DEF Kept
  <2>5. file.user = proc[c].user
    OBVIOUS
  <2>6. Bears(proc', proc[c].pid, proc[c].user)
    BY <2>3 DEF Bears
  <2>. HIDE DEF file
  <2>7. ASSUME NEW p \in ProcId PROVE names'[p] = names[p] \/ Bears(proc', p, names'[p].user)
    <3>1. CASE p = proc[c].pid
      <4>1. names'[p] = file /\ names'[p].user = proc'[c].user /\ p = proc'[c].pid
        BY <2>1, <2>3, <2>5, <3>1 DEF ConnInv
      <4>. QED  BY <2>3, <4>1 DEF Bears
    <3>2. CASE p # proc[c].pid
      BY <2>1, <3>2 DEF ConnInv
    <3>. QED  BY <3>1, <3>2
  <2>. QED  BY <1>0, <2>4, <2>7, FilesClient
<1>. QED  BY <1>1, <1>2

LEMMA FilesChmod ==
    ASSUME ConnInv, FilesInv, \A w \in Words : w \notin User, NEW c \in Client, N!Chmod(c)
    PROVE  FilesInv'
<1>0. proc[c].at = "chmod" /\ UNCHANGED <<verdict, statbuf>>
  BY DEF N!Chmod
<1>1. CASE N!Here(proc[c].pid) /\ names[proc[c].pid].user = proc[c].user
  <2>. DEFINE q == proc[c].pid   f == names[q]   yes == TRUE   g == [f EXCEPT !.private = yes]
  <2>1. names' = [names EXCEPT ![q] = g] /\ proc' = [proc EXCEPT ![c].at = "connect"]
    BY <1>1, Zenon DEF N!Chmod, N!Named
  <2>2. Kept
    BY <2>1, MoveKept
  <2>3. q \in ProcId /\ DOMAIN f = FileFields
    BY <1>0 DEF ConnInv, ClientInv
  <2>4. Bears(proc', q, f.user)
    BY <1>1, <2>2, <2>3, BearsKept DEF FilesInv, N!Here
  <2>. HIDE DEF yes, f
  <2>5. g.user = f.user
    BY <2>3 DEF FileFields
  <2>. HIDE DEF g
  <2>6. ASSUME NEW p \in ProcId PROVE names'[p] = names[p] \/ Bears(proc', p, names'[p].user)
    <3>1. CASE p = q
      <4>1. names'[p] = g /\ names'[p].user = f.user
        BY <2>1, <2>5, <3>1 DEF ConnInv
      <4>. QED  BY <2>4, <3>1, <4>1
    <3>2. CASE p # q
      BY <2>1, <3>2 DEF ConnInv
    <3>. QED  BY <3>1, <3>2
  <2>. QED  BY <1>0, <2>2, <2>6, FilesClient
<1>2. CASE ~(N!Here(proc[c].pid) /\ names[proc[c].pid].user = proc[c].user)
  <2>1. proc' = [proc EXCEPT ![c].at = "errout"] /\ UNCHANGED names
    BY <1>2 DEF N!Chmod, N!Moved
  <2>. QED  BY <1>0, <2>1, MoveKept, FilesClient
<1>. QED  BY <1>1, <1>2

(* A step of serv_accept(), or the end of the server.                      *)
LEMMA FilesJudged ==
    ASSUME FilesInv, UNCHANGED proc,
           \A p \in ProcId : names'[p] = names[p] \/ names'[p] = N!NoFile,
           \A c \in Client :
               \/ verdict'[c] \notin User \cup {"private", "fresh"}
               \/ verdict'[c] \in User \ {"private", "fresh"} /\ Bears(proc, proc[c].pid, verdict'[c])
               \/ verdict'[c] \in {"private", "fresh"} \ User /\ Bears(proc, proc[c].pid, statbuf'.user)
    PROVE  FilesInv'
<1>1. UNCHANGED proc
  OBVIOUS
<1>2. ASSUME NEW p \in ProcId PROVE names'[p] = N!NoFile \/ Bears(proc', p, names'[p].user)
  <2>. HIDE DEF N!NoFile
  <2>. QED  BY <1>1 DEF FilesInv
<1>3. ASSUME NEW c \in Client PROVE /\ verdict'[c] \in {"private", "fresh"} => Bears(proc', proc'[c].pid, statbuf'.user)
                                   /\ verdict'[c] \in User => Bears(proc', proc'[c].pid, verdict'[c])
  BY <1>1
<1>. QED  BY <1>2, <1>3 DEF FilesInv

LEMMA FilesAccept ==
    ASSUME ConnInv, FilesInv, \A w \in Words : w \notin User, N!serv_accept \/ N!ServEnds
    PROVE  FilesInv'
<1>0. /\ UNCHANGED proc /\ \A d \in Client : verdict[d] \in User => Bears(proc, proc[d].pid, verdict[d])
      /\ \A d \in Client : verdict[d] \in {"private", "fresh"} => Bears(proc, proc[d].pid, statbuf.user)
      /\ \A w \in Words : w \notin User
  BY DEF N!serv_accept, N!ServAccept, N!ServStat, N!ServTime, N!ServUnlink, N!ServEnds, FilesInv
<1>1. \A w \in {"accepted", "private", "fresh", "none", "no file", "not rwx------", "too old"} : w \notin User
  BY <1>0 DEF Words, N!Refusals, N!Judging
<1>2. CASE N!ServAccept
  <2>1. Head(queue) \in Client
    BY <1>2, HeadTailProperties DEF N!ServAccept, ConnInv
  <2>2. /\ verdict' = [verdict EXCEPT ![Head(queue)] = "accepted"] /\ UNCHANGED <<names, statbuf>>
        /\ \A d \in Client : verdict[d] \notin {"private", "fresh"}
    BY <1>2 DEF N!ServAccept, N!Found, N!Judging
  <2>3. \A d \in Client : verdict'[d] = verdict[d] \/ verdict'[d] = "accepted"
    BY <2>1, <2>2 DEF ConnInv
  <2>. QED  BY <1>0, <1>1, <2>2, <2>3, FilesJudged
<1>3. ASSUME NEW c \in Client, N!ServStat(c) \/ N!ServTime(c) \/ N!ServUnlink(c) PROVE FilesInv'
  <2>. DEFINE p == proc[c].pid   f == names[p]
  <2>1. verdict[c] \in {"accepted", "private", "fresh"} /\ p \in ProcId
    BY <1>3 DEF N!ServStat, N!ServTime, N!ServUnlink, ConnInv, ClientInv, Done
  <2>2. \A d \in Client \ {c} : verdict[d] \notin {"private", "fresh"}
    BY <2>1 DEF ConnInv, N!Judging
  <2>3. \A d \in Client \ {c} : verdict'[d] = verdict[d]
    BY <1>3 DEF ConnInv, N!ServStat, N!ServTime, N!ServUnlink, N!Found
  <2>4. \A q \in ProcId : names'[q] = names[q] \/ names'[q] = N!NoFile
    <3>1. UNCHANGED names \/ names' = [names EXCEPT ![p] = N!NoFile]
      BY <1>3 DEF N!ServStat, N!ServTime, N!ServUnlink, N!Named
    <3>. HIDE DEF N!NoFile
    <3>. QED  BY <2>1, <3>1 DEF ConnInv
  <2>5. CASE N!ServStat(c) /\ f.private
    <3>1. verdict'[c] = "private" /\ statbuf' = f /\ f # N!NoFile
      BY <2>5 DEF N!ServStat, N!Found, ConnInv, N!NoFile
    <3>2. Bears(proc, p, statbuf'.user)
      BY <2>1, <3>1 DEF FilesInv
    <3>3. verdict'[c] \in {"private", "fresh"} \ User
      BY <1>1, <3>1
    <3>. HIDE DEF f
    <3>. QED  BY <1>0, <1>1, <2>2, <2>3, <2>4, <3>2, <3>3, FilesJudged
  <2>6. CASE N!ServStat(c) /\ ~f.private
    <3>1. verdict'[c] \in {"no file", "not rwx------"} /\ statbuf' = statbuf
      BY <2>6 DEF N!ServStat, N!Found, ConnInv
    <3>. QED  BY <1>0, <1>1, <2>2, <2>3, <2>4, <3>1, FilesJudged
  <2>7. CASE N!ServTime(c)
    <3>1. verdict[c] = "private" /\ verdict'[c] \in {"too old", "fresh"} /\ statbuf' = statbuf
      BY <2>7 DEF N!ServTime, N!Found, ConnInv
    <3>. QED  BY <1>0, <1>1, <2>2, <2>3, <2>4, <3>1, FilesJudged
  <2>8. CASE N!ServUnlink(c)
    <3>1. verdict[c] = "fresh" /\ verdict'[c] = statbuf.user
      BY <2>8 DEF N!ServUnlink, N!Found, ConnInv
    <3>2. Bears(proc, p, statbuf.user) /\ statbuf.user \in User
      BY <1>0, <3>1 DEF Bears, ConnInv, ClientInv
    <3>3. verdict'[c] \in User \ {"private", "fresh"} /\ Bears(proc, p, verdict'[c])
      BY <1>1, <3>1, <3>2
    <3>. QED  BY <1>0, <1>1, <2>2, <2>3, <2>4, <3>3, FilesJudged
  <2>. QED  BY <1>3, <2>5, <2>6, <2>7, <2>8
<1>4. CASE N!ServEnds
  <2>1. UNCHANGED names /\ \A d \in Client : verdict'[d] = "none" \/ (verdict'[d] = verdict[d] /\ verdict[d] \notin N!Judging)
    BY <1>4 DEF N!ServEnds
  <2>2. \A d \in Client : verdict'[d] \notin {"private", "fresh"} /\ (verdict'[d] \in User => Bears(proc, proc[d].pid, verdict'[d]))
    BY <1>0, <1>1, <2>1 DEF N!Judging
  <2>. QED  BY <1>0, <2>1, <2>2, FilesJudged
<1>. QED  BY <1>2, <1>3, <1>4 DEF N!serv_accept

LEMMA FilesStep ==
    ASSUME \A w \in Words : w \notin User
    PROVE  ConnInv /\ FilesInv /\ [N!ConnNext]_connVars => FilesInv'
<1>. SUFFICES ASSUME ConnInv, FilesInv, [N!ConnNext]_connVars PROVE FilesInv'
  OBVIOUS
<1>1. ASSUME NEW c \in Client, N!Start(c) \/ N!Die(c) \/ N!cli_conn(c) PROVE FilesInv'
  BY <1>1, FilesStart, FilesMove, FilesBind, FilesChmod DEF N!cli_conn
<1>2. ASSUME UNCHANGED <<names, proc, verdict, statbuf>> PROVE FilesInv'
  BY <1>2 DEF FilesInv, Bears
<1>. QED  BY <1>1, <1>2, FilesAccept DEF N!ConnNext, N!ServBind, N!ServListen, N!Tick, connVars

(* Whatever clients, server and kernel do between any two calls, a client  *)
(* that lives is taken for the user it is, and refused only if its name    *)
(* got too old or was removed in place of the name of an ended client with *)
(* its pid; an ended one is taken for the user of a process that had its   *)
(* pid (servaccept.c:29-66).  The names of users are none of the words for *)
(* the places in serv_accept() and its refusals.                           *)
THEOREM ClientsJudged ==
    ASSUME STALE \in Int, \A w \in Words : w \notin User
    PROVE  Spec => []Judged
<1>1. Init => ConnInv /\ FilesInv
  <2>1. Init => ConnInv
    BY ConnStart DEF Init
  <2>2. \A u \in User : u # "none"
    BY DEF Words
  <2>3. N!ConnInit => FilesInv
    <3>1. "none" \notin User
      BY <2>2
    <3>. QED  BY <3>1 DEF N!ConnInit, FilesInv
  <2>. QED  BY <2>1, <2>3 DEF Init
<1>2. ConnInv /\ FilesInv /\ [Next]_all => ConnInv' /\ FilesInv'
  BY ConnStep, FilesStep, ConnPart
<1>3. ConnInv /\ FilesInv => Judged
  <2>. SUFFICES ASSUME ConnInv, FilesInv, NEW c \in Client
                PROVE  /\ verdict[c] \in User /\ N!Alive(c) => verdict[c] = proc[c].user
                       /\ verdict[c] \in N!Refusals /\ N!Alive(c) =>
                              proc[c].pid \in reused \/ now > proc[c].since + STALE
                       /\ verdict[c] \in User => \E d \in Client : proc[d].pid = proc[c].pid /\ proc[d].user = verdict[c]
    BY DEF Judged, N!Judged
  <2>. QED  BY DEF ConnInv, FilesInv, ClientInv, Bears
<1>. QED  BY <1>1, <1>2, <1>3, PTL DEF Spec

-----------------------------------------------------------------------------
(* The echo requests.  The messages of the socket which icmp_unpack() takes *)
(* are the answers lo, lo + 1, ... hi - 1, in this order.                  *)
Messages == [kind : {"reply", "request", "short"}, id : {"own", "other"}, seq : Nat]
Answers(s, lo, hi) ==
    /\ \A k \in 1 .. Len(s) : P!icmp_unpack(s[k]) => lo <= s[k].seq /\ s[k].seq < hi
    /\ \A k, m \in 1 .. Len(s) : k < m /\ P!icmp_unpack(s[k]) /\ P!icmp_unpack(s[m]) => s[k].seq < s[m].seq
    /\ \A x \in lo .. hi - 1 : \E k \in 1 .. Len(s) : P!icmp_unpack(s[k]) /\ s[k].seq = x

LEMMA MessageSeq ==
    ASSUME NEW s \in Seq(Messages), NEW k \in 1 .. Len(s)
    PROVE  s[k].seq \in Nat
<1>1. s[k] \in Messages
  BY ElementOfSeq
<1>. QED  BY <1>1 DEF Messages

LEMMA AnswersAppend ==
    ASSUME NEW s \in Seq(Messages), NEW m \in Messages, NEW lo \in Nat, NEW hi \in Nat, Answers(s, lo, hi)
    PROVE  /\ P!icmp_unpack(m) /\ m.seq = hi /\ lo <= hi => Answers(Append(s, m), lo, hi + 1)
           /\ ~P!icmp_unpack(m) => Answers(Append(s, m), lo, hi)
<1>. DEFINE t == Append(s, m)
<1>1. /\ t \in Seq(Messages) /\ Len(t) = Len(s) + 1 /\ t[Len(s) + 1] = m /\ \A k \in 1 .. Len(s) : t[k] = s[k]
      /\ Len(s) \in Nat
  BY AppendProperties, LenProperties
<1>. HIDE DEF t
<1>2. \A k \in 1 .. Len(s) : s[k].seq \in Nat
  BY MessageSeq
<1>3. ASSUME P!icmp_unpack(m), m.seq = hi, lo <= hi PROVE Answers(t, lo, hi + 1)
  <2>1. \A k \in 1 .. Len(t) : P!icmp_unpack(t[k]) => lo <= t[k].seq /\ t[k].seq < hi + 1
    BY <1>1, <1>2, <1>3 DEF Answers
  <2>2. ASSUME NEW j \in 1 .. Len(t), NEW k \in 1 .. Len(t), j < k, P!icmp_unpack(t[j]), P!icmp_unpack(t[k])
        PROVE  t[j].seq < t[k].seq
    <3>1. j \in 1 .. Len(s) /\ t[j] = s[j]
      BY <1>1, <2>2
    <3>2. CASE k = Len(s) + 1
      BY <1>1, <1>3, <2>2, <3>1, <3>2 DEF Answers
    <3>3. CASE k # Len(s) + 1
      <4>1. k \in 1 .. Len(s) /\ t[k] = s[k]
        BY <1>1, <3>3
      <4>. QED  BY <2>2, <3>1, <4>1 DEF Answers
    <3>. QED  BY <3>2, <3>3
  <2>3. ASSUME NEW x \in lo .. (hi + 1) - 1 PROVE \E k \in 1 .. Len(t) : P!icmp_unpack(t[k]) /\ t[k].seq = x
    <3>1. CASE x = hi
      BY <1>1, <1>3, <3>1
    <3>2. CASE x # hi
      <4>1. PICK k \in 1 .. Len(s) : P!icmp_unpack(s[k]) /\ s[k].seq = x
        BY <3>2 DEF Answers
      <4>. QED  BY <1>1, <4>1
    <3>. QED  BY <3>1, <3>2
  <2>. QED  BY <2>1, <2>2, <2>3 DEF Answers
<1>4. ASSUME ~P!icmp_unpack(m) PROVE Answers(t, lo, hi)
  <2>1. \A k \in 1 .. Len(t) : P!icmp_unpack(t[k]) => k \in 1 .. Len(s) /\ t[k] = s[k]
    BY <1>1, <1>4
  <2>2. \A k \in 1 .. Len(s) : k \in 1 .. Len(t) /\ t[k] = s[k]
    BY <1>1
  <2>. QED  BY <2>1, <2>2 DEF Answers
<1>. QED  BY <1>3, <1>4 DEF t

LEMMA AnswersTail ==
    ASSUME NEW s \in Seq(Messages), s # << >>, NEW lo \in Nat, NEW hi \in Nat, Answers(s, lo, hi)
    PROVE  /\ P!icmp_unpack(Head(s)) => Head(s).seq = lo /\ Answers(Tail(s), lo + 1, hi)
           /\ ~P!icmp_unpack(Head(s)) => Answers(Tail(s), lo, hi)
<1>. DEFINE t == Tail(s)
<1>1. /\ t \in Seq(Messages) /\ Len(t) = Len(s) - 1 /\ \A k \in 1 .. Len(t) : t[k] = s[k + 1]
      /\ Len(s) \in Nat \ {0} /\ Head(s) = s[1]
  BY HeadTailProperties, LenProperties
<1>. HIDE DEF t
<1>2. \A k \in 1 .. Len(s) : s[k].seq \in Nat
  BY MessageSeq
<1>3. \A k \in 1 .. Len(t) : k + 1 \in 1 .. Len(s) /\ t[k] = s[k + 1] /\ 1 < k + 1
  BY <1>1
<1>4. ASSUME NEW j \in 1 .. Len(t), NEW k \in 1 .. Len(t), j < k, P!icmp_unpack(t[j]), P!icmp_unpack(t[k])
      PROVE  t[j].seq < t[k].seq
  <2>1. j + 1 \in 1 .. Len(s) /\ k + 1 \in 1 .. Len(s) /\ j + 1 < k + 1
    BY <1>3, <1>4
  <2>2. t[j] = s[j + 1] /\ t[k] = s[k + 1]
    BY <1>3
  <2>. QED  BY <1>4, <2>1, <2>2 DEF Answers
<1>5. \A k \in 1 .. Len(t) : P!icmp_unpack(t[k]) => lo <= t[k].seq /\ t[k].seq < hi
  BY <1>3 DEF Answers
<1>6. ASSUME NEW x \in lo .. hi - 1, ~(P!icmp_unpack(s[1]) /\ s[1].seq = x)
      PROVE  \E k \in 1 .. Len(t) : P!icmp_unpack(t[k]) /\ t[k].seq = x
  <2>1. PICK k \in 1 .. Len(s) : P!icmp_unpack(s[k]) /\ s[k].seq = x
    BY DEF Answers
  <2>2. k - 1 \in 1 .. Len(t) /\ t[k - 1] = s[k]
    <3>1. k # 1
      BY <1>6, <2>1
    <3>2. k - 1 \in 1 .. Len(t) /\ (k - 1) + 1 = k
      BY <1>1, <3>1
    <3>. QED  BY <1>3, <3>2
  <2>. QED  BY <2>1, <2>2
<1>7. ASSUME P!icmp_unpack(s[1]) PROVE s[1].seq = lo /\ Answers(t, lo + 1, hi)
  <2>1. 1 \in 1 .. Len(s) /\ s[1].seq \in Nat /\ lo <= s[1].seq /\ s[1].seq < hi
    BY <1>1, <1>2, <1>7 DEF Answers
  <2>2. \A k \in 1 .. Len(t) : P!icmp_unpack(t[k]) => s[1].seq < t[k].seq
    BY <1>3, <1>7, <2>1 DEF Answers
  <2>3. s[1].seq = lo
    <3>1. ASSUME s[1].seq # lo PROVE FALSE
      <4>1. lo \in lo .. hi - 1
        BY <2>1
      <4>2. PICK k \in 1 .. Len(t) : P!icmp_unpack(t[k]) /\ t[k].seq = lo
        BY <1>6, <3>1, <4>1
      <4>. QED  BY <2>1, <2>2, <4>2
    <3>. QED  BY <3>1
  <2>4. \A k \in 1 .. Len(t) : P!icmp_unpack(t[k]) => lo + 1 <= t[k].seq
    <3>1. \A k \in 1 .. Len(t) : t[k].seq \in Nat
      BY <1>2, <1>3
    <3>. QED  BY <2>2, <2>3, <3>1
  <2>5. ASSUME NEW x \in lo + 1 .. hi - 1 PROVE \E k \in 1 .. Len(t) : P!icmp_unpack(t[k]) /\ t[k].seq = x
    <3>1. x \in lo .. hi - 1 /\ x # lo
      OBVIOUS
    <3>. QED  BY <1>6, <2>3, <3>1
  <2>. QED  BY <1>4, <1>5, <2>3, <2>4, <2>5 DEF Answers
<1>8. ASSUME ~P!icmp_unpack(s[1]) PROVE Answers(t, lo, hi)
  BY <1>4, <1>5, <1>6, <1>8 DEF Answers
<1>. QED  BY <1>1, <1>7, <1>8 DEF t

(* How many of the messages icmp_unpack() takes.                           *)
Taken(s) == {k \in 1 .. Len(s) : P!icmp_unpack(s[k])}

LEMMA TakenFinite ==
    ASSUME NEW s \in Seq(Messages)
    PROVE  IsFiniteSet(Taken(s)) /\ Cardinality(Taken(s)) \in Nat
<1>1. Taken(s) \in SUBSET (1 .. Len(s)) /\ 1 \in Int /\ Len(s) \in Int
  BY LenProperties DEF Taken
<1>2. IsFiniteSet(1 .. Len(s))
  BY <1>1, FS_Interval
<1>3. IsFiniteSet(Taken(s))
  BY <1>1, <1>2, FS_Subset
<1>. QED  BY <1>3, FS_CardinalityType

LEMMA TakenAppend ==
    ASSUME NEW s \in Seq(Messages), NEW m \in Messages
    PROVE  Cardinality(Taken(Append(s, m))) <=
               IF P!icmp_unpack(m) THEN Cardinality(Taken(s)) + 1 ELSE Cardinality(Taken(s))
<1>. DEFINE t == Append(s, m)   j == Len(s) + 1
<1>1. /\ Len(t) = j /\ t[j] = m /\ \A k \in 1 .. Len(s) : t[k] = s[k]
      /\ Len(s) \in Nat
  BY AppendProperties, LenProperties
<1>. HIDE DEF t
<1>2. \A k : k \in Taken(t) => k \in Taken(s) \/ (k = j /\ P!icmp_unpack(m))
  BY <1>1 DEF Taken
<1>3. IsFiniteSet(Taken(s)) /\ Cardinality(Taken(s)) \in Nat
  BY TakenFinite
<1>4. /\ IsFiniteSet(Taken(s) \cup {j})
      /\ Cardinality(Taken(s) \cup {j}) = IF j \in Taken(s) THEN Cardinality(Taken(s)) ELSE Cardinality(Taken(s)) + 1
  BY <1>3, FS_AddElement
<1>5. ASSUME P!icmp_unpack(m) PROVE Cardinality(Taken(t)) <= Cardinality(Taken(s)) + 1
  <2>1. Taken(t) \in SUBSET (Taken(s) \cup {j})
    BY <1>2
  <2>2. Cardinality(Taken(t)) <= Cardinality(Taken(s) \cup {j})
    BY <1>4, <2>1, FS_Subset
  <2>3. Cardinality(Taken(t)) \in Nat
    BY <1>4, <2>1, FS_Subset, FS_CardinalityType
  <2>. QED  BY <1>3, <1>4, <2>2, <2>3
<1>6. ASSUME ~P!icmp_unpack(m) PROVE Cardinality(Taken(t)) <= Cardinality(Taken(s))
  <2>1. Taken(t) \in SUBSET Taken(s)
    BY <1>2, <1>6
  <2>. QED  BY <1>3, <2>1, FS_Subset
<1>. QED  BY <1>5, <1>6 DEF t

LEMMA TakenTail ==
    ASSUME NEW s \in Seq(Messages), s # << >>
    PROVE  Cardinality(Taken(Tail(s))) <=
               IF P!icmp_unpack(Head(s)) THEN Cardinality(Taken(s)) - 1 ELSE Cardinality(Taken(s))
<1>. DEFINE t == Tail(s)   R == Taken(s) \ {1}   g == [k \in R |-> k - 1]
<1>1. /\ Len(t) = Len(s) - 1 /\ \A k \in 1 .. Len(t) : t[k] = s[k + 1]
      /\ Len(s) \in Nat \ {0} /\ Head(s) = s[1]
  BY HeadTailProperties, LenProperties
<1>. HIDE DEF t
<1>2. /\ IsFiniteSet(Taken(s)) /\ Cardinality(Taken(s)) \in Nat /\ IsFiniteSet(R)
      /\ Cardinality(R) = IF 1 \in Taken(s) THEN Cardinality(Taken(s)) - 1 ELSE Cardinality(Taken(s))
  BY TakenFinite, FS_RemoveElement
<1>3. ASSUME NEW k \in R PROVE k - 1 \in Taken(t)
  <2>1. k \in 2 .. Len(s) /\ P!icmp_unpack(s[k])
    BY <1>1 DEF Taken
  <2>2. k - 1 \in 1 .. Len(t) /\ (k - 1) + 1 = k
    BY <1>1, <2>1
  <2>. QED  BY <1>1, <2>1, <2>2 DEF Taken
<1>4. ASSUME NEW k \in Taken(t) PROVE k + 1 \in R /\ (k + 1) - 1 = k
  <2>1. k \in 1 .. Len(t) /\ P!icmp_unpack(t[k])
    BY DEF Taken
  <2>2. k + 1 \in 2 .. Len(s) /\ P!icmp_unpack(s[k + 1])
    BY <1>1, <2>1
  <2>. QED  BY <2>1, <2>2 DEF Taken
<1>. HIDE DEF R
<1>5. g \in Surjection(R, Taken(t))
  <2>1. g \in [R -> Taken(t)]
    BY <1>3
  <2>2. \A k \in Taken(t) : \E j \in R : g[j] = k
    BY <1>4
  <2>. QED  BY <2>1, <2>2 DEF Surjection
<1>6. Cardinality(Taken(t)) <= Cardinality(R)
  BY <1>2, <1>5, FS_Surjection
<1>7. P!icmp_unpack(Head(s)) => 1 \in Taken(s)
  BY <1>1 DEF Taken
<1>8. IsFiniteSet(Taken(t))
  BY <1>2, <1>5, FS_Surjection
<1>9. Cardinality(Taken(t)) \in Nat
  BY <1>8, FS_CardinalityType
<1>. QED  BY <1>2, <1>6, <1>7, <1>9 DEF t

(* The requests sent, the answers on the wire, in the socket and put into  *)
(* slots: in order unless something bad happened, and never more than      *)
(* were sent and came twice.                                               *)
Sent == IF sender = "sent" THEN send_count + 1 ELSE send_count
PingTypes ==
    /\ slot \in Seq(Nat) /\ recv_count = Len(slot) /\ socket \in Seq(Messages) /\ wire \in Seq(Nat)
    /\ send_count \in Nat /\ extra \in Nat
InOrder ==
    /\ sender # "failed" /\ Len(slot) <= Sent - Len(wire)
    /\ \A k \in 1 .. Len(slot) : slot[k] = k - 1
    /\ \A k \in 1 .. Len(wire) : wire[k] = Sent - Len(wire) + k - 1
    /\ Answers(socket, Len(slot), Sent - Len(wire))
NoMoreThanSent == recv_count + Cardinality(Taken(socket)) + Len(wire) <= Sent + extra
PingData == PingTypes /\ (~bad => InOrder) /\ NoMoreThanSent
(* The loops of the two threads: without SIGINT both go round              *)
(* PACKET_SEND_MAX_NUM times.                                              *)
Loop(place, count) ==
    /\ count <= PACKET_SEND_MAX_NUM
    /\ place = "send" \/ place = "sent" \/ place = "failed" \/ place = "select" => count < PACKET_SEND_MAX_NUM
    /\ place = "done" /\ ~interrupted => count = PACKET_SEND_MAX_NUM
PingPlaces ==
    /\ main = "socket" \/ main = "dest" \/ main = "started" => sender = ""
    /\ main # "socket" /\ main # "dest" /\ main # "ended" /\ ~interrupted => alive
    /\ main = "shown" \/ main = "division by zero" => sender = "done" /\ receiver = "done"
    /\ main = "division by zero" => send_count = 0
    /\ timed # "no" => interrupted
PingLoops == PingPlaces /\ Loop(sender, send_count) /\ Loop(receiver, recv_count)

(* Steps which are not about the messages.                                 *)
LEMMA DataKept ==
    ASSUME PingData, UNCHANGED <<slot, recv_count, socket, wire, bad, extra>>, send_count' \in Nat,
           Sent' = Sent, sender' = "failed" => sender = "failed" \/ bad
    PROVE  PingData'
BY DEF PingData, PingTypes, InOrder, NoMoreThanSent, Answers, Taken

LEMMA SendData ==
    ASSUME PingData, P!ping_send
    PROVE  PingData'
<1>1. UNCHANGED <<slot, recv_count, socket, extra>> /\ send_count \in Nat
  BY DEF P!ping_send, PingData, PingTypes
<1>2. CASE sender = "send" /\ sender' = "sent" /\ wire' = Append(wire, send_count) /\ UNCHANGED <<send_count, bad>>
  <2>1. /\ wire' \in Seq(Nat) /\ Len(wire') = Len(wire) + 1 /\ wire'[Len(wire) + 1] = send_count /\ Len(wire) \in Nat
        /\ \A k \in 1 .. Len(wire) : wire'[k] = wire[k]
    BY <1>1, <1>2, AppendProperties, LenProperties DEF PingData, PingTypes
  <2>2. Sent = send_count /\ Sent' = send_count + 1 /\ Sent' - Len(wire') = Sent - Len(wire)
    BY <1>1, <1>2, <2>1 DEF Sent
  <2>3. InOrder => InOrder'
    <3>. SUFFICES ASSUME InOrder PROVE InOrder'
      OBVIOUS
    <3>1. ASSUME NEW k \in 1 .. Len(wire') PROVE wire'[k] = Sent' - Len(wire') + k - 1
      <4>1. CASE k \in 1 .. Len(wire)
        <5>1. wire'[k] = wire[k] /\ wire[k] = Sent - Len(wire) + k - 1
          BY <2>1, <4>1 DEF InOrder
        <5>. QED  BY <2>2, <5>1
      <4>2. CASE k = Len(wire) + 1
        BY <1>1, <2>1, <2>2, <4>2
      <4>. QED  BY <2>1, <4>1, <4>2
    <3>2. Answers(socket, Len(slot), Sent - Len(wire))'
      BY <1>1, <2>2 DEF InOrder, Answers
    <3>. QED  BY <1>1, <1>2, <2>2, <3>1, <3>2 DEF InOrder
  <2>4. NoMoreThanSent'
    <3>1. Cardinality(Taken(socket)) \in Nat /\ Len(slot) \in Nat
      BY TakenFinite, LenProperties DEF PingData, PingTypes
    <3>2. Taken(socket)' = Taken(socket)
      BY <1>1 DEF Taken
    <3>. QED  BY <1>1, <2>1, <2>2, <3>1, <3>2 DEF PingData, PingTypes, NoMoreThanSent
  <2>. QED  BY <1>1, <1>2, <2>1, <2>3, <2>4 DEF PingData, PingTypes
<1>3. CASE sender = "send" /\ sender' = "failed" /\ bad' /\ UNCHANGED <<send_count, wire>>
  <2>1. Sent' = Sent
    BY <1>3 DEF Sent
  <2>. QED  BY <1>1, <1>3, <2>1 DEF PingData, PingTypes, NoMoreThanSent, Taken
<1>4. CASE sender = "failed" /\ send_count' = send_count + 1 /\ sender' = "test" /\ UNCHANGED <<wire, bad>>
  <2>1. bad
    BY <1>4 DEF PingData, InOrder
  <2>2. Sent' = Sent + 1 /\ Sent \in Nat
    BY <1>1, <1>4 DEF Sent
  <2>3. NoMoreThanSent'
    <3>1. Cardinality(Taken(socket)) \in Nat /\ Len(slot) \in Nat /\ Len(wire) \in Nat
      BY TakenFinite, LenProperties DEF PingData, PingTypes
    <3>2. Taken(socket)' = Taken(socket)
      BY <1>1 DEF Taken
    <3>. QED  BY <1>1, <1>4, <2>2, <3>1, <3>2 DEF PingData, PingTypes, NoMoreThanSent
  <2>. QED  BY <1>1, <1>4, <2>1, <2>3 DEF PingData, PingTypes
<1>5. CASE /\ UNCHANGED <<wire, bad>> /\ Sent' = Sent /\ send_count' \in Nat /\ sender' # "failed"
  BY <1>1, <1>5, DataKept
<1>. QED  BY <1>1, <1>2, <1>3, <1>4, <1>5 DEF P!ping_send, Sent

LEMMA RecvData ==
    ASSUME PingData, P!ping_recv
    PROVE  PingData'
<1>1. UNCHANGED <<sender, send_count, wire, bad, extra>> /\ send_count \in Nat /\ Sent' = Sent /\ Sent \in Nat
  BY DEF P!ping_recv, PingData, PingTypes, Sent
<1>2. CASE UNCHANGED <<recv_count, slot, socket>>
  BY <1>1, <1>2, DataKept
<1>3. CASE socket # << >> /\ socket' = Tail(socket) /\ UNCHANGED <<slot, recv_count>> /\ ~P!icmp_unpack(Head(socket))
  <2>1. socket \in Seq(Messages) /\ socket' \in Seq(Messages) /\ Len(slot) \in Nat /\ Len(wire) \in Nat
    BY <1>3, HeadTailProperties, LenProperties DEF PingData, PingTypes
  <2>2. InOrder => InOrder'
    <3>. SUFFICES ASSUME InOrder PROVE InOrder'
      OBVIOUS
    <3>1. Sent - Len(wire) \in Nat
      BY <1>1, <2>1 DEF InOrder
    <3>2. Answers(Tail(socket), Len(slot), Sent - Len(wire))
      BY <1>3, <2>1, <3>1, AnswersTail DEF InOrder
    <3>3. Answers(socket, Len(slot), Sent - Len(wire))'
      BY <1>1, <1>3, <3>2 DEF Answers
    <3>. QED  BY <1>1, <1>3, <3>3 DEF InOrder
  <2>3. Cardinality(Taken(socket))' <= Cardinality(Taken(socket)) /\ Cardinality(Taken(socket)) \in Nat
        /\ Cardinality(Taken(socket))' \in Nat
    <3>1. Taken(socket)' = Taken(Tail(socket))
      BY <1>3 DEF Taken
    <3>. QED  BY <1>3, <2>1, <3>1, TakenTail, TakenFinite
  <2>4. NoMoreThanSent'
    BY <1>1, <1>3, <2>1, <2>3 DEF NoMoreThanSent, PingData, PingTypes
  <2>. QED  BY <1>1, <1>3, <2>1, <2>2, <2>4 DEF PingData, PingTypes
<1>4. CASE /\ socket # << >> /\ socket' = Tail(socket) /\ slot' = Append(slot, Head(socket).seq)
           /\ recv_count' = recv_count + 1 /\ P!icmp_unpack(Head(socket))
  <2>1. /\ socket \in Seq(Messages) /\ socket' \in Seq(Messages) /\ Len(slot) \in Nat /\ Len(wire) \in Nat
        /\ Head(socket).seq \in Nat
    <3>1. Head(socket) \in Messages
      BY <1>4, HeadTailProperties DEF PingData, PingTypes
    <3>. QED  BY <1>4, <3>1, HeadTailProperties, LenProperties DEF PingData, PingTypes, Messages
  <2>2. /\ slot' \in Seq(Nat) /\ Len(slot') = Len(slot) + 1 /\ slot'[Len(slot) + 1] = Head(socket).seq
        /\ \A k \in 1 .. Len(slot) : slot'[k] = slot[k]
    BY <1>4, <2>1, AppendProperties DEF PingData, PingTypes
  <2>3. InOrder => InOrder'
    <3>. SUFFICES ASSUME InOrder PROVE InOrder'
      OBVIOUS
    <3>1. Sent - Len(wire) \in Nat
      BY <1>1, <2>1 DEF InOrder
    <3>2. Head(socket).seq = Len(slot) /\ Answers(Tail(socket), Len(slot) + 1, Sent - Len(wire))
      BY <1>4, <2>1, <3>1, AnswersTail DEF InOrder
    <3>3. Answers(socket, Len(slot), Sent - Len(wire))'
      BY <1>1, <1>4, <2>2, <3>2 DEF Answers
    <3>4. Len(slot) + 1 <= Sent - Len(wire)
      <4>1. 1 \in 1 .. Len(socket) /\ socket[1] = Head(socket)
        BY <1>4, <2>1
      <4>. QED  BY <1>4, <2>1, <3>1, <3>2, <4>1 DEF InOrder, Answers
    <3>5. ASSUME NEW k \in 1 .. Len(slot') PROVE slot'[k] = k - 1
      <4>1. CASE k \in 1 .. Len(slot)
        <5>1. slot[k] = k - 1
          BY <4>1 DEF InOrder
        <5>. QED  BY <2>2, <4>1, <5>1
      <4>2. CASE k = Len(slot) + 1
        <5>1. slot'[k] = Len(slot)
          BY <2>2, <3>2, <4>2
        <5>. QED  BY <2>1, <4>2, <5>1
      <4>. QED  BY <2>1, <2>2, <4>1, <4>2
    <3>. QED  BY <1>1, <2>2, <3>3, <3>4, <3>5 DEF InOrder
  <2>4. Cardinality(Taken(socket))' <= Cardinality(Taken(socket)) - 1 /\ Cardinality(Taken(socket)) \in Nat
        /\ Cardinality(Taken(socket))' \in Nat
    <3>1. Taken(socket)' = Taken(Tail(socket))
      BY <1>4 DEF Taken
    <3>. QED  BY <1>4, <2>1, <3>1, TakenTail, TakenFinite
  <2>5. NoMoreThanSent'
    BY <1>1, <1>4, <2>1, <2>2, <2>4 DEF NoMoreThanSent, PingData, PingTypes
  <2>. QED  BY <1>1, <1>4, <2>1, <2>2, <2>3, <2>5 DEF PingData, PingTypes
<1>. QED  BY <1>2, <1>3, <1>4 DEF P!ping_recv

(* A message comes to the socket.                                          *)
LEMMA SocketAppend ==
    ASSUME PingTypes, NEW m \in Messages, socket' = Append(socket, m)
    PROVE  /\ socket' \in Seq(Messages)
           /\ Cardinality(Taken(socket))' <=
                  IF P!icmp_unpack(m) THEN Cardinality(Taken(socket)) + 1 ELSE Cardinality(Taken(socket))
           /\ Cardinality(Taken(socket)) \in Nat /\ Cardinality(Taken(socket))' \in Nat
<1>1. socket \in Seq(Messages) /\ socket' \in Seq(Messages)
  BY AppendProperties DEF PingTypes
<1>2. Taken(socket)' = Taken(Append(socket, m)) /\ Append(socket, m) \in Seq(Messages)
  BY <1>1 DEF Taken
<1>. QED  BY <1>1, <1>2, TakenAppend, TakenFinite

LEMMA ArriveData ==
    ASSUME PingData, P!Arrive
    PROVE  PingData'
<1>. DEFINE m == [kind |-> "reply", id |-> "own", seq |-> Head(wire)]
<1>1. /\ wire # << >> /\ wire' = Tail(wire) /\ socket' = Append(socket, m)
      /\ UNCHANGED <<sender, send_count, recv_count, slot, bad, extra>> /\ send_count \in Nat /\ Sent' = Sent /\ Sent \in Nat
  BY DEF P!Arrive, PingData, PingTypes, Sent, P!Threads
<1>2. /\ Head(wire) \in Nat /\ wire' \in Seq(Nat) /\ Len(wire') = Len(wire) - 1 /\ Len(wire) \in Nat \ {0}
      /\ Head(wire) = wire[1] /\ \A k \in 1 .. Len(wire') : wire'[k] = wire[k + 1]
  BY <1>1, HeadTailProperties, LenProperties DEF PingData, PingTypes
<1>3. m \in Messages /\ m.seq = wire[1] /\ P!icmp_unpack(m)
  BY <1>2 DEF Messages, P!icmp_unpack
<1>. HIDE DEF m
<1>4. socket \in Seq(Messages) /\ Len(slot) \in Nat
  BY LenProperties DEF PingData, PingTypes
<1>5. InOrder => InOrder'
  <2>. SUFFICES ASSUME InOrder PROVE InOrder'
    OBVIOUS
  <2>1. Sent - Len(wire) \in Nat /\ Len(slot) <= Sent - Len(wire) /\ wire[1] = Sent - Len(wire)
    BY <1>1, <1>2, <1>4 DEF InOrder
  <2>2. Answers(Append(socket, m), Len(slot), Sent - Len(wire) + 1)
    BY <1>3, <1>4, <2>1, AnswersAppend DEF InOrder
  <2>3. Sent' - Len(wire') = Sent - Len(wire) + 1
    BY <1>1, <1>2
  <2>4. Answers(socket, Len(slot), Sent - Len(wire))'
    BY <1>1, <2>2, <2>3 DEF Answers
  <2>5. \A k \in 1 .. Len(wire') : wire'[k] = Sent' - Len(wire') + k - 1
    <3>1. \A k \in 1 .. Len(wire') : k + 1 \in 1 .. Len(wire)
      BY <1>2
    <3>. QED  BY <1>1, <1>2, <3>1 DEF InOrder
  <2>. QED  BY <1>1, <2>1, <2>3, <2>4, <2>5 DEF InOrder
<1>6. /\ socket' \in Seq(Messages) /\ Cardinality(Taken(socket))' <= Cardinality(Taken(socket)) + 1
      /\ Cardinality(Taken(socket)) \in Nat /\ Cardinality(Taken(socket))' \in Nat
  BY <1>1, <1>3, SocketAppend DEF PingData
<1>7. NoMoreThanSent'
  <2>. DEFINE c == Cardinality(Taken(socket))   d == Cardinality(Taken(socket))'   w == Len(wire)   s == Sent
  <2>1. /\ c \in Nat /\ d \in Nat /\ w \in Nat /\ s \in Nat /\ recv_count \in Nat /\ extra \in Nat /\ d <= c + 1
        /\ recv_count + c + w <= s + extra
    BY <1>1, <1>2, <1>4, <1>6 DEF NoMoreThanSent, PingData, PingTypes
  <2>2. Len(wire') = w - 1 /\ Cardinality(Taken(socket))' = d /\ Sent' = s /\ UNCHANGED <<recv_count, extra>>
    BY <1>1, <1>2
  <2>. HIDE DEF c, d, w, s
  <2>3. recv_count + d + (w - 1) <= s + extra
    BY ONLY <2>1
  <2>. QED  BY <2>2, <2>3 DEF NoMoreThanSent
<1>. QED  BY <1>1, <1>2, <1>5, <1>6, <1>7 DEF PingData, PingTypes

LEMMA MishapData ==
    ASSUME PingData, P!Mishap
    PROVE  PingData'
<1>1. UNCHANGED <<sender, send_count, recv_count, slot>> /\ send_count \in Nat /\ Sent' = Sent /\ Sent \in Nat
  BY DEF P!Mishap, PingData, PingTypes, Sent, P!Threads
<1>2. socket \in Seq(Messages) /\ Len(slot) \in Nat /\ Len(wire) \in Nat /\ extra \in Nat /\ wire \in Seq(Nat)
  BY LenProperties DEF PingData, PingTypes
<1>3. ASSUME bad', UNCHANGED socket, wire' \in Seq(Nat), extra' \in Nat, Len(wire') <= Len(wire) + (extra' - extra)
      PROVE  PingData'
  <2>1. Cardinality(Taken(socket)) \in Nat /\ Taken(socket)' = Taken(socket) /\ Len(wire') \in Nat
    BY <1>2, <1>3, TakenFinite, LenProperties DEF Taken
  <2>2. NoMoreThanSent'
    <3>1. recv_count \in Nat /\ recv_count + Cardinality(Taken(socket)) + Len(wire) <= Sent + extra
      BY <1>2 DEF NoMoreThanSent, PingData, PingTypes
    <3>2. Cardinality(Taken(socket))' = Cardinality(Taken(socket)) /\ recv_count' = recv_count
      BY <1>1, <2>1
    <3>3. recv_count + Cardinality(Taken(socket)) + Len(wire') <= Sent + extra'
      <4>. DEFINE c == Cardinality(Taken(socket))   w == Len(wire')   v == Len(wire)   e == extra'   s == Sent
      <4>1. /\ c \in Nat /\ w \in Nat /\ v \in Nat /\ e \in Nat /\ s \in Nat /\ extra \in Nat /\ recv_count \in Nat
            /\ w <= v + (e - extra) /\ recv_count + c + v <= s + extra
        BY <1>1, <1>2, <1>3, <2>1, <3>1
      <4>. HIDE DEF c, w, v, e, s
      <4>2. recv_count + c + w <= s + e
        BY ONLY <4>1
      <4>. QED  BY <4>2 DEF c, w, v, e, s
    <3>. QED  BY <1>1, <3>2, <3>3 DEF NoMoreThanSent
  <2>. QED  BY <1>1, <1>2, <1>3, <2>2 DEF PingData, PingTypes
<1>4. ASSUME NEW m \in Messages, socket' = Append(socket, m), UNCHANGED wire,
             \/ bad' /\ extra' = extra + 1
             \/ ~P!icmp_unpack(m) /\ UNCHANGED <<bad, extra>>
      PROVE  PingData'
  <2>1. /\ socket' \in Seq(Messages) /\ Cardinality(Taken(socket)) \in Nat /\ Cardinality(Taken(socket))' \in Nat
        /\ Cardinality(Taken(socket))' <= Cardinality(Taken(socket)) + 1
        /\ ~P!icmp_unpack(m) => Cardinality(Taken(socket))' <= Cardinality(Taken(socket))
    <3>1. PingTypes
      BY DEF PingData
    <3>. QED  BY <1>4, <3>1, SocketAppend
  <2>2. NoMoreThanSent'
    <3>1. recv_count \in Nat /\ recv_count + Cardinality(Taken(socket)) + Len(wire) <= Sent + extra
      BY <1>2 DEF NoMoreThanSent, PingData, PingTypes
    <3>2. \/ extra' = extra + 1
          \/ extra' = extra /\ Cardinality(Taken(socket))' <= Cardinality(Taken(socket))
      BY <1>4, <2>1
    <3>3. recv_count + Cardinality(Taken(socket))' + Len(wire) <= Sent + extra'
      BY <1>1, <1>2, <2>1, <3>1, <3>2
    <3>. QED  BY <1>1, <1>4, <3>3 DEF NoMoreThanSent
  <2>3. ASSUME InOrder, ~P!icmp_unpack(m) PROVE InOrder'
    <3>1. Sent - Len(wire) \in Nat
      BY <1>1, <1>2, <2>3 DEF InOrder
    <3>2. Answers(Append(socket, m), Len(slot), Sent - Len(wire))
      BY <1>2, <2>3, <3>1, AnswersAppend DEF InOrder
    <3>3. Answers(socket, Len(slot), Sent - Len(wire))'
      BY <1>1, <1>4, <3>2 DEF Answers
    <3>. QED  BY <1>1, <1>4, <2>3, <3>3 DEF InOrder
  <2>. QED  BY <1>1, <1>2, <1>4, <2>1, <2>2, <2>3 DEF PingData, PingTypes
<1>5. CASE wire # << >> /\ wire' = Tail(wire) /\ bad' = TRUE /\ UNCHANGED <<socket, extra>>
  <2>1. wire' \in Seq(Nat) /\ Len(wire') = Len(wire) - 1
    BY <1>2, <1>5, HeadTailProperties
  <2>. QED  BY <1>2, <1>3, <1>5, <2>1
<1>6. CASE Len(wire) > 1 /\ bad' = TRUE /\ UNCHANGED <<socket, extra>> /\ wire' = Tail(wire) \o <<Head(wire)>>
  <2>1. wire # << >>
    BY <1>6
  <2>2. Tail(wire) \in Seq(Nat) /\ Len(Tail(wire)) = Len(wire) - 1 /\ <<Head(wire)>> \in Seq(Nat) /\ Len(<<Head(wire)>>) = 1
    BY <1>2, <2>1, HeadTailProperties
  <2>. DEFINE rest == Tail(wire)   head == <<Head(wire)>>
  <2>3. wire' = rest \o head /\ rest \in Seq(Nat) /\ head \in Seq(Nat)
    BY <1>6, <2>2, Zenon
  <2>0. Len(rest) = Len(wire) - 1 /\ Len(head) = 1
    BY <2>2
  <2>. HIDE DEF rest, head
  <2>9. rest \o head \in Seq(Nat) /\ Len(rest \o head) = Len(rest) + Len(head)
    BY <2>3, ConcatProperties
  <2>4. wire' \in Seq(Nat) /\ Len(wire') = Len(wire)
    BY <1>2, <2>0, <2>3, <2>9
  <2>5. extra' = extra /\ bad' /\ UNCHANGED socket
    BY <1>6
  <2>6. extra' \in Nat /\ Len(wire') <= Len(wire) + (extra' - extra)
    BY <1>2, <2>4, <2>5
  <2>. QED  BY <1>3, <2>4, <2>5, <2>6
<1>7. CASE wire # << >> /\ wire' = <<Head(wire)>> \o wire /\ bad' = TRUE /\ extra' = extra + 1 /\ UNCHANGED socket
  <2>1. <<Head(wire)>> \in Seq(Nat) /\ Len(<<Head(wire)>>) = 1
    BY <1>2, <1>7, HeadTailProperties
  <2>2. wire' \in Seq(Nat) /\ Len(wire') = Len(wire) + 1
    BY <1>2, <1>7, <2>1, ConcatProperties
  <2>. QED  BY <1>2, <1>3, <1>7, <2>2
<1>8. CASE /\ socket' = Append(socket, [kind |-> "reply", id |-> "own", seq |-> 0])
           /\ bad' = TRUE /\ extra' = extra + 1 /\ UNCHANGED wire
  <2>1. [kind |-> "reply", id |-> "own", seq |-> 0] \in Messages
    BY DEF Messages
  <2>. QED  BY <1>4, <1>8, <2>1
<1>9. CASE \E kind \in {"reply", "request", "short"} :
               /\ socket' = Append(socket, [kind |-> kind, id |-> "other", seq |-> 0])
               /\ UNCHANGED <<wire, bad, extra>>
  <2>1. PICK kind \in {"reply", "request", "short"} :
            /\ socket' = Append(socket, [kind |-> kind, id |-> "other", seq |-> 0])
            /\ UNCHANGED <<wire, bad, extra>>
    BY <1>9
  <2>2. [kind |-> kind, id |-> "other", seq |-> 0] \in Messages /\ ~P!icmp_unpack([kind |-> kind, id |-> "other", seq |-> 0])
    BY DEF Messages, P!icmp_unpack
  <2>. QED  BY <1>4, <2>1, <2>2
<1>. QED  BY <1>5, <1>6, <1>7, <1>8, <1>9 DEF P!Mishap

LEMMA PingStart ==
    ASSUME PACKET_SEND_MAX_NUM \in Nat \ {0}
    PROVE  P!PingInit => PingData /\ PingLoops
<1>. SUFFICES ASSUME P!PingInit PROVE PingData /\ PingLoops
  OBVIOUS
<1>1. /\ slot = << >> /\ socket = << >> /\ wire = << >> /\ recv_count = 0 /\ send_count = 0 /\ extra = 0
      /\ sender = "" /\ receiver = "" /\ main = "socket" /\ ~interrupted /\ timed = "no"
  BY DEF P!PingInit
<1>0. sender # "failed" /\ sender # "sent" /\ sender # "send" /\ sender # "done" /\ receiver # "select" /\ receiver # "done"
  BY <1>1, Zenon
<1>2. /\ slot \in Seq(Nat) /\ socket \in Seq(Messages) /\ wire \in Seq(Nat)
      /\ Len(slot) = 0 /\ Len(socket) = 0 /\ Len(wire) = 0
  BY <1>1, EmptySeq
<1>3. Taken(socket) = {} /\ Cardinality(Taken(socket)) = 0
  <2>1. Taken(socket) = {}
    BY <1>2 DEF Taken
  <2>. QED  BY <2>1, FS_EmptySet
<1>4. Sent = 0
  BY <1>0, <1>1 DEF Sent
<1>5. recv_count = 0 /\ send_count = 0 /\ extra = 0 /\ PingPlaces
  BY <1>1, Zenon DEF PingPlaces
<1>6. InOrder
  BY <1>0, <1>2, <1>4 DEF InOrder, Answers
<1>7. PingData
  BY <1>2, <1>3, <1>4, <1>5, <1>6 DEF PingData, PingTypes, NoMoreThanSent
<1>8. PingLoops
  BY <1>0, <1>5 DEF PingLoops, Loop
<1>. QED  BY <1>7, <1>8

(* The loops count up to PACKET_SEND_MAX_NUM, or to SIGINT.                *)
LEMMA LoopTest ==
    ASSUME PACKET_SEND_MAX_NUM \in Nat \ {0}, NEW count \in Nat, NEW goes, NEW x, UNCHANGED interrupted,
           goes = "send" \/ goes = "select", ~interrupted => alive, count <= PACKET_SEND_MAX_NUM,
           x = IF P!Goes(count) THEN goes ELSE "done"
    PROVE  Loop(x, count)'
<1>1. CASE P!Goes(count)
  <2>1. count < PACKET_SEND_MAX_NUM /\ x # "done"
    BY <1>1 DEF P!Goes
  <2>. QED  BY <2>1 DEF Loop
<1>2. CASE ~P!Goes(count)
  <2>1. x = "done" /\ (~interrupted => count >= PACKET_SEND_MAX_NUM)
    BY <1>2 DEF P!Goes
  <2>2. ~interrupted => count = PACKET_SEND_MAX_NUM
    BY <2>1
  <2>. QED  BY <2>1, <2>2 DEF Loop
<1>. QED  BY <1>1, <1>2

LEMMA LoopCount ==
    ASSUME PACKET_SEND_MAX_NUM \in Nat \ {0}, NEW count \in Nat, NEW x, count < PACKET_SEND_MAX_NUM,
           x = "test" \/ x = "sleep"
    PROVE  Loop(x, count)' /\ Loop(x, count + 1)'
BY DEF Loop

LEMMA LoopsStep ==
    ASSUME PACKET_SEND_MAX_NUM \in Nat \ {0}, PingTypes, PingLoops, P!PingNext
    PROVE  PingLoops'
<1>0. send_count \in Nat /\ recv_count \in Nat
  BY LenProperties DEF PingTypes
<1>1. PingPlaces /\ Loop(sender, send_count) /\ Loop(receiver, recv_count)
  BY DEF PingLoops
<1>2. ASSUME UNCHANGED <<send_count, recv_count>>, interrupted => interrupted', PingPlaces',
             sender' = sender \/ sender' = "begin", receiver' = receiver \/ receiver' = "test"
      PROVE  PingLoops'
  BY <1>1, <1>2 DEF Loop, PingLoops
<1>3. CASE P!raw_sock
  <2>1. PingPlaces'
    BY <1>1, <1>3 DEF P!raw_sock, PingPlaces, P!Threads, P!Network
  <2>. QED  BY <1>2, <1>3, <2>1 DEF P!raw_sock, P!Threads
<1>4. CASE P!set_dest
  <2>1. PingPlaces'
    BY <1>1, <1>4 DEF P!set_dest, PingPlaces
  <2>. QED  BY <1>2, <1>4, <2>1 DEF P!set_dest
<1>5. CASE P!StartThreads
  <2>1. PingPlaces'
    BY <1>1, <1>5 DEF P!StartThreads, PingPlaces
  <2>. QED  BY <1>2, <1>5, <2>1 DEF P!StartThreads
<1>6. CASE P!Stats
  <2>1. PingPlaces'
    BY <1>1, <1>6 DEF P!Stats, PingPlaces, P!Threads
  <2>. QED  BY <1>2, <1>6, <2>1 DEF P!Stats, P!Threads
<1>7. CASE P!ping_send
  <2>1. UNCHANGED <<main, alive, recv_count, receiver, timed, interrupted>> /\ (main = "one" \/ main = "both")
    BY <1>7 DEF P!ping_send, P!Running
  <2>2. PingPlaces' /\ (~interrupted => alive) /\ Loop(receiver, recv_count)'
    BY <1>1, <2>1 DEF PingPlaces, Loop
  <2>3. CASE sender = "test" /\ sender' = (IF P!Goes(send_count) THEN "send" ELSE "done") /\ UNCHANGED send_count
    <3>1. send_count <= PACKET_SEND_MAX_NUM
      BY <1>1 DEF Loop
    <3>2. Loop(sender, send_count)'
      BY <1>0, <2>1, <2>2, <2>3, <3>1, LoopTest
    <3>. QED  BY <2>2, <3>2 DEF PingLoops
  <2>4. CASE (sender = "sent" \/ sender = "failed") /\ send_count' = send_count + 1 /\ (sender' = "test" \/ sender' = "sleep")
    <3>1. send_count < PACKET_SEND_MAX_NUM
      BY <1>1, <2>4 DEF Loop
    <3>2. Loop(sender, send_count)'
      BY <1>0, <2>4, <3>1, LoopCount
    <3>. QED  BY <2>2, <3>2 DEF PingLoops
  <2>5. CASE UNCHANGED send_count /\ \/ sender' = "test"
                                     \/ sender = "send" /\ (sender' = "sent" \/ sender' = "failed")
    <3>1. Loop(sender, send_count)'
      BY <1>1, <2>5 DEF Loop
    <3>. QED  BY <2>2, <3>1 DEF PingLoops
  <2>. QED  BY <1>7, <2>3, <2>4, <2>5 DEF P!ping_send
<1>8. CASE P!ping_recv
  <2>1. UNCHANGED <<main, alive, send_count, sender, timed, interrupted>> /\ (main = "one" \/ main = "both")
    BY <1>8 DEF P!ping_recv, P!Running
  <2>2. PingPlaces' /\ (~interrupted => alive) /\ Loop(sender, send_count)'
    BY <1>1, <2>1 DEF PingPlaces, Loop
  <2>3. CASE receiver = "test" /\ receiver' = (IF P!Goes(recv_count) THEN "select" ELSE "done") /\ UNCHANGED recv_count
    <3>1. recv_count <= PACKET_SEND_MAX_NUM
      BY <1>1 DEF Loop
    <3>2. Loop(receiver, recv_count)'
      BY <1>0, <2>1, <2>2, <2>3, <3>1, LoopTest
    <3>. QED  BY <2>2, <3>2 DEF PingLoops
  <2>4. CASE receiver = "select" /\ receiver' = "test" /\ (recv_count' = recv_count \/ recv_count' = recv_count + 1)
    <3>1. recv_count < PACKET_SEND_MAX_NUM
      BY <1>1, <2>4 DEF Loop
    <3>2. Loop(receiver, recv_count)'
      BY <1>0, <2>4, <3>1, LoopCount
    <3>. QED  BY <2>2, <3>2 DEF PingLoops
  <2>. QED  BY <1>8, <2>3, <2>4 DEF P!ping_recv
<1>9. CASE P!Arrive \/ P!Mishap
  <2>1. UNCHANGED <<main, alive, sender, receiver, send_count, recv_count, timed, interrupted>>
    BY <1>9 DEF P!Arrive, P!Mishap, P!Threads
  <2>2. PingPlaces'
    BY <1>1, <2>1 DEF PingPlaces
  <2>. QED  BY <1>2, <2>1, <2>2
<1>10. CASE P!icmp_sigint
  <2>1. PingPlaces'
    BY <1>1, <1>10 DEF P!icmp_sigint, PingPlaces
  <2>. QED  BY <1>2, <1>10, <2>1 DEF P!icmp_sigint
<1>. QED  BY <1>3, <1>4, <1>5, <1>6, <1>7, <1>8, <1>9, <1>10 DEF P!PingNext, P!MainStep

LEMMA DataStep ==
    ASSUME PingData, PingLoops, P!PingNext
    PROVE  PingData'
<1>1. ASSUME P!raw_sock \/ P!set_dest \/ P!StartThreads \/ P!Stats \/ P!icmp_sigint PROVE PingData'
  <2>1. UNCHANGED <<slot, recv_count, send_count, socket, wire, bad, extra>>
    BY <1>1 DEF P!raw_sock, P!set_dest, P!StartThreads, P!Stats, P!icmp_sigint, P!Threads, P!Network
  <2>2. UNCHANGED sender \/ (sender = "" /\ sender' = "begin")
    BY <1>1 DEF P!raw_sock, P!set_dest, P!StartThreads, P!Stats, P!icmp_sigint, P!Threads, P!Network, PingLoops, PingPlaces
  <2>3. Sent' = Sent /\ (sender' = "failed" => sender = "failed")
    BY <2>1, <2>2 DEF Sent
  <2>4. send_count' \in Nat
    BY <2>1 DEF PingData, PingTypes
  <2>. QED  BY <2>1, <2>3, <2>4, DataKept
<1>. QED  BY <1>1, SendData, RecvData, ArriveData, MishapData DEF P!PingNext, P!MainStep

LEMMA PingPart == [Next]_all => [P!PingNext]_pingVars
<1>. SUFFICES ASSUME [Next]_all PROVE [P!PingNext]_pingVars
  OBVIOUS
<1>1. CASE UNCHANGED all
  BY <1>1 DEF all, pingVars
<1>2. CASE Next
  BY <1>2 DEF Next, InPopen, InFd, InConn, InPing, InOld, InDaemon, InCo, pingVars
<1>. QED  BY <1>1, <1>2

(* The k-th slot has the time of the k-th request unless something bad     *)
(* happened to a request or an answer, no more answers are counted than    *)
(* were sent and came twice, and only SIGINT before the first request can  *)
(* divide by zero or give the time since 1970 (ping.c:88, 104, 113).       *)
THEOREM SlotsRight ==
    ASSUME PACKET_SEND_MAX_NUM \in Nat \ {0}
    PROVE  Spec => []SlotRight
<1>. DEFINE PingInv == PingData /\ PingLoops
<1>1. Init => PingInv
  BY PingStart DEF Init
<1>2. PingInv /\ [Next]_all => PingInv'
  <2>. SUFFICES ASSUME PingInv, [Next]_all PROVE PingInv'
    OBVIOUS
  <2>1. CASE P!PingNext
    BY <2>1, LoopsStep, DataStep DEF PingData
  <2>2. CASE UNCHANGED pingVars
    <3>1. Sent' = Sent
      BY <2>2 DEF pingVars, Sent
    <3>2. PingData'
      BY <2>2, <3>1, DataKept DEF pingVars, PingData, PingTypes
    <3>3. PingLoops'
      BY <2>2 DEF pingVars, PingLoops, PingPlaces, Loop
    <3>. QED  BY <3>2, <3>3
  <2>. QED  BY <2>1, <2>2, PingPart
<1>3. PingInv => SlotRight
  <2>. SUFFICES ASSUME PingData, PingLoops PROVE P!SlotRight
    BY DEF SlotRight
  <2>1. DOMAIN slot = 1 .. Len(slot) /\ Len(slot) \in Nat /\ Len(wire) \in Nat
    BY LenProperties DEF PingData, PingTypes
  <2>2. ~bad => \A k \in DOMAIN slot : slot[k] = k - 1
    BY <2>1 DEF PingData, InOrder
  <2>3. main = "shown" => recv_count <= send_count + extra
    <3>1. Cardinality(Taken(socket)) \in Nat
      BY TakenFinite DEF PingData, PingTypes
    <3>2. main = "shown" => Sent = send_count
      BY DEF PingLoops, PingPlaces, Sent
    <3>. QED  BY <2>1, <3>1, <3>2 DEF PingData, PingTypes, NoMoreThanSent
  <2>4. /\ main = "division by zero" => interrupted
        /\ timed = "from 1970" => interrupted
        /\ main = "shown" /\ ~interrupted => timed = "no" /\ recv_count = send_count
    BY DEF PingLoops, PingPlaces, Loop
  <2>. QED  BY <2>2, <2>3, <2>4 DEF P!SlotRight
<1>. HIDE DEF PingInv
<1>. QED  BY <1>1, <1>2, <1>3, PTL DEF Spec

-----------------------------------------------------------------------------
(* The older traceroutes.  Without other traffic, every message on its way *)
(* comes from no farther than the ttl, and one that says the trace got     *)
(* there from the target.  In step, at most one answer is under way, only  *)
(* while its probe waits for it, and it is an answer to that probe.        *)
OldRecord == [type : {"timxceed", "unreach"}, code : {0, 1, 2, 3, 13}, from : Int, foreign : {FALSE}]
OldMessage ==
    {m \in OldRecord :
        /\ m.from <= Target
        /\ m.type = "unreach" => m.code # 0 /\ (m.code \in {2, 3} => m.from = Target)}
Near(s) == s \in Seq(OldMessage) /\ \A k \in 1 .. Len(s) : s[k].from <= ttl
Quiet == flight = << >> /\ old_socket = << >>
OnItsWay(a) == (flight = <<a>> /\ old_socket = << >>) \/ (flight = << >> /\ old_socket = <<a>>)
Waits == Quiet \/ (\E a \in O!Answers : OnItsWay(a))
LinesNear == \A r \in old_shown : version = "udp" /\ r.from <= r.ttl /\ r.from <= Target
LinesOfRouters == \A r \in old_shown : r.exceeded => r.from = r.ttl
EndsEarly == at = "ended" /\ ttl \in 2 .. MaxTtl => got_there > 0 \/ unreachable >= 2
Told == got_there \in Nat /\ unreachable \in Nat /\ got_there + unreachable = told
GotThere == got_there > 0 => \E r \in old_shown : r.from = Target
AloneInv ==
    /\ Near(flight) /\ Near(old_socket) /\ (version # "udp" => Quiet)
    /\ LinesNear /\ EndsEarly /\ Told /\ GotThere
StepInv ==
    /\ (at # "select" => Quiet) /\ (at = "select" => Waits)
    /\ LinesOfRouters
OldInv ==
    /\ ttl \in Nat /\ foreign \in Nat /\ (at = "open" => ttl = 1)
    /\ foreign = 0 => AloneInv /\ (~late => StepInv)

(* What an answer says.                                                    *)
LEMMA AnswerIs ==
    ASSUME NEW a \in O!Answers, ttl \in Nat, Target \in Nat \ {0}
    PROVE  a \in OldMessage /\ a.from <= ttl /\ (a.type = "timxceed" => a.from = ttl)
<1>1. \/ \E hop \in {h \in 1 .. ttl : h < Target}, code \in {1, 13} : a = O!Says("unreach", code, hop)
      \/ ttl >= Target /\ \E code \in {2, 3, 13} : a = O!Says("unreach", code, Target)
      \/ ~(ttl >= Target) /\ a = O!Says("timxceed", 0, ttl)
  BY DEF O!Answers, O!PORT, O!PROTOCOL, O!HOST, O!FILTER_PROHIB
<1>2. CASE \E hop \in {h \in 1 .. ttl : h < Target}, code \in {1, 13} : a = O!Says("unreach", code, hop)
  <2>1. PICK hop \in {h \in 1 .. ttl : h < Target}, code \in {1, 13} : a = O!Says("unreach", code, hop)
    BY <1>2
  <2>2. a = [type |-> "unreach", code |-> code, from |-> hop, foreign |-> FALSE] /\ hop \in Int
    BY <2>1 DEF O!Says
  <2>3. a.type = "unreach" /\ a.code = code /\ a.from = hop
    BY <2>2
  <2>4. a \in OldRecord
    BY <2>2, <2>1 DEF OldRecord
  <2>. QED  BY <2>1, <2>3, <2>4 DEF OldMessage
<1>3. CASE ttl >= Target /\ \E code \in {2, 3, 13} : a = O!Says("unreach", code, Target)
  <2>1. PICK code \in {2, 3, 13} : a = O!Says("unreach", code, Target)
    BY <1>3
  <2>2. a = [type |-> "unreach", code |-> code, from |-> Target, foreign |-> FALSE]
    BY <2>1 DEF O!Says
  <2>3. a.type = "unreach" /\ a.code = code /\ a.from = Target
    BY <2>2
  <2>4. a \in OldRecord
    BY <2>2, <2>1 DEF OldRecord
  <2>. QED  BY <1>3, <2>1, <2>3, <2>4 DEF OldMessage
<1>4. CASE ~(ttl >= Target) /\ a = O!Says("timxceed", 0, ttl)
  <2>1. a = [type |-> "timxceed", code |-> 0, from |-> ttl, foreign |-> FALSE]
    BY <1>4 DEF O!Says
  <2>2. a.type = "timxceed" /\ a.from = ttl
    BY <2>1
  <2>3. a \in OldRecord
    BY <2>1 DEF OldRecord
  <2>. QED  BY <1>4, <2>2, <2>3 DEF OldMessage
<1>. QED  BY <1>1, <1>2, <1>3, <1>4

LEMMA NearAppend ==
    ASSUME NEW s, NEW m, Near(s), m \in OldMessage, m.from <= ttl
    PROVE  Near(Append(s, m))
<1>1. Append(s, m) \in Seq(OldMessage) /\ Len(Append(s, m)) = Len(s) + 1 /\ Len(s) \in Nat
  BY DEF Near
<1>2. \A k \in 1 .. Len(s) + 1 : Append(s, m)[k] = IF k = Len(s) + 1 THEN m ELSE s[k]
  BY DEF Near
<1>. QED  BY <1>1, <1>2 DEF Near

LEMMA NearTail ==
    ASSUME NEW s, Near(s), s # << >>
    PROVE  Near(Tail(s)) /\ Head(s) \in OldMessage /\ Head(s).from <= ttl
<1>1. s \in Seq(OldMessage) /\ Len(s) \in Nat \ {0} /\ Head(s) = s[1]
  BY EmptySeq DEF Near
<1>2. Tail(s) \in Seq(OldMessage) /\ Len(Tail(s)) = Len(s) - 1
  BY <1>1, HeadTailProperties
<1>3. \A k \in 1 .. Len(s) - 1 : Tail(s)[k] = s[k + 1]
  BY <1>1, HeadTailProperties
<1>4. 1 \in 1 .. Len(s) /\ \A k \in 1 .. Len(s) - 1 : k + 1 \in 1 .. Len(s)
  BY <1>1
<1>5. s[1] \in OldMessage /\ s[1].from <= ttl
  BY <1>1, <1>4, ElementOfSeq DEF Near
<1>. QED  BY <1>1, <1>2, <1>3, <1>4, <1>5 DEF Near

(* What is near stays near when the ttl grows.                             *)
LEMMA NearKept ==
    ASSUME NEW s, Near(s), ttl \in Nat, ttl' \in {ttl, ttl + 1}
    PROVE  s \in Seq(OldMessage) /\ \A k \in 1 .. Len(s) : s[k].from <= ttl'
<1>1. \A k \in 1 .. Len(s) : s[k].from \in Int
  <2>1. s \in Seq(OldMessage)
    BY DEF Near
  <2>2. \A k \in 1 .. Len(s) : s[k] \in OldMessage
    BY <2>1, ElementOfSeq
  <2>. QED  BY <2>2 DEF OldMessage, OldRecord
<1>2. ASSUME NEW k \in 1 .. Len(s) PROVE s[k].from <= ttl'
  <2>1. s[k].from \in Int /\ s[k].from <= ttl
    BY <1>1 DEF Near
  <2>. QED  BY <2>1
<1>. QED  BY <1>2 DEF Near

LEMMA OldStart == Target \in Nat \ {0} /\ O!OldInit => OldInv
<1>. SUFFICES ASSUME O!OldInit PROVE OldInv
  OBVIOUS
<1>1. /\ at = "open" /\ ttl = 1 /\ got_there = 0 /\ unreachable = 0 /\ told = 0 /\ ~late /\ foreign = 0
      /\ flight = << >> /\ old_socket = << >> /\ old_shown = {}
  BY DEF O!OldInit
<1>2. Near(flight) /\ Near(old_socket)
  BY <1>1 DEF Near
<1>. QED  BY <1>1, <1>2 DEF OldInv, AloneInv, StepInv, Quiet, LinesNear, LinesOfRouters, EndsEarly, Told, GotThere

(* The end of a probe.                                                     *)
LEMMA NextProbe ==
    ASSUME NEW got \in Nat, NEW unr \in Nat, O!Next3(got, unr), ttl \in Nat, got_there' = got, unreachable' = unr,
           MaxTtl \in Int
    PROVE  at' \notin {"select", "open"} /\ EndsEarly' /\ ttl' \in {ttl, ttl + 1}
<1>1. CASE version = "udp" /\ (got > 0 \/ unr >= 2)
  BY <1>1 DEF O!Next3, EndsEarly
<1>2. CASE ~(version = "udp" /\ (got > 0 \/ unr >= 2)) /\ probe < Probes - 1
  BY <1>2 DEF O!Next3, EndsEarly
<1>3. CASE ~(version = "udp" /\ (got > 0 \/ unr >= 2)) /\ ~(probe < Probes - 1)
  <2>1. ttl' = ttl + 1 /\ at' = IF version = "icmp" THEN "sleep" ELSE IF ttl = MaxTtl THEN "ended" ELSE "probe"
    BY <1>3 DEF O!Next3
  <2>2. at' \notin {"select", "open"} /\ (at' = "ended" => ttl = MaxTtl)
    BY <2>1
  <2>. QED  BY <2>1, <2>2 DEF EndsEarly
<1>. QED  BY <1>1, <1>2, <1>3

LEMMA OldTimeout ==
    ASSUME OldInv, MaxTtl \in Int, O!Timeout
    PROVE  OldInv'
<1>1. at = "select" /\ old_socket = << >> /\ UNCHANGED <<version, got_there, unreachable, old_shown, told, flight, old_socket, foreign>>
  BY DEF O!Timeout, O!Counters
<1>2. CASE tv > 0
  <2>1. UNCHANGED <<at, ttl, probe, late>>
    BY <1>2 DEF O!Timeout
  <2>2. O!Answers' = O!Answers
    BY <2>1 DEF O!Answers
  <2>3. AloneInv => AloneInv'
    BY <1>1, <2>1 DEF AloneInv, Near, Quiet, LinesNear, EndsEarly, Told, GotThere
  <2>4. StepInv => StepInv'
    BY <1>1, <2>1, <2>2 DEF StepInv, Quiet, OnItsWay, Waits, LinesOfRouters
  <2>. QED  BY <1>1, <2>1, <2>3, <2>4 DEF OldInv
<1>3. CASE ~(tv > 0)
  <2>1. late' = (late \/ flight # << >>) /\ O!Next3(got_there, unreachable)
    BY <1>3 DEF O!Timeout
  <2>2. ttl \in Nat /\ foreign \in Nat
    BY DEF OldInv
  <2>3. ttl' \in Nat /\ at' # "open"
    BY <2>1, <2>2 DEF O!Next3
  <2>4. ASSUME foreign' = 0 PROVE AloneInv' /\ (~late' => StepInv')
    <3>1. foreign = 0 /\ AloneInv /\ (~late => StepInv)
      BY <1>1, <2>4 DEF OldInv
    <3>2. at' # "select" /\ EndsEarly' /\ ttl' \in {ttl, ttl + 1}
      BY <1>1, <2>1, <2>2, <3>1, NextProbe DEF AloneInv, Told
    <3>3. Near(flight)' /\ Near(old_socket)'
      BY <1>1, <2>2, <3>1, <3>2, NearKept DEF AloneInv, Near
    <3>4. AloneInv'
      BY <1>1, <3>1, <3>2, <3>3 DEF AloneInv, Quiet, LinesNear, Told, GotThere
    <3>5. ASSUME ~late' PROVE StepInv'
      BY <1>1, <2>1, <3>1, <3>2, <3>5 DEF StepInv, Quiet, LinesOfRouters
    <3>. QED  BY <3>4, <3>5
  <2>. QED  BY <1>1, <2>2, <2>3, <2>4 DEF OldInv
<1>. QED  BY <1>2, <1>3

LEMMA OldRecv ==
    ASSUME OldInv, MaxTtl \in Int, Target \in Nat \ {0}, O!Recv
    PROVE  OldInv'
<1>. DEFINE m == Head(old_socket)
            x == IF version = "udp" THEN O!udp_packet_ok(m) ELSE O!icmp_packet_ok(m)
            got == IF x - 1 \in {O!PORT, O!PROTOCOL} THEN got_there + 1 ELSE got_there
            unr == IF x - 1 \in {O!NET, O!HOST, O!NEEDFRAG, O!SRCFAIL} THEN unreachable + 1 ELSE unreachable
            line == [ttl |-> ttl, from |-> m.from, exceeded |-> m.type = "timxceed"]
<1>1. /\ at = "select" /\ old_socket # << >> /\ old_socket' = Tail(old_socket)
      /\ got_there' = got /\ unreachable' = unr
      /\ old_shown' = (IF x # 0 THEN old_shown \cup {line} ELSE old_shown)
      /\ told' = (IF ~m.foreign /\ m.type = "unreach" /\ m.code # 13 THEN told + 1 ELSE told)
      /\ IF version = "icmp" /\ x = 0 THEN at' = "ended" /\ UNCHANGED <<ttl, probe>> ELSE O!Next3(got, unr)
      /\ UNCHANGED <<version, flight, late, foreign>>
  BY DEF O!Recv, O!FILTER_PROHIB
<1>2. ttl \in Nat /\ foreign \in Nat
  BY DEF OldInv
<1>3. ttl' \in Nat /\ at' # "open"
  BY <1>1, <1>2 DEF O!Next3
<1>4. ASSUME foreign = 0 PROVE AloneInv' /\ (~late' => StepInv')
  <2>1. AloneInv /\ (~late => StepInv)
    BY <1>4 DEF OldInv
  <2>2. version = "udp"
    BY <1>1, <2>1 DEF AloneInv, Quiet
  <2>3. m \in OldMessage /\ m.from <= ttl /\ Near(Tail(old_socket))
    BY <1>1, <2>1, NearTail DEF AloneInv
  <2>4. x = IF m.type \in {"timxceed", "short"} THEN -1 ELSE m.code + 1
    BY <2>2 DEF O!udp_packet_ok
  <2>5. line.ttl = ttl /\ line.from = m.from /\ line.exceeded = (m.type = "timxceed")
    OBVIOUS
  <2>. HIDE DEF m, line, x
  <2>6. /\ \/ got = got_there /\ unr = unreachable /\ told' = told
           \/ got = got_there + 1 /\ unr = unreachable /\ told' = told + 1 /\ m.from = Target
           \/ got = got_there /\ unr = unreachable + 1 /\ told' = told + 1
        /\ x # 0
    <3>1. CASE m.type = "timxceed"
      <4>1. x = -1
        BY <2>4, <3>1
      <4>. QED  BY <1>1, <3>1, <4>1 DEF O!PORT, O!PROTOCOL, O!NET, O!HOST, O!NEEDFRAG, O!SRCFAIL
    <3>2. CASE m.type = "unreach"
      <4>1. x = m.code + 1 /\ m.code \in {1, 2, 3, 13} /\ ~m.foreign /\ (m.code \in {2, 3} => m.from = Target)
        BY <2>3, <2>4, <3>2 DEF OldMessage, OldRecord
      <4>2. /\ got = IF m.code \in {2, 3} THEN got_there + 1 ELSE got_there
            /\ unr = IF m.code = 1 THEN unreachable + 1 ELSE unreachable
        BY <4>1 DEF O!PORT, O!PROTOCOL, O!NET, O!HOST, O!NEEDFRAG, O!SRCFAIL
      <4>3. told' = IF m.code # 13 THEN told + 1 ELSE told
        BY <1>1, <3>2, <4>1
      <4>. HIDE DEF got, unr
      <4>. QED  BY <4>1, <4>2, <4>3
    <3>. QED  BY <2>3, <3>1, <3>2 DEF OldMessage, OldRecord
  <2>. HIDE DEF got, unr
  <2>7. got \in Nat /\ unr \in Nat /\ O!Next3(got, unr) /\ Told'
    BY <1>1, <2>1, <2>2, <2>6 DEF AloneInv, Told
  <2>8. at' # "select" /\ EndsEarly' /\ ttl' \in {ttl, ttl + 1}
    BY <1>1, <1>2, <2>7, NextProbe
  <2>9. Near(flight)' /\ Near(old_socket)'
    BY <1>1, <1>2, <2>1, <2>3, <2>8, NearKept DEF AloneInv, Near
  <2>10. old_shown' = old_shown \cup {line} /\ line.from <= line.ttl /\ line.from <= Target
    BY <1>1, <2>3, <2>5, <2>6 DEF OldMessage, OldRecord
  <2>11. LinesNear' /\ GotThere'
    BY <1>1, <2>1, <2>2, <2>5, <2>6, <2>10 DEF AloneInv, LinesNear, GotThere, Told
  <2>12. AloneInv'
    BY <1>1, <2>2, <2>7, <2>8, <2>9, <2>11 DEF AloneInv
  <2>13. ASSUME ~late' PROVE StepInv'
    <3>1. PICK a \in O!Answers : flight = << >> /\ old_socket = <<a>>
      BY <1>1, <2>1, <2>13 DEF StepInv, Waits, Quiet, OnItsWay
    <3>2. m = a /\ old_socket' = << >> /\ flight' = << >>
      BY <1>1, <3>1 DEF m
    <3>3. line.exceeded => line.from = line.ttl
      BY <1>2, <2>5, <3>2, AnswerIs
    <3>. QED  BY <1>1, <2>1, <2>8, <2>10, <2>13, <3>2, <3>3 DEF StepInv, Quiet, LinesOfRouters
  <2>. QED  BY <2>12, <2>13
<1>. QED  BY <1>1, <1>2, <1>3, <1>4 DEF OldInv

LEMMA OldArrive ==
    ASSUME OldInv, O!Arrive
    PROVE  OldInv'
<1>1. /\ flight # << >> /\ flight' = Tail(flight) /\ old_socket' = Append(old_socket, Head(flight))
      /\ UNCHANGED <<version, at, ttl, probe, tv, got_there, unreachable, old_shown, told, late, foreign>>
  BY DEF O!Arrive, O!Counters
<1>2. ASSUME foreign = 0 PROVE AloneInv' /\ (~late => StepInv')
  <2>1. AloneInv /\ (~late => StepInv)
    BY <1>2 DEF OldInv
  <2>2. Near(Tail(flight)) /\ Near(Append(old_socket, Head(flight)))
    BY <1>1, <2>1, NearTail, NearAppend DEF AloneInv
  <2>3. Near(flight)' /\ Near(old_socket)'
    BY <1>1, <2>2 DEF Near
  <2>4. AloneInv'
    BY <1>1, <2>1, <2>3 DEF AloneInv, Quiet, LinesNear, EndsEarly, Told, GotThere
  <2>5. ASSUME ~late PROVE StepInv'
    <3>1. PICK a \in O!Answers : at = "select" /\ flight = <<a>> /\ old_socket = << >>
      BY <1>1, <2>1, <2>5 DEF StepInv, Waits, Quiet, OnItsWay
    <3>2. flight' = << >> /\ old_socket' = <<a>>
      BY <1>1, <3>1
    <3>3. O!Answers' = O!Answers
      BY <1>1 DEF O!Answers
    <3>4. Waits'
      BY <3>2, <3>3 DEF Waits, OnItsWay
    <3>. QED  BY <1>1, <2>1, <2>5, <3>1, <3>4 DEF StepInv, LinesOfRouters
  <2>. QED  BY <2>4, <2>5
<1>. QED  BY <1>1, <1>2 DEF OldInv

LEMMA OldSend ==
    ASSUME OldInv, Target \in Nat \ {0}, O!send_probe
    PROVE  OldInv'
<1>1. /\ at = "probe" /\ at' = "select" /\ UNCHANGED <<ttl, tv, got_there, unreachable, old_shown, told, old_socket>>
      /\ UNCHANGED <<version, late, foreign>>
      /\ \/ UNCHANGED flight
         \/ version = "udp" /\ \E a \in O!Answers : flight' = Append(flight, a)
  BY DEF O!send_probe, O!Counters
<1>2. ASSUME foreign = 0 PROVE AloneInv' /\ (~late => StepInv')
  <2>1. AloneInv /\ (~late => StepInv) /\ ttl \in Nat
    BY <1>2 DEF OldInv
  <2>2. ASSUME NEW a \in O!Answers PROVE Near(Append(flight, a))
    BY <2>1, <2>2, AnswerIs, NearAppend DEF AloneInv
  <2>3. Near(flight)' /\ Near(old_socket)'
    BY <1>1, <2>1, <2>2 DEF AloneInv, Near
  <2>4. AloneInv'
    BY <1>1, <2>1, <2>3 DEF AloneInv, Quiet, LinesNear, EndsEarly, Told, GotThere
  <2>5. ASSUME ~late PROVE StepInv'
    <3>1. O!Answers' = O!Answers
      BY <1>1 DEF O!Answers
    <3>2. Waits'
      BY <1>1, <2>1, <2>5, <3>1 DEF StepInv, Waits, Quiet, OnItsWay
    <3>. QED  BY <1>1, <2>1, <2>5, <3>2 DEF StepInv, LinesOfRouters
  <2>. QED  BY <2>4, <2>5
<1>. QED  BY <1>1, <1>2 DEF OldInv

LEMMA OldStep ==
    ASSUME MaxTtl \in Int, Target \in Nat \ {0}
    PROVE  OldInv /\ [O!OldNext]_oldVars => OldInv'
<1>. SUFFICES ASSUME OldInv, [O!OldNext]_oldVars PROVE OldInv'
  OBVIOUS
<1>1. ASSUME UNCHANGED <<version, ttl, tv, got_there, unreachable, old_shown, told, flight, old_socket, late, foreign>>,
             at' # "select" /\ at # "select" /\ at' # "open" /\ (at' = "ended" => at = "ended" \/ ttl = 1 \/ ttl > MaxTtl)
      PROVE  OldInv'
  <2>1. ASSUME AloneInv, ttl \in Nat PROVE AloneInv'
    <3>1. EndsEarly'
      BY <1>1, <2>1 DEF AloneInv, EndsEarly
    <3>. QED  BY <1>1, <2>1, <3>1 DEF AloneInv, Near, Quiet, LinesNear, Told, GotThere
  <2>2. StepInv => StepInv'
    BY <1>1 DEF StepInv, Quiet, LinesOfRouters
  <2>. QED  BY <1>1, <2>1, <2>2 DEF OldInv
<1>2. ASSUME UNCHANGED oldVars PROVE OldInv'
  <2>1. O!Answers' = O!Answers
    BY <1>2 DEF oldVars, O!Answers
  <2>2. AloneInv => AloneInv'
    BY <1>2 DEF oldVars, AloneInv, Near, Quiet, LinesNear, EndsEarly, Told, GotThere
  <2>3. StepInv => StepInv'
    BY <1>2, <2>1 DEF oldVars, StepInv, Quiet, OnItsWay, Waits, LinesOfRouters
  <2>. QED  BY <1>2, <2>2, <2>3 DEF oldVars, OldInv
<1>3. CASE O!Open
  <2>1. ttl = 1
    BY <1>3 DEF O!Open, OldInv
  <2>. QED  BY <1>1, <1>3, <2>1 DEF O!Open, O!Counters
<1>4. CASE O!Foreign
  BY <1>4 DEF O!Foreign, O!Counters, OldInv
<1>5. CASE O!Sleep1
  BY <1>1, <1>5 DEF O!Sleep1, O!Counters
<1>. QED  BY <1>2, <1>3, <1>4, <1>5, OldTimeout, OldRecv, OldArrive, OldSend DEF O!OldNext

LEMMA OldPart == [Next]_all => [O!OldNext]_oldVars
<1>. SUFFICES ASSUME [Next]_all PROVE [O!OldNext]_oldVars
  OBVIOUS
<1>1. CASE UNCHANGED all
  BY <1>1 DEF all, oldVars
<1>2. CASE Next
  BY <1>2 DEF Next, InPopen, InFd, InConn, InPing, InOld, InDaemon, InCo, oldVars
<1>. QED  BY <1>1, <1>2

(* Without other traffic the older versions show nobody from beyond the    *)
(* ttl of the line, count exactly the answers that end a trace, say that   *)
(* they got there only when the target is shown, and end early only        *)
(* because of it or of two errors; while no answer is late, they give each *)
(* ttl its own router and start a probe with nothing left over             *)
(* (traceroute_udp.c:77-95, 145, 208).                                     *)
THEOREM OldInStep ==
    ASSUME MaxTtl \in Int, Target \in Nat \ {0}
    PROVE  Spec => []InStep
<1>1. Init => OldInv
  BY OldStart DEF Init
<1>2. OldInv /\ [Next]_all => OldInv'
  BY OldStep, OldPart
<1>3. OldInv => InStep
  BY DEF OldInv, AloneInv, StepInv, Quiet, LinesNear, LinesOfRouters, EndsEarly, Told, GotThere, InStep, O!InStep
<1>. QED  BY <1>1, <1>2, <1>3, PTL DEF Spec

-----------------------------------------------------------------------------
(* The pipes.  Each line of the input is, in this order: shown, in the     *)
(* pipe to the parent, with the child, in the pipe to the child, with the  *)
(* parent, or not read yet.                                                *)
Said == C!Line \cup {"3", "invalid args", "lower-case words"}
AnswerTo(k) == C!Converted(program, C!Given[k])
Passed == Len(shown) + Len(down)
WithChild == IF co_child = "answer" THEN 1 ELSE 0
WithParent == IF parent = "write" THEN 1 ELSE 0
Running == co_child # "ended"

CoTypes ==
    /\ program = "hello" \/ program = "page" \/ program = "add" \/ program = "lower"
    /\ up \in Seq(C!Line) /\ input \in Seq(C!Line) /\ C!Given \in Seq(C!Line)
    /\ down \in Seq(Said) /\ shown \in Seq(Said)
    /\ program = "hello" => Len(C!Given) = 1
    /\ parent = "write" => pbuf \in C!Line
    /\ co_child = "answer" => cbuf \in C!Line
(* Who has which end, and who waits for whom.                              *)
CoEnds ==
    /\ Running => <<"child", "up.r">> \in open \/ program = "lower"
    /\ Running => <<"child", "down.w">> \in open \/ program = "hello" \/ program = "page"
    /\ parent # "wait" /\ parent # "ended" => <<"parent", "up.w">> \in open \/ program = "lower"
    /\ parent # "wait" /\ parent # "ended" => <<"parent", "down.r">> \in open \/ program = "hello" \/ program = "page"
CoPlaces ==
    /\ parent = "write" \/ parent = "fgets" => program # "lower"
    /\ parent = "read" => program = "add" \/ program = "lower"
    /\ parent = "wait" => program = "page" \/ program = "lower"
    /\ program = "lower" => up = << >>
    /\ program = "hello" \/ program = "page" => down = << >>
    /\ program = "lower" /\ (parent = "wait" \/ parent = "ended") => ~Running /\ down = << >>
    /\ program = "add" /\ Running =>
           Len(down) + WithChild + Len(up) = (IF parent = "read" THEN 1 ELSE 0)
    /\ program # "lower" /\ Running /\ (parent = "wait" \/ parent = "ended") => input = << >>
    /\ ~Running /\ ~quit => /\ Passed = Len(C!Given)
                            /\ program = "add" => parent = "ended" /\ down = << >>
AnswersRight ==
    /\ Passed <= Len(C!Given)
    /\ \A k \in 1 .. Len(shown) : shown[k] = AnswerTo(k)
    /\ \A k \in 1 .. Len(down) : down[k] = AnswerTo(Len(shown) + k)
LinesInOrder ==
    /\ Passed + WithChild + Len(up) + WithParent + Len(input) = Len(C!Given)
    /\ co_child = "answer" => cbuf = C!Given[Passed + 1]
    /\ \A k \in 1 .. Len(up) : up[k] = C!Given[Passed + WithChild + k]
    /\ parent = "write" => pbuf = C!Given[Passed + WithChild + Len(up) + 1]
    /\ \A k \in 1 .. Len(input) : input[k] = C!Given[Len(C!Given) - Len(input) + k]
CoInv == CoTypes /\ CoEnds /\ CoPlaces /\ AnswersRight /\ (Running => LinesInOrder)

LEMMA PrefixOf ==
    ASSUME NEW S, NEW s \in Seq(S), NEW u \in Seq(S), Len(s) <= Len(u), \A k \in 1 .. Len(s) : s[k] = u[k]
    PROVE  C!IsPrefix(s, u)
<1>. DEFINE n == Len(s)  start == SubSeq(u, 1, n)
<1>1. n \in Nat /\ Len(u) \in Nat /\ n <= Len(u)
  BY LenProperties
<1>2. \A i \in 1 .. n : u[i] \in S
  BY <1>1, ElementOfSeq
<1>3. /\ start \in Seq(S)
      /\ Len(start) = IF 1 <= n THEN n - 1 + 1 ELSE 0
      /\ \A i \in 1 .. n - 1 + 1 : start[i] = u[1 + i - 1]
  <2>1. 1 \in Int /\ n \in Int
    BY <1>1
  <2>. HIDE DEF n
  <2>. QED  BY <1>2, <2>1, SubSeqProperties
<1>. HIDE DEF start
<1>4. Len(start) = n /\ \A i \in 1 .. n : start[i] = s[i]
  BY <1>1, <1>3
<1>5. start = s
  BY <1>3, <1>4, SeqEqual
<1>. QED  BY <1>1, <1>5, SubSeqFull DEF C!IsPrefix, start

LEMMA CoLengths ==
    ASSUME CoTypes
    PROVE  /\ Len(up) \in Nat /\ Len(input) \in Nat /\ Len(C!Given) \in Nat /\ Len(down) \in Nat /\ Len(shown) \in Nat
           /\ WithChild \in Nat /\ WithParent \in Nat /\ Passed \in Nat
BY LenProperties DEF CoTypes, WithChild, WithParent, Passed

LEMMA GivenKept == UNCHANGED <<program, lines>> => C!Given' = C!Given /\ \A k : AnswerTo(k)' = AnswerTo(k)
BY DEF C!Given, AnswerTo, C!Converted

LEMMA ConvertedSaid ==
    ASSUME NEW x \in C!Line
    PROVE  C!Converted(program, x) \in Said
BY DEF C!Converted, Said, C!Line

(* What a step that closes ends leaves open.                               *)
LEMMA EndsKept ==
    ASSUME CoTypes, CoEnds, UNCHANGED program, NEW ends,
           \/ UNCHANGED <<open, parent, co_child>>
           \/ /\ open' = open \ ({"parent"} \X ends) /\ UNCHANGED co_child
              /\ parent' # "wait" /\ parent' # "ended" => "up.w" \notin ends /\ "down.r" \notin ends /\ parent # "wait" /\ parent # "ended"
           \/ /\ open' = open \ ({"child"} \X ends) /\ UNCHANGED parent
              /\ Running' => "up.r" \notin ends /\ "down.w" \notin ends /\ Running
           \/ UNCHANGED <<open, co_child>> /\ (parent = "wait" => parent' = "ended" \/ parent' = "wait") /\ (parent = "ended" => parent' = "ended")
           \/ UNCHANGED <<open, parent>> /\ (Running' => Running)
    PROVE  CoEnds'
<1>1. "up.r" # "up.w" /\ "parent" # "child"
  OBVIOUS
<1>2. \A e : <<"child", e>> \in {"parent"} \X ends => FALSE
  OBVIOUS
<1>3. \A e : <<"parent", e>> \in {"child"} \X ends => FALSE
  OBVIOUS
<1>4. \A x, e : <<x, e>> \in {x} \X ends => e \in ends
  OBVIOUS
<1>. QED  BY <1>2, <1>3, <1>4 DEF CoEnds, Running

(* A step that leaves the lines where they are keeps their order.          *)
LEMMA LinesKept ==
    ASSUME CoTypes, AnswersRight, Running => LinesInOrder,
           UNCHANGED <<program, lines, input, up, down, pbuf, cbuf, shown>>,
           parent' = "write" => parent = "write", co_child' = "answer" => co_child = "answer",
           Running' => Running /\ (co_child = "answer" => co_child' = "answer") /\ (parent = "write" => parent' = "write")
    PROVE  CoTypes' /\ AnswersRight' /\ (Running' => LinesInOrder') /\ Passed' = Passed /\ Len(C!Given)' = Len(C!Given)
<1>1. C!Given' = C!Given /\ \A k : AnswerTo(k)' = AnswerTo(k)
  BY GivenKept
<1>2. CoTypes' /\ Passed' = Passed /\ Len(C!Given)' = Len(C!Given)
  BY <1>1 DEF CoTypes, Passed
<1>3. AnswersRight'
  BY <1>1, <1>2 DEF AnswersRight
<1>4. ASSUME Running' PROVE LinesInOrder'
  <2>1. WithChild' = WithChild /\ WithParent' = WithParent
    BY <1>4 DEF WithChild, WithParent
  <2>. QED  BY <1>1, <1>2, <1>4, <2>1 DEF LinesInOrder
<1>. QED  BY <1>2, <1>3, <1>4

(* One lemma for each step that the lines take no part in.                 *)
LEMMA ParentSetupKept == CoInv /\ C!ParentSetup => CoInv'
<1>. SUFFICES ASSUME CoInv, C!ParentSetup PROVE CoInv'
  OBVIOUS
<1>1. CoTypes' /\ AnswersRight' /\ (Running' => LinesInOrder') /\ Passed' = Passed /\ Len(C!Given)' = Len(C!Given)
  BY LinesKept DEF CoInv, C!ParentSetup, Running
<1>2. CoEnds'
  BY EndsKept DEF CoInv, C!ParentSetup, C!Closes, C!ParentCloses
<1>3. CoPlaces'
  BY <1>1 DEF CoInv, CoTypes, CoPlaces, C!ParentSetup, WithChild, Running
<1>. QED  BY <1>1, <1>2, <1>3 DEF CoInv

LEMMA WaitChildKept == CoInv /\ C!WaitChild => CoInv'
<1>. SUFFICES ASSUME CoInv, C!WaitChild PROVE CoInv'
  OBVIOUS
<1>1. CoTypes' /\ AnswersRight' /\ (Running' => LinesInOrder') /\ Passed' = Passed /\ Len(C!Given)' = Len(C!Given)
  BY LinesKept DEF CoInv, C!WaitChild, Running
<1>2. CoEnds'
  BY EndsKept DEF CoInv, C!WaitChild, C!Closes, C!Ends
<1>3. CoPlaces'
  BY <1>1 DEF CoInv, CoTypes, CoPlaces, C!WaitChild, WithChild, Running
<1>. QED  BY <1>1, <1>2, <1>3 DEF CoInv

LEMMA ChildSetupKept == CoInv /\ C!ChildSetup => CoInv'
<1>. SUFFICES ASSUME CoInv, C!ChildSetup PROVE CoInv'
  OBVIOUS
<1>1. CoTypes' /\ AnswersRight' /\ (Running' => LinesInOrder') /\ Passed' = Passed /\ Len(C!Given)' = Len(C!Given)
  BY LinesKept DEF CoInv, C!ChildSetup, Running
<1>2. CoEnds'
  BY EndsKept DEF CoInv, C!ChildSetup, C!Closes, C!ChildCloses, Running
<1>3. CoPlaces'
  BY <1>1 DEF CoInv, CoTypes, CoPlaces, C!ChildSetup, WithChild, Running
<1>. QED  BY <1>1, <1>2, <1>3 DEF CoInv

LEMMA ExecKept == CoInv /\ C!Exec => CoInv'
<1>. SUFFICES ASSUME CoInv, C!Exec PROVE CoInv'
  OBVIOUS
<1>1. CoTypes' /\ AnswersRight' /\ (Running' => LinesInOrder') /\ Passed' = Passed /\ Len(C!Given)' = Len(C!Given)
  BY LinesKept DEF CoInv, C!Exec, Running
<1>2. CoEnds'
  BY EndsKept DEF CoInv, C!Exec, C!Closes, C!Ends, Running
<1>3. CoPlaces'
  BY <1>1 DEF CoInv, CoTypes, CoPlaces, C!Exec, WithChild, Running
<1>. QED  BY <1>1, <1>2, <1>3 DEF CoInv

LEMMA QuitKept == CoInv /\ C!Quit => CoInv'
<1>. SUFFICES ASSUME CoInv, C!Quit PROVE CoInv'
  OBVIOUS
<1>1. CoTypes' /\ AnswersRight' /\ (Running' => LinesInOrder') /\ Passed' = Passed /\ Len(C!Given)' = Len(C!Given)
  BY LinesKept DEF CoInv, C!Quit, Running
<1>2. CoEnds'
  BY EndsKept DEF CoInv, C!Quit, C!Closes, C!Ends, Running
<1>3. CoPlaces'
  BY <1>1 DEF CoInv, CoTypes, CoPlaces, C!Quit, WithChild, Running
<1>. QED  BY <1>1, <1>2, <1>3 DEF CoInv

(* The steps that end at the end of a pipe.                                *)
LEMMA FgetsEofKept == CoInv /\ C!Fgets /\ input = << >> => CoInv'
<1>. SUFFICES ASSUME CoInv, C!Fgets, input = << >> PROVE CoInv'
  OBVIOUS
<1>1. CoTypes' /\ AnswersRight' /\ (Running' => LinesInOrder') /\ Passed' = Passed /\ Len(C!Given)' = Len(C!Given)
  BY LinesKept DEF CoInv, C!Fgets, C!AtEof, Running
<1>2. CoEnds'
  BY EndsKept DEF CoInv, C!Fgets, C!AtEof, C!Closes, C!Ends
<1>3. CoPlaces'
  BY <1>1 DEF CoInv, CoTypes, CoPlaces, C!Fgets, C!AtEof, WithChild, Running
<1>. QED  BY <1>1, <1>2, <1>3 DEF CoInv

LEMMA WriteFailsKept == CoInv /\ C!Write /\ ~C!Has("up.r") => CoInv'
<1>. SUFFICES ASSUME CoInv, C!Write, ~C!Has("up.r") PROVE CoInv'
  OBVIOUS
<1>1. ~Running
  BY DEF CoInv, CoEnds, CoPlaces, C!Write, C!Has
<1>2. CoTypes' /\ AnswersRight' /\ (Running' => LinesInOrder') /\ Passed' = Passed /\ Len(C!Given)' = Len(C!Given)
  BY <1>1, LinesKept DEF CoInv, C!Write, Running
<1>3. CoEnds'
  BY EndsKept DEF CoInv, C!Write, C!Closes, C!Ends
<1>4. CoPlaces'
  BY <1>1, <1>2 DEF CoInv, CoTypes, CoPlaces, C!Write, WithChild, Running
<1>. QED  BY <1>2, <1>3, <1>4 DEF CoInv

LEMMA ParentEofKept == CoInv /\ C!ParentRead /\ down = << >> => CoInv'
<1>. SUFFICES ASSUME CoInv, C!ParentRead, down = << >> PROVE CoInv'
  OBVIOUS
<1>1. ~Running
  BY DEF CoInv, CoEnds, CoPlaces, C!ParentRead, C!Has
<1>2. CoTypes' /\ AnswersRight' /\ (Running' => LinesInOrder') /\ Passed' = Passed /\ Len(C!Given)' = Len(C!Given)
  BY <1>1, LinesKept DEF CoInv, C!ParentRead, Running
<1>3. CoEnds'
  BY EndsKept DEF CoInv, C!ParentRead, C!Closes, C!Ends
<1>4. CoPlaces'
  BY <1>1, <1>2 DEF CoInv, CoTypes, CoPlaces, C!ParentRead, WithChild, Running
<1>. QED  BY <1>2, <1>3, <1>4 DEF CoInv

(* The child reads to the end only when all lines were answered.           *)
LEMMA ChildEofKept == CoInv /\ C!ChildRead /\ UNCHANGED <<input, up, cbuf>> /\ co_child' = "ended"
                      /\ open' = open \ ({"child"} \X C!End)
                      /\ (IF program = "lower" THEN input = << >> ELSE up = << >> /\ ~C!Has("up.w")) => CoInv'
<1>. SUFFICES ASSUME CoInv, C!ChildRead, UNCHANGED <<input, up, cbuf>>, co_child' = "ended",
                     open' = open \ ({"child"} \X C!End),
                     IF program = "lower" THEN input = << >> ELSE up = << >> /\ ~C!Has("up.w")
              PROVE  CoInv'
  OBVIOUS
<1>1. Running /\ WithChild = 0
  BY DEF C!ChildRead, Running, WithChild
<1>2. CoTypes' /\ AnswersRight' /\ (Running' => LinesInOrder') /\ Passed' = Passed /\ Len(C!Given)' = Len(C!Given)
  BY <1>1, LinesKept DEF CoInv, C!ChildRead, Running
<1>3. CoEnds'
  BY EndsKept DEF CoInv, C!ChildRead, Running
<1>4. input = << >> /\ up = << >> /\ WithParent = 0
  BY <1>1 DEF CoInv, CoEnds, CoPlaces, C!Has, WithParent
<1>5. Passed = Len(C!Given)
  BY <1>1, <1>4, CoLengths, EmptySeq DEF CoInv, LinesInOrder
<1>6. program = "add" => parent = "ended"
  BY <1>1 DEF CoInv, CoEnds, CoPlaces, C!Has
<1>7. program = "add" => down = << >>
  BY <1>1, <1>6, CoLengths, EmptySeq DEF CoInv, CoTypes, CoPlaces
<1>8. CoPlaces'
  BY <1>1, <1>2, <1>5, <1>6, <1>7 DEF CoInv, CoTypes, CoPlaces, C!ChildRead, Running
<1>. QED  BY <1>2, <1>3, <1>8 DEF CoInv

(* Nobody closed the pipe that an answer is written into.                  *)
LEMMA AnswerRead == CoInv /\ co_child = "answer" /\ C!ToPipe => C!Has("down.r")
BY CoLengths DEF CoInv, CoEnds, CoPlaces, CoTypes, C!Has, C!ToPipe, Running, WithChild

(* The steps that move a line.                                             *)
LEMMA FgetsLineKept == CoInv /\ C!Fgets /\ input # << >> => CoInv'
<1>. SUFFICES ASSUME CoInv, C!Fgets, input # << >> PROVE CoInv'
  OBVIOUS
<1>1. C!Given' = C!Given /\ UNCHANGED program
  BY GivenKept DEF C!Fgets
<1>2. /\ Head(input) \in C!Line /\ Tail(input) \in Seq(C!Line) /\ Len(Tail(input)) = Len(input) - 1
      /\ \A k \in 1 .. Len(Tail(input)) : Tail(input)[k] = input[k + 1]
      /\ Head(input) = input[1] /\ Len(input) \in Nat /\ Len(input) > 0
  BY HeadTailProperties, EmptySeq, LenProperties DEF CoInv, CoTypes
<1>3. CoTypes' /\ Passed' = Passed /\ WithChild' = WithChild /\ WithParent = 0 /\ WithParent' = 1
  BY <1>1, <1>2 DEF CoInv, CoTypes, C!Fgets, Passed, WithChild, WithParent
<1>4. CoEnds'
  BY EndsKept DEF CoInv, C!Fgets
<1>5. CoPlaces'
  BY <1>1, <1>3 DEF CoInv, CoPlaces, C!Fgets, Running
<1>6. AnswersRight'
  BY <1>1, <1>3 DEF CoInv, AnswersRight, AnswerTo, C!Fgets
<1>7. ASSUME Running' PROVE LinesInOrder'
  <2>1. LinesInOrder
    BY <1>7 DEF CoInv, C!Fgets, Running
  <2>2. Passed + WithChild + Len(up) + 1 + Len(Tail(input)) = Len(C!Given)
    BY <1>2, <1>3, <2>1, CoLengths DEF CoInv, LinesInOrder
  <2>3. Head(input) = C!Given[Passed + WithChild + Len(up) + 1]
    <3>1. Len(C!Given) - Len(input) + 1 = Passed + WithChild + Len(up) + 1
      <4>. DEFINE a == Passed + WithChild + Len(up)   n == Len(input)   g == Len(C!Given)
      <4>1. a \in Nat /\ n \in Nat /\ g \in Nat /\ a + 1 + (n - 1) = g
        BY <1>2, <2>2, CoLengths DEF CoInv
      <4>. HIDE DEF a, n, g
      <4>2. g - n + 1 = a + 1
        BY ONLY <4>1
      <4>. QED  BY <4>2 DEF a, n, g
    <3>2. input[1] = C!Given[Len(C!Given) - Len(input) + 1]
      BY <1>2, <2>1 DEF LinesInOrder
    <3>. QED  BY <1>2, <3>1, <3>2
  <2>4. \A k \in 1 .. Len(Tail(input)) : Tail(input)[k] = C!Given[Len(C!Given) - Len(Tail(input)) + k]
    BY <1>2, <2>1, CoLengths DEF CoInv, LinesInOrder
  <2>. QED  BY <1>1, <1>2, <1>3, <2>1, <2>2, <2>3, <2>4 DEF LinesInOrder, C!Fgets
<1>. QED  BY <1>3, <1>4, <1>5, <1>6, <1>7 DEF CoInv

LEMMA WriteLineKept == CoInv /\ C!Write /\ up' = Append(up, pbuf) => CoInv'
<1>. SUFFICES ASSUME CoInv, C!Write, up' = Append(up, pbuf) PROVE CoInv'
  OBVIOUS
<1>1. C!Given' = C!Given /\ UNCHANGED program
  BY GivenKept DEF C!Write
<1>2. /\ pbuf \in C!Line /\ Append(up, pbuf) \in Seq(C!Line) /\ Len(Append(up, pbuf)) = Len(up) + 1
      /\ \A k \in 1 .. Len(up) : Append(up, pbuf)[k] = up[k]
      /\ Append(up, pbuf)[Len(up) + 1] = pbuf /\ Len(up) \in Nat
  BY AppendProperties, LenProperties DEF CoInv, CoTypes, C!Write
<1>. DEFINE longer == Append(up, pbuf)
<1>3. up' = longer /\ longer \in Seq(C!Line) /\ Len(longer) = Len(up) + 1 /\ longer[Len(up) + 1] = pbuf
      /\ \A k \in 1 .. Len(up) : longer[k] = up[k]
  BY <1>2
<1>. HIDE DEF longer
<1>4. parent' # "write" /\ parent' # "wait" /\ parent' # "setup"
  BY DEF CoInv, CoTypes, CoPlaces, C!Write, C!AfterWrite
<1>5. CoTypes' /\ Passed' = Passed /\ WithChild' = WithChild /\ WithParent = 1 /\ WithParent' = 0 /\ (Running' <=> Running)
  BY <1>1, <1>3, <1>4 DEF CoInv, CoTypes, C!Write, Passed, WithChild, WithParent, Running
<1>6. program # "lower"
  BY DEF CoInv, CoPlaces, C!Write
<1>7. parent' = (IF program = "hello" THEN "ended" ELSE IF program = "page" THEN "fgets" ELSE "read")
      /\ (IF parent' = "ended" THEN open' = open \ ({"parent"} \X C!End) ELSE UNCHANGED open)
  <2>1. C!Write => up' # up \/ C!Has("up.r")
    BY DEF C!Write
  <2>2. up' # up
    BY <1>3, CoLengths DEF CoInv
  <2>. QED  BY <1>6, <2>2 DEF CoInv, CoTypes, C!Write, C!AfterWrite, C!Ends, C!Closes
<1>8. CoEnds'
  BY <1>7, EndsKept DEF CoInv, C!Write
<1>9. ASSUME Running PROVE LinesInOrder'
  <2>1. LinesInOrder
    BY <1>9 DEF CoInv
  <2>2. Passed + WithChild + Len(longer) + 0 + Len(input) = Len(C!Given)
    BY <1>3, <1>5, <2>1, CoLengths DEF CoInv, LinesInOrder
  <2>3. \A k \in 1 .. Len(longer) : longer[k] = C!Given[Passed + WithChild + k]
    <3>1. TAKE k \in 1 .. Len(longer)
    <3>2. CASE k \in 1 .. Len(up)
      BY <1>3, <2>1, <3>2 DEF LinesInOrder
    <3>3. CASE k = Len(up) + 1
      <4>1. pbuf = C!Given[Passed + WithChild + Len(up) + 1]
        BY <2>1 DEF LinesInOrder, C!Write
      <4>2. Passed + WithChild + Len(up) + 1 = Passed + WithChild + k
        BY <3>3, CoLengths DEF CoInv
      <4>. QED  BY <1>3, <3>3, <4>1, <4>2
    <3>. QED  BY <1>2, <1>3, <3>2, <3>3
  <2>. QED  BY <1>1, <1>3, <1>4, <1>5, <2>1, <2>2, <2>3 DEF LinesInOrder, C!Write
<1>10. ASSUME program = "hello", Running PROVE input = << >>
  <2>1. Passed + WithChild + Len(up) + 1 + Len(input) = 1
    BY <1>5, <1>10 DEF CoInv, CoTypes, LinesInOrder
  <2>2. Len(input) = 0 /\ input \in Seq(C!Line)
    BY <2>1, CoLengths DEF CoInv, CoTypes
  <2>. QED  BY <2>2, EmptySeq
<1>11. program = "add" /\ Running => Len(down) + WithChild + Len(longer) = 1
  BY CoLengths, <1>3 DEF CoInv, CoPlaces, C!Write
<1>12. CoPlaces'
  <2>1. parent = "write" /\ UNCHANGED <<input, down, quit>> /\ UNCHANGED program /\ CoPlaces
    BY <1>1 DEF CoInv, C!Write
  <2>2. ~Running /\ ~quit => Passed = Len(C!Given) /\ program # "add"
    BY <2>1 DEF CoPlaces
  <2>3. program = "page" \/ program = "add" => parent' # "ended"
    BY <1>7
  <2>4. program = "add" => parent' = "read"
    BY <1>7
  <2>. QED  BY <1>1, <1>3, <1>4, <1>5, <1>6, <1>7, <1>10, <1>11, <2>1, <2>2, <2>3, <2>4 DEF CoInv, CoTypes, CoPlaces
<1>13. AnswersRight'
  BY <1>1, <1>5 DEF CoInv, AnswersRight, AnswerTo, C!Write
<1>. QED  BY <1>5, <1>8, <1>9, <1>12, <1>13 DEF CoInv

LEMMA ParentLineKept == CoInv /\ C!ParentRead /\ down # << >> => CoInv'
<1>. SUFFICES ASSUME CoInv, C!ParentRead, down # << >> PROVE CoInv'
  OBVIOUS
<1>1. C!Given' = C!Given /\ UNCHANGED program
  BY GivenKept DEF C!ParentRead
<1>. DEFINE more == Append(shown, Head(down))  rest == Tail(down)
<1>2. /\ rest \in Seq(Said) /\ Len(rest) = Len(down) - 1 /\ \A k \in 1 .. Len(rest) : rest[k] = down[k + 1]
      /\ Head(down) \in Said /\ Head(down) = down[1] /\ Len(down) \in Nat /\ Len(down) > 0
  BY HeadTailProperties, EmptySeq, LenProperties DEF CoInv, CoTypes
<1>3. /\ more \in Seq(Said) /\ Len(more) = Len(shown) + 1 /\ Len(shown) \in Nat
      /\ \A k \in 1 .. Len(shown) : more[k] = shown[k]
      /\ more[Len(shown) + 1] = down[1]
  BY <1>2, AppendProperties, LenProperties DEF CoInv, CoTypes
<1>4. down' = rest /\ shown' = more
  BY DEF C!ParentRead
<1>. HIDE DEF more, rest
<1>5. Passed' = Passed /\ WithChild' = WithChild /\ WithParent' = WithParent /\ (Running' <=> Running)
  <2>1. parent = "read" /\ parent' # "write" /\ UNCHANGED co_child
    BY DEF C!ParentRead
  <2>2. Passed' = Passed
    <3>1. Len(more) = Len(shown) + 1 /\ Len(rest) = Len(down) - 1 /\ Len(shown) \in Nat /\ Len(down) \in Nat
      BY <1>2, <1>3
    <3>2. Len(more) + Len(rest) = Len(shown) + Len(down)
      BY <3>1
    <3>. QED  BY <1>4, <3>2 DEF Passed
  <2>. QED  BY <2>1, <2>2 DEF WithChild, WithParent, Running
<1>6. CoTypes'
  BY <1>1, <1>2, <1>3, <1>4 DEF CoInv, CoTypes, C!ParentRead
<1>7. CoEnds'
  BY EndsKept DEF CoInv, C!ParentRead
<1>8. CoPlaces'
  <2>1. program = "add" /\ Running => Len(rest) + WithChild + Len(up) = 0
    BY <1>2, CoLengths DEF CoInv, CoPlaces, C!ParentRead
  <2>. QED  BY <1>1, <1>4, <1>5, <2>1 DEF CoInv, CoPlaces, C!ParentRead
<1>9. AnswersRight'
  <2>1. \A k \in 1 .. Len(more) : more[k] = C!Converted(program, C!Given[k])
    BY <1>2, <1>3 DEF CoInv, AnswersRight, AnswerTo
  <2>2. \A k \in 1 .. Len(rest) : rest[k] = C!Converted(program, C!Given[Len(more) + k])
    BY <1>2, <1>3 DEF CoInv, AnswersRight, AnswerTo
  <2>. QED  BY <1>1, <1>4, <1>5, <2>1, <2>2 DEF CoInv, AnswersRight, AnswerTo
<1>10. Running' => LinesInOrder'
  BY <1>1, <1>5 DEF CoInv, LinesInOrder, C!ParentRead
<1>. QED  BY <1>6, <1>7, <1>8, <1>9, <1>10 DEF CoInv

LEMMA ChildLineKept ==
    ASSUME CoInv, C!ChildRead, co_child' = "answer", UNCHANGED open,
           \/ program = "lower" /\ input # << >> /\ cbuf' = Head(input) /\ input' = Tail(input) /\ UNCHANGED up
           \/ program # "lower" /\ up # << >> /\ cbuf' = Head(up) /\ up' = Tail(up) /\ UNCHANGED input
    PROVE  CoInv'
<1>1. C!Given' = C!Given /\ UNCHANGED <<program, quit, down, shown, parent, pbuf>> /\ co_child = "read"
  BY GivenKept DEF C!ChildRead
<1>2. CoTypes /\ CoEnds /\ CoPlaces /\ AnswersRight /\ LinesInOrder /\ Running /\ Running'
  BY <1>1 DEF CoInv, Running
<1>3. WithChild = 0 /\ WithChild' = 1 /\ WithParent' = WithParent /\ Passed' = Passed
  BY <1>1 DEF WithChild, WithParent, Passed
<1>4. CoEnds'
  BY <1>1, <1>2, EndsKept
<1>5. AnswersRight'
  BY <1>1, <1>2, <1>3 DEF AnswersRight, AnswerTo
<1>6. ASSUME program = "lower", input # << >>, cbuf' = Head(input), input' = Tail(input), UNCHANGED up
      PROVE  CoTypes' /\ CoPlaces' /\ LinesInOrder'
  <2>. DEFINE rest == Tail(input)
  <2>1. /\ rest \in Seq(C!Line) /\ Len(rest) = Len(input) - 1
        /\ \A k \in 1 .. Len(rest) : rest[k] = input[k + 1]
        /\ Head(input) \in C!Line /\ Head(input) = input[1] /\ Len(input) \in Nat /\ Len(input) > 0
    BY <1>2, <1>6, HeadTailProperties, EmptySeq, LenProperties DEF CoTypes
  <2>2. input' = rest /\ cbuf' = input[1] /\ cbuf' \in C!Line
    BY <1>6, <2>1
  <2>. HIDE DEF rest
  <2>3. CoTypes'
    BY <1>1, <1>2, <1>6, <2>1, <2>2 DEF CoTypes
  <2>4. CoPlaces'
    BY <1>1, <1>2, <1>6 DEF CoPlaces
  <2>5. up = << >> /\ Len(up) = 0 /\ WithParent = 0
    BY <1>2, <1>6, EmptySeq DEF CoPlaces, WithParent
  <2>6. Passed + 1 + Len(up) + WithParent + Len(rest) = Len(C!Given)
    BY <1>2, <1>3, <2>1, <2>5, CoLengths DEF LinesInOrder
  <2>7. input[1] = C!Given[Passed + 1]
    <3>1. Len(C!Given) - Len(input) + 1 = Passed + 1
      BY <1>2, <2>1, <2>5, <2>6, CoLengths
    <3>2. input[1] = C!Given[Len(C!Given) - Len(input) + 1]
      BY <1>2, <2>1 DEF LinesInOrder
    <3>. QED  BY <3>1, <3>2
  <2>8. \A k \in 1 .. Len(rest) : rest[k] = C!Given[Len(C!Given) - Len(rest) + k]
    <3>1. TAKE k \in 1 .. Len(rest)
    <3>2. k + 1 \in 1 .. Len(input) /\ Len(C!Given) - Len(input) + (k + 1) = Len(C!Given) - Len(rest) + k
      BY <1>2, <2>1, CoLengths
    <3>3. input[k + 1] = C!Given[Len(C!Given) - Len(input) + (k + 1)]
      BY <1>2, <3>2 DEF LinesInOrder
    <3>. QED  BY <2>1, <3>2, <3>3
  <2>9. parent # "write"
    BY <1>2, <1>6 DEF CoPlaces
  <2>10. LinesInOrder'
    <3>1. \A k \in 1 .. Len(up) : FALSE
      BY <2>5
    <3>2. C!Given'[(Passed + 1)'] = C!Given[Passed + 1]
      BY <1>1, <1>3
    <3>3. (Passed + WithChild + Len(up) + WithParent + Len(input) = Len(C!Given))'
      BY <1>1, <1>3, <1>6, <2>2, <2>6
    <3>. QED  BY <1>1, <1>6, <2>2, <2>7, <2>8, <2>9, <3>1, <3>2, <3>3 DEF LinesInOrder
  <2>. QED  BY <2>3, <2>4, <2>10
<1>7. ASSUME program # "lower", up # << >>, cbuf' = Head(up), up' = Tail(up), UNCHANGED input
      PROVE  CoTypes' /\ CoPlaces' /\ LinesInOrder'
  <2>. DEFINE rest == Tail(up)
  <2>1. /\ rest \in Seq(C!Line) /\ Len(rest) = Len(up) - 1
        /\ \A k \in 1 .. Len(rest) : rest[k] = up[k + 1]
        /\ Head(up) \in C!Line /\ Head(up) = up[1] /\ Len(up) \in Nat /\ Len(up) > 0
    BY <1>2, <1>7, HeadTailProperties, EmptySeq, LenProperties DEF CoTypes
  <2>2. up' = rest /\ cbuf' = up[1] /\ cbuf' \in C!Line
    BY <1>7, <2>1
  <2>. HIDE DEF rest
  <2>3. CoTypes'
    BY <1>1, <1>2, <1>7, <2>1, <2>2 DEF CoTypes
  <2>4. CoPlaces'
    <3>1. 1 + Len(rest) = 0 + Len(up)
      BY <2>1
    <3>2. program = "add" => Len(down) + 1 + Len(rest) = (IF parent = "read" THEN 1 ELSE 0)
      BY <1>2, <1>3, <2>1, CoLengths DEF CoPlaces
    <3>. QED  BY <1>1, <1>2, <1>3, <1>7, <2>2, <3>2 DEF CoPlaces
  <2>5. Passed + 1 + Len(rest) + WithParent + Len(input) = Len(C!Given)
    <3>1. Passed + WithChild + Len(up) + WithParent + Len(input) = Len(C!Given)
      BY <1>2 DEF LinesInOrder
    <3>2. WithChild = 0 /\ Len(up) = 1 + Len(rest) /\ Len(rest) \in Nat
      BY <1>3, <2>1
    <3>. QED  BY <1>2, <3>1, <3>2, CoLengths
  <2>6. up[1] = C!Given[Passed + 1]
    <3>1. up[1] = C!Given[Passed + WithChild + 1]
      BY <1>2, <2>1 DEF LinesInOrder
    <3>2. Passed + WithChild + 1 = Passed + 1
      BY <1>2, <1>3, CoLengths
    <3>. QED  BY <3>1, <3>2
  <2>7. \A k \in 1 .. Len(rest) : rest[k] = C!Given[Passed + 1 + k]
    <3>1. TAKE k \in 1 .. Len(rest)
    <3>2. k + 1 \in 1 .. Len(up) /\ Passed + WithChild + (k + 1) = Passed + 1 + k
      BY <1>2, <1>3, <2>1, CoLengths
    <3>3. up[k + 1] = C!Given[Passed + WithChild + (k + 1)]
      BY <1>2, <3>2 DEF LinesInOrder
    <3>. QED  BY <2>1, <3>2, <3>3
  <2>8. parent = "write" => pbuf = C!Given[Passed + 1 + Len(rest) + 1]
    <3>1. parent = "write" => pbuf = C!Given[Passed + WithChild + Len(up) + 1]
      BY <1>2 DEF LinesInOrder
    <3>2. Passed + WithChild + Len(up) + 1 = Passed + 1 + Len(rest) + 1
      BY <1>2, <1>3, <2>1, CoLengths
    <3>. QED  BY <3>1, <3>2
  <2>9. LinesInOrder'
    BY <1>1, <1>2, <1>3, <1>7, <2>2, <2>5, <2>6, <2>7, <2>8 DEF LinesInOrder
  <2>. QED  BY <2>3, <2>4, <2>9
<1>. QED  BY <1>4, <1>5, <1>6, <1>7 DEF CoInv

LEMMA AnswerKept == CoInv /\ C!Answer => CoInv'
<1>. SUFFICES ASSUME CoInv, C!Answer PROVE CoInv'
  OBVIOUS
<1>1. C!Given' = C!Given /\ UNCHANGED <<program, quit, input, up, parent, pbuf, cbuf>> /\ co_child = "answer"
  BY GivenKept DEF C!Answer
<1>2. CoTypes /\ CoEnds /\ CoPlaces /\ AnswersRight /\ LinesInOrder /\ Running
  BY <1>1 DEF CoInv, Running
<1>3. WithChild = 1 /\ WithParent' = WithParent /\ cbuf \in C!Line /\ cbuf = C!Given[Passed + 1]
  BY <1>1, <1>2 DEF WithChild, WithParent, CoTypes, LinesInOrder
<1>. DEFINE reply == C!Converted(program, cbuf)
<1>4. reply \in Said /\ reply = C!Converted(program, C!Given[Passed + 1]) /\ (~C!ToPipe => reply = cbuf)
  BY <1>2, <1>3, ConvertedSaid DEF C!ToPipe, C!Converted, CoTypes
<1>. HIDE DEF reply
<1>5. Passed + 1 <= Len(C!Given) /\ Passed \in Nat /\ Len(down) \in Nat /\ Len(shown) \in Nat
  BY <1>2, <1>3, CoLengths DEF LinesInOrder
<1>6. ASSUME Passed' = Passed + 1, co_child' # "answer"
      PROVE  LinesInOrder'
  <2>1. WithChild' = 0
    BY <1>6 DEF WithChild
  <2>2. Passed + 1 + 0 + Len(up) + WithParent + Len(input) = Len(C!Given)
    BY <1>2, <1>3, CoLengths DEF LinesInOrder
  <2>3. \A k \in 1 .. Len(up) : up[k] = C!Given[Passed + 1 + 0 + k]
    <3>1. TAKE k \in 1 .. Len(up)
    <3>2. up[k] = C!Given[Passed + WithChild + k] /\ Passed + WithChild + k = Passed + 1 + 0 + k
      BY <1>2, <1>3, CoLengths DEF LinesInOrder
    <3>. QED  BY <3>2
  <2>4. parent = "write" => pbuf = C!Given[Passed + 1 + 0 + Len(up) + 1]
    <3>1. parent = "write" => pbuf = C!Given[Passed + WithChild + Len(up) + 1]
      BY <1>2 DEF LinesInOrder
    <3>2. Passed + WithChild + Len(up) + 1 = Passed + 1 + 0 + Len(up) + 1
      BY <1>2, <1>3, CoLengths
    <3>. QED  BY <3>1, <3>2
  <2>. QED  BY <1>1, <1>2, <1>3, <1>6, <2>1, <2>2, <2>3, <2>4 DEF LinesInOrder
<1>7. CASE C!ToPipe
  <2>. DEFINE more == Append(down, reply)
  <2>1. C!Has("down.r")
    BY <1>1, <1>7, AnswerRead
  <2>2. down' = more /\ co_child' = "read" /\ UNCHANGED <<open, shown>>
    BY <1>7, <2>1 DEF C!Answer, reply
  <2>3. /\ more \in Seq(Said) /\ Len(more) = Len(down) + 1 /\ more[Len(down) + 1] = reply
        /\ \A k \in 1 .. Len(down) : more[k] = down[k]
    BY <1>2, <1>4, AppendProperties DEF CoTypes
  <2>. HIDE DEF more
  <2>4. CoTypes'
    BY <1>1, <1>2, <2>2, <2>3 DEF CoTypes
  <2>5. CoEnds'
    BY <1>1, <1>2, <2>2, EndsKept DEF Running
  <2>6. Passed' = Passed + 1
    <3>1. Len(shown) + Len(more) = Len(shown) + Len(down) + 1
      BY <1>5, <2>3
    <3>. QED  BY <2>2, <3>1 DEF Passed
  <2>7. CoPlaces'
    <3>1. program = "add" => Len(more) + 0 + Len(up) = (IF parent = "read" THEN 1 ELSE 0)
      BY <1>2, <1>3, <2>3, CoLengths DEF CoPlaces
    <3>2. program = "add" \/ program = "lower"
      BY <1>7 DEF C!ToPipe
    <3>3. WithChild' = 0 /\ Running'
      BY <2>2 DEF WithChild, Running
    <3>. QED  BY <1>1, <1>2, <2>2, <3>1, <3>2, <3>3 DEF CoPlaces
  <2>8. AnswersRight'
    <3>1. \A k \in 1 .. Len(more) : more[k] = C!Converted(program, C!Given[Len(shown) + k])
      <4>1. TAKE k \in 1 .. Len(more)
      <4>2. CASE k \in 1 .. Len(down)
        BY <1>2, <2>3, <4>2 DEF AnswersRight, AnswerTo
      <4>3. CASE k = Len(down) + 1
        <5>1. Len(shown) + k = Passed + 1
          BY <1>5, <4>3 DEF Passed
        <5>. QED  BY <1>4, <2>3, <4>3, <5>1
      <4>. QED  BY <1>5, <2>3, <4>2, <4>3
    <3>. QED  BY <1>1, <1>2, <1>5, <2>2, <2>6, <3>1 DEF AnswersRight, AnswerTo
  <2>9. LinesInOrder'
    BY <1>6, <2>2, <2>6
  <2>. QED  BY <2>4, <2>5, <2>7, <2>8, <2>9 DEF CoInv
<1>8. CASE ~C!ToPipe
  <2>. DEFINE more == Append(shown, cbuf)
  <2>1. program = "hello" \/ program = "page"
    BY <1>2, <1>8 DEF CoTypes, C!ToPipe
  <2>2. shown' = more /\ UNCHANGED down /\ co_child' # "answer"
        /\ IF program = "hello" THEN co_child' = "ended" /\ open' = open \ ({"child"} \X C!End) ELSE co_child' = "read" /\ UNCHANGED open
    BY <1>8, <2>1 DEF C!Answer, C!Ends, C!Closes
  <2>3. /\ more \in Seq(Said) /\ Len(more) = Len(shown) + 1 /\ more[Len(shown) + 1] = reply
        /\ \A k \in 1 .. Len(shown) : more[k] = shown[k]
    <3>1. cbuf \in Said /\ cbuf = reply /\ shown \in Seq(Said)
      BY <1>2, <1>4, <1>8 DEF CoTypes
    <3>. QED  BY <3>1, AppendProperties
  <2>. HIDE DEF more
  <2>4. down = << >> /\ Len(down) = 0
    BY <1>2, <2>1, EmptySeq DEF CoPlaces
  <2>5. CoTypes'
    BY <1>1, <1>2, <2>2, <2>3 DEF CoTypes
  <2>6. CoEnds'
    BY <1>1, <1>2, <2>2, EndsKept DEF Running
  <2>7. Passed' = Passed + 1
    <3>1. Len(more) + Len(down) = Len(shown) + Len(down) + 1
      BY <1>5, <2>3
    <3>. QED  BY <2>2, <3>1 DEF Passed
  <2>8. CoPlaces'
    <3>1. program = "hello" => Passed + 1 = Len(C!Given)
      <4>1. program = "hello" => Len(C!Given) = 1
        BY <1>2 DEF CoTypes
      <4>2. ASSUME NEW n, NEW m, n \in Nat, n + 1 <= m, m = 1 PROVE n + 1 = m
        BY <4>2
      <4>3. Passed \in Nat /\ Passed + 1 <= Len(C!Given)
        BY <1>5
      <4>. QED  BY <4>1, <4>2, <4>3
    <3>. QED  BY <1>1, <1>2, <2>1, <2>2, <2>4, <2>7, <3>1 DEF CoPlaces, Running
  <2>9. AnswersRight'
    <3>1. \A k \in 1 .. Len(more) : more[k] = C!Converted(program, C!Given[k])
      <4>1. TAKE k \in 1 .. Len(more)
      <4>2. CASE k \in 1 .. Len(shown)
        BY <1>2, <2>3, <4>2 DEF AnswersRight, AnswerTo
      <4>3. CASE k = Len(shown) + 1
        <5>1. k = Passed + 1
          BY <1>5, <2>4, <4>3 DEF Passed
        <5>. QED  BY <1>4, <2>3, <4>3, <5>1
      <4>. QED  BY <1>5, <2>3, <4>2, <4>3
    <3>2. \A k \in 1 .. Len(down) : FALSE
      BY <2>4
    <3>. QED  BY <1>1, <1>2, <1>5, <2>2, <2>7, <3>1, <3>2 DEF AnswersRight, AnswerTo
  <2>10. LinesInOrder'
    BY <1>6, <2>2, <2>7
  <2>. QED  BY <2>5, <2>6, <2>8, <2>9, <2>10 DEF CoInv
<1>. QED  BY <1>7, <1>8

LEMMA CoStep == CoInv /\ [C!CoNext]_coVars => CoInv'
<1>. SUFFICES ASSUME CoInv, [C!CoNext]_coVars PROVE CoInv'
  OBVIOUS
<1>1. CASE C!ParentSetup
  BY <1>1, ParentSetupKept
<1>2. CASE C!Fgets
  BY <1>2, FgetsEofKept, FgetsLineKept
<1>3. CASE C!Write
  <2>1. up' = Append(up, pbuf) \/ ~C!Has("up.r")
    BY <1>3 DEF C!Write
  <2>. QED  BY <1>3, <2>1, WriteLineKept, WriteFailsKept
<1>4. CASE C!ParentRead
  BY <1>4, ParentLineKept, ParentEofKept
<1>5. CASE C!WaitChild
  BY <1>5, WaitChildKept
<1>6. CASE C!ChildSetup
  BY <1>6, ChildSetupKept
<1>7. CASE C!Exec
  BY <1>7, ExecKept
<1>8. CASE C!ChildRead
  <2>. DEFINE AtLower == program = "lower" /\ input # << >> /\ cbuf' = Head(input) /\ input' = Tail(input) /\ UNCHANGED up
              AtPipe == program # "lower" /\ up # << >> /\ cbuf' = Head(up) /\ up' = Tail(up) /\ UNCHANGED input
              Empty == IF program = "lower" THEN input = << >> ELSE up = << >> /\ ~C!Has("up.w")
  <2>1. \/ co_child' = "answer" /\ UNCHANGED open /\ (AtLower \/ AtPipe)
        \/ Empty /\ co_child' = "ended" /\ C!Ends("child") /\ UNCHANGED <<input, up, cbuf>>
    BY <1>8, Zenon DEF C!ChildRead
  <2>2. CASE co_child' = "answer" /\ UNCHANGED open /\ (AtLower \/ AtPipe)
    BY <1>8, <2>2, ChildLineKept
  <2>3. CASE Empty /\ co_child' = "ended" /\ C!Ends("child") /\ UNCHANGED <<input, up, cbuf>>
    BY <1>8, <2>3, ChildEofKept DEF C!Ends, C!Closes
  <2>. QED  BY <2>1, <2>2, <2>3
<1>9. CASE C!Answer
  BY <1>9, AnswerKept
<1>10. CASE C!Quit
  BY <1>10, QuitKept
<1>11. CASE UNCHANGED coVars
  <2>1. C!Given' = C!Given /\ \A k : AnswerTo(k)' = AnswerTo(k)
    BY <1>11, GivenKept DEF coVars
  <2>2. CoTypes' /\ Passed' = Passed /\ WithChild' = WithChild /\ WithParent' = WithParent
    BY <1>11, <2>1 DEF coVars, CoInv, CoTypes, Passed, WithChild, WithParent
  <2>3. CoEnds'
    BY <1>11 DEF coVars, CoInv, CoEnds, Running
  <2>4. CoPlaces'
    BY <1>11, <2>1, <2>2 DEF coVars, CoInv, CoPlaces, Running
  <2>5. AnswersRight'
    BY <1>11, <2>1, <2>2 DEF coVars, CoInv, AnswersRight
  <2>6. Running' => LinesInOrder'
    BY <1>11, <2>1, <2>2 DEF coVars, CoInv, LinesInOrder, Running
  <2>. QED  BY <2>2, <2>3, <2>4, <2>5, <2>6 DEF CoInv
<1>. QED
  BY <1>1, <1>2, <1>3, <1>4, <1>5, <1>6, <1>7, <1>8, <1>9, <1>10, <1>11
  DEF C!CoNext, C!ParentStep, C!ChildStep

(* At the start all the lines are unread and both processes have the pipes. *)
LEMMA CoStarts == C!CoInit => CoInv
<1>. SUFFICES ASSUME C!CoInit PROVE CoInv
  OBVIOUS
<1>1. /\ parent = "setup" /\ co_child = "setup" /\ up = << >> /\ down = << >> /\ shown = << >>
      /\ open = {"parent", "child"} \X C!Pipes(program)
      /\ program \in {"hello", "page", "add", "lower"}
      /\ input = (IF program = "hello" THEN <<"sum">> ELSE lines)
      /\ lines \in UNION {[1 .. n -> C!Line] : n \in 0 .. MaxLines}
  BY Zenon DEF C!CoInit
<1>2. lines \in Seq(C!Line)
  <2>1. PICK n \in 0 .. MaxLines : lines \in [1 .. n -> C!Line]
    BY <1>1
  <2>2. n \in Nat
    BY <2>1
  <2>. QED  BY <2>1, <2>2, SeqDef
<1>3. C!Given = input
  BY <1>1 DEF C!Given
<1>4. input \in Seq(C!Line) /\ (program = "hello" => Len(input) = 1) /\ Len(input) \in Nat
  <2>1. <<"sum">> \in Seq(C!Line) /\ Len(<<"sum">>) = 1
    BY DEF C!Line
  <2>. QED  BY <1>1, <1>2, <2>1, LenProperties
<1>5. CoTypes
  BY <1>1, <1>3, <1>4, EmptySeq DEF CoTypes
<1>6. CoEnds
  BY <1>1 DEF CoEnds, C!Pipes, C!End
<1>7. WithChild = 0 /\ WithParent = 0 /\ Passed = 0 /\ Len(up) = 0 /\ Running /\ Len(down) = 0 /\ Len(shown) = 0
  BY <1>1, EmptySeq DEF WithChild, WithParent, Passed, Running
<1>8. CoPlaces
  BY <1>1, <1>7 DEF CoPlaces
<1>9. AnswersRight
  BY <1>3, <1>4, <1>7 DEF AnswersRight
<1>10. LinesInOrder
  <2>1. 0 + 0 + 0 + 0 + Len(input) = Len(input) /\ \A k \in 1 .. Len(input) : Len(input) - Len(input) + k = k
    BY <1>4
  <2>. QED  BY <1>1, <1>3, <1>7, <2>1 DEF LinesInOrder
<1>. QED  BY <1>5, <1>6, <1>8, <1>9, <1>10 DEF CoInv

(* What the invariant says of the lines on the terminal.                   *)
LEMMA CoShows == CoInv => LinesRight
<1>. SUFFICES ASSUME CoInv PROVE LinesRight
  OBVIOUS
<1>. DEFINE answers == [k \in DOMAIN C!Given |-> C!Converted(program, C!Given[k])]
<1>1. DOMAIN C!Given = 1 .. Len(C!Given) /\ C!Given \in Seq(C!Line) /\ shown \in Seq(Said)
      /\ Len(shown) \in Nat /\ Len(down) \in Nat /\ Len(C!Given) \in Nat
  BY CoLengths, LenProperties DEF CoInv, CoTypes
<1>2. \A k \in 1 .. Len(C!Given) : C!Given[k] \in C!Line
  BY <1>1, ElementOfSeq
<1>3. answers \in Seq(Said) /\ Len(answers) = Len(C!Given) /\ \A k \in 1 .. Len(C!Given) : answers[k] = AnswerTo(k)
  <2>1. answers \in [1 .. Len(C!Given) -> Said]
    BY <1>1, <1>2, ConvertedSaid
  <2>2. answers \in Seq(Said)
    BY <1>1, <2>1, SeqDef
  <2>. QED  BY <1>1, <2>1, <2>2, LenProperties DEF AnswerTo
<1>. HIDE DEF answers
<1>4. Len(shown) <= Len(answers) /\ \A k \in 1 .. Len(shown) : shown[k] = answers[k]
  BY <1>1, <1>3 DEF CoInv, AnswersRight, Passed
<1>5. C!IsPrefix(shown, answers)
  BY <1>1, <1>3, <1>4, PrefixOf
<1>6. parent = "ended" /\ co_child = "ended" /\ ~quit => shown = answers
  <2>. SUFFICES ASSUME parent = "ended", co_child = "ended", ~quit PROVE shown = answers
    OBVIOUS
  <2>1. down = << >> /\ Passed = Len(C!Given)
    BY DEF CoInv, CoTypes, CoPlaces, Running
  <2>2. Len(shown) = Len(answers)
    BY <1>1, <1>3, <2>1, EmptySeq DEF Passed
  <2>. QED  BY <1>1, <1>3, <1>4, <2>2, SeqEqual
<1>. QED  BY <1>5, <1>6 DEF LinesRight, C!LinesRight, answers

LEMMA CoPart == [Next]_all => [C!CoNext]_coVars
BY DEF Next, all, coVars, InCo, InFd, InConn, InPing, InOld, InDaemon, InPopen, Runs

(* Whatever the interleaving of parent and child, each line shown is the   *)
(* answer to its line, and none is missing when both ended by themselves.  *)
THEOREM LinesDelivered == Spec => []LinesRight
<1>1. Init => CoInv
  BY CoStarts DEF Init
<1>2. CoInv /\ [Next]_all => CoInv'
  BY CoStep, CoPart
<1>3. CoInv => LinesRight
  BY CoShows
<1>. QED  BY <1>1, <1>2, <1>3, PTL DEF Spec

-----------------------------------------------------------------------------
(* Passing descriptors.  As long as recv_fd() never gave up early, what    *)
(* the client has not read yet is the rest of the answer: text bytes, and  *)
(* then, once the server is done, the null byte and the status byte.       *)
Byte == [b : Int, fd : Int]
TextBytes == answer.text - fd_shown - fd_left
LastBytes == IF fd_server = "done" THEN 2 ELSE 0
RestOfAnswer ==
    /\ fd_left \in Nat /\ fd_shown \in Nat /\ TextBytes \in Nat
    /\ fd_server = "final" \/ fd_server = "done" => fd_left = 0
    /\ stream \in Seq(Byte) /\ Len(stream) = TextBytes + LastBytes
    /\ \A i \in 1 .. TextBytes : stream[i] = [b |-> F!Char, fd |-> F!NoFd]
    /\ fd_server = "done" => /\ stream[TextBytes + 1] = [b |-> 0, fd |-> answer.fd]
                             /\ stream[TextBytes + 2] = [b |-> F!status(answer), fd |-> F!NoFd]
ResultOfAnswer ==
    \/ answer.fd # F!NoFd /\ result = answer.fd
    \/ answer.fd = F!NoFd /\ fd_shown = answer.text /\ result = -F!status(answer)
FdInv ==
    /\ answer \in Replies
    /\ ~gaveUp => /\ lost = {}
                  /\ client = "reading" => RestOfAnswer
                  /\ client = "done" => \/ fd_server = "failed" /\ result = -1
                                        \/ fd_server = "done" /\ stream = << >> /\ ResultOfAnswer
                  /\ client = "dumped" => answer.text >= MAXLINE - 1
AnswersKnown == \A a \in Replies : a.fd \in Int /\ a.errcode \in Int /\ a.text \in Nat

LEMMA SmallestOf ==
    ASSUME NEW S, S \subseteq Int, NEW m \in S, \A x \in S : m <= x
    PROVE  F!Min(S) = m
<1>1. \A x \in S : (\A y \in S : x <= y) => x = m
  OBVIOUS
<1>. QED  BY <1>1 DEF F!Min

LEMMA OnlyOne ==
    ASSUME NEW n \in Int
    PROVE  F!Max({n}) = n
<1>1. \A x \in {n} : x = n /\ \A y \in {n} : x >= y
  OBVIOUS
<1>. QED  BY <1>1 DEF F!Max

(* The status byte is 0 exactly for an answer with a descriptor.           *)
LEMMA StatusByte ==
    ASSUME NEW a, a.fd \in Int, a.errcode \in Int
    PROVE  /\ F!status(a) \in Int
           /\ F!status(a) = 0 <=> a.fd # F!NoFd
           /\ a.fd = F!NoFd => F!status(a) = IF a.errcode >= 0 THEN 1
                                             ELSE IF (-a.errcode) % 256 = 0 THEN 1 ELSE (-a.errcode) % 256
<1>. DEFINE low(e) == (-e) % 256
<1>1. low(-1) = 1 /\ \A e \in Int : low(e) \in Int
  OBVIOUS
<1>2. a.errcode < 0 <=> ~(a.errcode >= 0)
  OBVIOUS
<1>3. CASE a.fd # F!NoFd
  BY <1>3 DEF F!status, F!NoFd
<1>4. CASE a.fd = F!NoFd /\ a.errcode >= 0
  BY <1>1, <1>4 DEF F!status
<1>5. CASE a.fd = F!NoFd /\ ~(a.errcode >= 0)
  BY <1>1, <1>5 DEF F!status
<1>. QED  BY <1>3, <1>4, <1>5

LEMMA RestTypes ==
    ASSUME AnswersKnown, answer \in Replies, RestOfAnswer
    PROVE  /\ TextBytes \in Nat /\ fd_left \in Nat /\ fd_shown \in Nat /\ answer.text \in Nat /\ Len(stream) \in Nat
           /\ answer.text = TextBytes + fd_shown + fd_left
           /\ answer.fd \in Int /\ answer.errcode \in Int /\ stream \in Seq(Byte)
<1>1. answer.text \in Nat /\ answer.fd \in Int /\ answer.errcode \in Int
  BY DEF AnswersKnown
<1>. QED  BY <1>1, LenProperties DEF RestOfAnswer, TextBytes

(* recvmsg() takes the whole stream, or as much as the buffer holds.       *)
LEMMA TakenBytes ==
    ASSUME AnswersKnown, MAXLINE \in Nat \ {0}, answer \in Replies, RestOfAnswer, stream # << >>
    PROVE  F!Available = (IF MAXLINE <= Len(stream) THEN MAXLINE ELSE Len(stream)) /\ Len(stream) > 0
<1>. DEFINE holds == {j \in DOMAIN stream : stream[j].fd # F!NoFd}
            ends == {i + 1 : i \in holds}
            m == IF MAXLINE <= Len(stream) THEN MAXLINE ELSE Len(stream)
<1>1. TextBytes \in Nat /\ Len(stream) \in Nat /\ DOMAIN stream = 1 .. Len(stream) /\ Len(stream) > 0
  BY RestTypes, LenProperties, EmptySeq
<1>2. \A j \in holds : j + 1 = Len(stream)
  <2>1. TAKE j \in holds
  <2>2. j \in 1 .. Len(stream) /\ stream[j].fd # F!NoFd
    BY <1>1
  <2>3. j \notin 1 .. TextBytes
    BY <2>2 DEF RestOfAnswer
  <2>4. fd_server = "done" /\ Len(stream) = TextBytes + 2
    BY <1>1, <2>2, <2>3 DEF RestOfAnswer, LastBytes
  <2>5. j # TextBytes + 2
    BY <2>2, <2>4 DEF RestOfAnswer
  <2>. QED  BY <1>1, <2>2, <2>3, <2>4, <2>5
<1>3. \A e \in ends : e = Len(stream)
  BY <1>2
<1>. DEFINE S == {MAXLINE, Len(stream)} \cup ends
<1>4. S \subseteq Int /\ m \in S /\ \A x \in S : m <= x
  <2>. HIDE DEF ends
  <2>1. \A x \in S : x = MAXLINE \/ x = Len(stream)
    BY <1>3
  <2>2. m \in S /\ MAXLINE \in Int /\ Len(stream) \in Int
    BY <1>1
  <2>3. m <= MAXLINE /\ m <= Len(stream)
    BY <1>1
  <2>. HIDE DEF S, m
  <2>. QED  BY <2>1, <2>2, <2>3
<1>5. F!Min(S) = m
  <2>. HIDE DEF S, m
  <2>. QED  BY <1>4, SmallestOf
<1>6. F!Available = F!Min(S)
  BY Zenon DEF F!Available
<1>. HIDE DEF S
<1>. QED  BY <1>1, <1>5, <1>6

(* A sequence with two elements more.                                      *)
LEMMA TwoMore ==
    ASSUME NEW S, NEW s \in Seq(S), NEW x \in S, NEW y \in S
    PROVE  /\ s \o <<x, y>> \in Seq(S) /\ Len(s \o <<x, y>>) = Len(s) + 2
           /\ \A i \in 1 .. Len(s) : (s \o <<x, y>>)[i] = s[i]
           /\ (s \o <<x, y>>)[Len(s) + 1] = x /\ (s \o <<x, y>>)[Len(s) + 2] = y
<1>. DEFINE n == Len(s)  both == <<x, y>>  l == s \o both
<1>1. both \in Seq(S) /\ Len(both) = 2 /\ both[1] = x /\ both[2] = y
  OBVIOUS
<1>2. n \in Nat
  BY LenProperties
<1>. HIDE DEF both
<1>3. l \in Seq(S) /\ Len(l) = n + Len(both) /\ \A i \in 1 .. n + Len(both) : l[i] = IF i <= n THEN s[i] ELSE both[i - n]
  BY <1>1, ConcatProperties
<1>. HIDE DEF l, n
<1>4. l[n + 1] = both[(n + 1) - n] /\ l[n + 2] = both[(n + 2) - n]
  BY <1>1, <1>2, <1>3
<1>5. (n + 1) - n = 1 /\ (n + 2) - n = 2
  BY <1>2
<1>6. \A i \in 1 .. n : l[i] = s[i]
  BY <1>1, <1>2, <1>3
<1>. QED  BY <1>1, <1>2, <1>3, <1>4, <1>5, <1>6 DEF l, n, both

(* The first bytes of the stream.                                          *)
LEMMA Beginning ==
    ASSUME NEW S, NEW s \in Seq(S), NEW n \in 1 .. Len(s)
    PROVE  /\ SubSeq(s, 1, n) \in Seq(S) /\ Len(SubSeq(s, 1, n)) = n /\ DOMAIN SubSeq(s, 1, n) = 1 .. n
           /\ \A i \in 1 .. n : SubSeq(s, 1, n)[i] = s[i]
<1>1. Len(s) \in Nat /\ n \in Int /\ 1 \in Int /\ n >= 1
  BY LenProperties
<1>2. \A i \in 1 .. n : s[i] \in S
  BY <1>1, ElementOfSeq
<1>3. /\ SubSeq(s, 1, n) \in Seq(S)
      /\ Len(SubSeq(s, 1, n)) = IF 1 <= n THEN n - 1 + 1 ELSE 0
      /\ \A i \in 1 .. n - 1 + 1 : SubSeq(s, 1, n)[i] = s[1 + i - 1]
  BY <1>1, <1>2, SubSeqProperties
<1>. DEFINE begin == SubSeq(s, 1, n)
<1>. HIDE DEF begin
<1>4. begin \in Seq(S) /\ Len(begin) = n /\ \A i \in 1 .. n : begin[i] = s[i]
  BY <1>1, <1>3 DEF begin
<1>. QED  BY <1>4, LenProperties DEF begin

(* One lemma for each step of the server and of the client.                *)
LEMMA WriteTextKept ==
    ASSUME AnswersKnown, FdInv, F!WriteText
    PROVE  FdInv'
<1>1. UNCHANGED <<answer, client, fd_shown, result, gaveUp, lost>> /\ fd_server = "text"
  BY DEF F!WriteText
<1>2. ~gaveUp => client # "done"
  BY <1>1 DEF FdInv
<1>3. ASSUME ~gaveUp, client = "reading" PROVE RestOfAnswer'
  <2>1. RestOfAnswer /\ answer \in Replies
    BY <1>3 DEF FdInv
  <2>2. TextBytes \in Nat /\ fd_left \in Nat /\ fd_shown \in Nat /\ answer.text \in Nat /\ stream \in Seq(Byte)
        /\ Len(stream) = TextBytes /\ answer.text = TextBytes + fd_shown + fd_left
    BY <1>1, <2>1, RestTypes DEF RestOfAnswer, LastBytes
  <2>3. CASE fd_server' = "failed" /\ UNCHANGED <<stream, fd_left>>
    BY <1>1, <2>1, <2>2, <2>3 DEF RestOfAnswer, TextBytes, LastBytes
  <2>4. ASSUME NEW n \in 1 .. fd_left,
               stream' = stream \o [i \in 1 .. n |-> [b |-> F!Char, fd |-> F!NoFd]],
               fd_left' = fd_left - n, fd_server' = IF fd_left = n THEN "final" ELSE "text"
        PROVE  RestOfAnswer'
    <3>. DEFINE text == [i \in 1 .. n |-> [b |-> F!Char, fd |-> F!NoFd]]  longer == stream \o text
    <3>1. n \in Nat /\ n <= fd_left
      BY <2>2
    <3>2. text \in Seq(Byte) /\ Len(text) = n
      <4>1. text \in [1 .. n -> Byte]
        BY DEF Byte, F!Char, F!NoFd
      <4>2. text \in Seq(Byte)
        BY <3>1, <4>1, SeqDef
      <4>3. DOMAIN text = 1 .. n /\ DOMAIN text = 1 .. Len(text) /\ Len(text) \in Nat
        BY <4>1, <4>2, LenProperties
      <4>. HIDE DEF text
      <4>. QED  BY <3>1, <4>2, <4>3
    <3>3. \A i \in 1 .. n : text[i] = [b |-> F!Char, fd |-> F!NoFd]
      OBVIOUS
    <3>. HIDE DEF text
    <3>4. longer \in Seq(Byte) /\ Len(longer) = TextBytes + n
          /\ \A i \in 1 .. TextBytes + n : longer[i] = IF i <= TextBytes THEN stream[i] ELSE text[i - TextBytes]
      BY <2>2, <3>2, ConcatProperties
    <3>. HIDE DEF longer
    <3>5. \A i \in 1 .. TextBytes + n : longer[i] = [b |-> F!Char, fd |-> F!NoFd]
      <4>1. TAKE i \in 1 .. TextBytes + n
      <4>2. CASE i <= TextBytes
        BY <2>1, <2>2, <3>4, <4>2 DEF RestOfAnswer
      <4>3. CASE ~(i <= TextBytes)
        <5>1. i - TextBytes \in 1 .. n
          BY <2>2, <3>1, <4>3
        <5>. QED  BY <3>3, <3>4, <4>3, <5>1
      <4>. QED  BY <4>2, <4>3
    <3>6. stream' = longer
      BY <2>4 DEF longer, text
    <3>7. fd_left' \in Nat /\ TextBytes' = TextBytes + n /\ (fd_server' = "final" => fd_left' = 0) /\ fd_server' # "done"
      BY <1>1, <2>2, <2>4, <3>1 DEF TextBytes
    <3>. QED  BY <1>1, <2>2, <3>1, <3>4, <3>5, <3>6, <3>7 DEF RestOfAnswer, LastBytes
  <2>. QED  BY <1>1, <2>3, <2>4 DEF F!WriteText
<1>. QED  BY <1>1, <1>2, <1>3 DEF FdInv

LEMMA SendFdKept ==
    ASSUME AnswersKnown, FdInv, F!SendFd
    PROVE  FdInv'
<1>1. UNCHANGED <<answer, client, fd_shown, fd_left, result, gaveUp, lost>> /\ fd_server = "final"
  BY DEF F!SendFd
<1>2. ~gaveUp => client # "done"
  BY <1>1 DEF FdInv
<1>3. ASSUME ~gaveUp, client = "reading" PROVE RestOfAnswer'
  <2>1. RestOfAnswer /\ answer \in Replies
    BY <1>3 DEF FdInv
  <2>2. TextBytes \in Nat /\ stream \in Seq(Byte) /\ Len(stream) = TextBytes
    BY <1>1, <2>1, RestTypes DEF RestOfAnswer, LastBytes
  <2>3. CASE fd_server' = "failed" /\ UNCHANGED stream
    BY <1>1, <2>1, <2>2, <2>3 DEF RestOfAnswer, TextBytes, LastBytes
  <2>4. CASE /\ stream' = stream \o <<[b |-> 0, fd |-> answer.fd], [b |-> F!status(answer), fd |-> F!NoFd]>>
             /\ fd_server' = "done"
    <3>. DEFINE null == [b |-> 0, fd |-> answer.fd]  last == [b |-> F!status(answer), fd |-> F!NoFd]
                longer == stream \o <<null, last>>
    <3>1. null \in Byte /\ last \in Byte
      BY <2>1, RestTypes, StatusByte DEF Byte, F!NoFd
    <3>. HIDE DEF null, last
    <3>2. longer \in Seq(Byte) /\ Len(longer) = TextBytes + 2 /\ (\A i \in 1 .. TextBytes : longer[i] = stream[i])
          /\ longer[TextBytes + 1] = null /\ longer[TextBytes + 2] = last
      BY <2>2, <3>1, TwoMore
    <3>. HIDE DEF longer
    <3>4. \A i \in 1 .. TextBytes : longer[i] = [b |-> F!Char, fd |-> F!NoFd]
      BY <2>1, <2>2, <3>2 DEF RestOfAnswer
    <3>6. stream' = longer
      BY <2>4 DEF longer, null, last
    <3>. QED  BY <1>1, <2>1, <2>4, <3>2, <3>4, <3>6 DEF RestOfAnswer, TextBytes, LastBytes, null, last
  <2>. QED  BY <1>1, <2>3, <2>4 DEF F!SendFd
<1>. QED  BY <1>1, <1>2, <1>3 DEF FdInv

LEMMA ReadFailsKept ==
    ASSUME FdInv, F!ReadFails
    PROVE  FdInv'
BY DEF FdInv, F!ReadFails

LEMMA NextRequestKept ==
    ASSUME AnswersKnown, FdInv, F!NextRequest
    PROVE  FdInv'
<1>1. PICK a \in Replies : answer' = a /\ fd_left' = a.text /\ fd_server' = IF a.text > 0 THEN "text" ELSE "final"
  BY DEF F!NextRequest, F!Begin
<1>2. client' = "reading" /\ fd_shown' = 0 /\ UNCHANGED <<stream, gaveUp, lost>> /\ client = "done" /\ fd_server = "done"
  BY DEF F!NextRequest
<1>3. ASSUME ~gaveUp PROVE RestOfAnswer' /\ lost = {}
  <2>1. stream = << >> /\ lost = {} /\ << >> \in Seq(Byte) /\ Len(<< >>) = 0
    BY <1>2, <1>3, EmptySeq DEF FdInv
  <2>2. a.text \in Nat /\ TextBytes' = 0
    BY <1>1, <1>2 DEF AnswersKnown, TextBytes
  <2>. QED  BY <1>1, <1>2, <2>1, <2>2 DEF RestOfAnswer, LastBytes
<1>. QED  BY <1>1, <1>2, <1>3 DEF FdInv

(* A recv_fd() that reads text only has the rest of the answer before it.  *)
LEMMA TextRead ==
    ASSUME AnswersKnown, answer \in Replies, RestOfAnswer, NEW nr \in 1 .. TextBytes,
           UNCHANGED <<answer, fd_server, fd_left>>, fd_shown' = fd_shown + nr,
           stream' = SubSeq(stream, nr + 1, Len(stream))
    PROVE  RestOfAnswer'
<1>. DEFINE rest == SubSeq(stream, nr + 1, Len(stream))  k == TextBytes
<1>1. TextBytes \in Nat /\ fd_shown \in Nat /\ fd_left \in Nat /\ Len(stream) \in Nat /\ answer.text \in Nat
      /\ stream \in Seq(Byte) /\ answer.text = TextBytes + fd_shown + fd_left /\ LastBytes \in {0, 2}
      /\ Len(stream) = TextBytes + LastBytes
  BY RestTypes DEF LastBytes, RestOfAnswer
<1>2. /\ rest \in Seq(Byte) /\ Len(rest) = Len(stream) - nr
      /\ \A i \in 1 .. Len(stream) - nr : rest[i] = stream[nr + i]
  <2>. DEFINE m == nr + 1  n == Len(stream)
  <2>1. m \in Int /\ n \in Int /\ \A i \in m .. n : stream[i] \in Byte
    <3>1. \A i \in m .. n : i \in 1 .. Len(stream)
      BY <1>1
    <3>. QED  BY <1>1, <3>1, ElementOfSeq
  <2>2. (IF m <= n THEN n - m + 1 ELSE 0) = n - nr /\ n - m + 1 = n - nr /\ \A i \in 1 .. n - nr : m + i - 1 = nr + i
    BY <1>1
  <2>. HIDE DEF m, n
  <2>3. /\ SubSeq(stream, m, n) \in Seq(Byte)
        /\ Len(SubSeq(stream, m, n)) = IF m <= n THEN n - m + 1 ELSE 0
        /\ \A i \in 1 .. n - m + 1 : SubSeq(stream, m, n)[i] = stream[m + i - 1]
    BY <2>1, SubSeqProperties
  <2>. QED  BY <2>2, <2>3 DEF m, n
<1>. HIDE DEF rest
<1>3. stream' = rest
  BY DEF rest
<1>4. TextBytes' = k - nr /\ k - nr \in Nat /\ (fd_shown + nr) \in Nat /\ LastBytes' = LastBytes
  <2>1. k - nr \in Nat /\ (fd_shown + nr) \in Nat
    BY <1>1
  <2>2. LastBytes' = LastBytes
    BY DEF LastBytes
  <2>3. answer.text - (fd_shown + nr) - fd_left = (answer.text - fd_shown - fd_left) - nr
    BY <1>1
  <2>. QED  BY <2>1, <2>2, <2>3 DEF TextBytes
<1>5. Len(rest) = k - nr + LastBytes
  BY <1>1, <1>2
<1>6. \A i \in 1 .. k - nr : rest[i] = [b |-> F!Char, fd |-> F!NoFd]
  <2>1. TAKE i \in 1 .. k - nr
  <2>2. i \in 1 .. Len(stream) - nr /\ nr + i \in 1 .. k
    BY <1>1
  <2>. QED  BY <1>2, <2>2 DEF RestOfAnswer
<1>7. ASSUME fd_server = "done"
      PROVE  rest[k - nr + 1] = stream[k + 1] /\ rest[k - nr + 2] = stream[k + 2]
  <2>1. LastBytes = 2
    BY <1>7 DEF LastBytes
  <2>. DEFINE p == k - nr + 1  q == k - nr + 2
  <2>2. p \in 1 .. Len(stream) - nr /\ nr + p = k + 1
    BY <1>1, <2>1
  <2>3. q \in 1 .. Len(stream) - nr /\ nr + q = k + 2
    BY <1>1, <2>1
  <2>. HIDE DEF p, q, k
  <2>4. rest[p] = stream[k + 1]
    BY <1>2, <2>2
  <2>5. rest[q] = stream[k + 2]
    BY <1>2, <2>3
  <2>. QED  BY <2>4, <2>5 DEF p, q
<1>. HIDE DEF k
<1>8. k = TextBytes
  BY DEF k
<1>. QED  BY <1>1, <1>2, <1>3, <1>4, <1>5, <1>6, <1>7, <1>8 DEF RestOfAnswer

LEMMA ReadKept ==
    ASSUME AnswersKnown, MAXLINE \in Nat \ {0}, FdInv, F!Read
    PROVE  FdInv'
<1>. DEFINE nr == F!Available  buf == SubSeq(stream, 1, nr)  null == F!Min(F!Nulls(buf))
            final == F!Nulls(buf) # {}  k == TextBytes
<1>1. UNCHANGED <<answer, fd_server, fd_left, round>> /\ client = "reading" /\ stream # << >>
      /\ stream' = SubSeq(stream, nr + 1, Len(stream))
  BY Zenon DEF F!Read
<1>2. \/ final /\ (null # nr - 1 \/ (buf[nr].b = 0 /\ F!Fds(buf) = {})) /\ client' = "dumped" /\ UNCHANGED <<fd_shown, result, gaveUp, lost>>
      \/ ~final /\ fd_shown' = fd_shown + (IF final THEN nr - 2 ELSE nr) /\ UNCHANGED <<client, result, gaveUp, lost>>
      \/ /\ final /\ null = nr - 1 /\ (buf[nr].b = 0 => F!Fds(buf) # {})
         /\ fd_shown' = fd_shown + (IF final THEN nr - 2 ELSE nr) /\ client' = "done"
         /\ result' = (IF buf[nr].b = 0 THEN F!Max(F!Fds(buf)) ELSE -buf[nr].b)
         /\ UNCHANGED <<gaveUp, lost>>
      \/ gaveUp' = TRUE
  BY Zenon DEF F!Read
<1>. SUFFICES ASSUME ~gaveUp, ~(gaveUp' = TRUE) PROVE FdInv'
  BY <1>1, <1>2 DEF FdInv
<1>3. answer \in Replies /\ RestOfAnswer /\ lost = {} /\ answer' = answer /\ UNCHANGED <<gaveUp, lost>>
  BY <1>1, <1>2 DEF FdInv
<1>4. /\ k \in Nat /\ Len(stream) \in Nat /\ Len(stream) > 0 /\ LastBytes \in {0, 2} /\ Len(stream) = k + LastBytes
      /\ nr = (IF MAXLINE <= Len(stream) THEN MAXLINE ELSE Len(stream)) /\ stream \in Seq(Byte)
  BY <1>1, <1>3, RestTypes, TakenBytes DEF LastBytes, RestOfAnswer
<1>5. nr \in 1 .. Len(stream)
  <2>. HIDE DEF nr
  <2>. QED  BY <1>4
<1>6. buf \in Seq(Byte) /\ Len(buf) = nr /\ DOMAIN buf = 1 .. nr /\ \A i \in 1 .. nr : buf[i] = stream[i]
  BY <1>4, <1>5, Beginning
<1>. HIDE DEF nr, buf
<1>7. F!Nulls(buf) = {i \in 1 .. nr : stream[i].b = 0} /\ F!Fds(buf) = {stream[i].fd : i \in 1 .. nr} \ {F!NoFd}
  BY <1>6 DEF F!Nulls, F!Fds
<1>8. CASE nr <= k
  <2>1. \A i \in 1 .. nr : stream[i].b # 0
    BY <1>3, <1>4, <1>5, <1>8 DEF RestOfAnswer, F!Char
  <2>2. F!Nulls(buf) = {}
    BY <1>7, <2>1
  <2>3. fd_shown' = fd_shown + nr /\ UNCHANGED <<client, result>>
    BY <1>2, <2>2
  <2>4. nr \in 1 .. TextBytes
    BY <1>4, <1>5, <1>8
  <2>5. RestOfAnswer'
    BY <1>1, <1>3, <2>3, <2>4, TextRead
  <2>. QED  BY <1>1, <1>3, <2>3, <2>5 DEF FdInv
<1>9. CASE ~(nr <= k)
  <2>1. fd_server = "done" /\ Len(stream) = k + 2 /\ (nr = k + 1 \/ nr = k + 2) /\ (nr = k + 1 => MAXLINE = nr)
    BY <1>4, <1>5, <1>9 DEF LastBytes
  <2>2. stream[k + 1] = [b |-> 0, fd |-> answer.fd] /\ stream[k + 2] = [b |-> F!status(answer), fd |-> F!NoFd]
        /\ \A i \in 1 .. k : stream[i] = [b |-> F!Char, fd |-> F!NoFd]
    BY <1>3, <2>1 DEF RestOfAnswer
  <2>3. stream[k + 1].b = 0 /\ stream[k + 1].fd = answer.fd /\ stream[k + 2].b = F!status(answer) /\ stream[k + 2].fd = F!NoFd
        /\ \A i \in 1 .. k : stream[i].b # 0 /\ stream[i].fd = F!NoFd
    BY <2>2 DEF F!Char
  <2>4. null = k + 1 /\ final
    <3>1. F!Nulls(buf) \subseteq Int /\ k + 1 \in F!Nulls(buf) /\ \A i \in F!Nulls(buf) : k + 1 <= i
      BY <1>4, <1>7, <2>1, <2>3
    <3>. QED  BY <3>1, SmallestOf
  <2>5. answer.text \in Nat /\ answer.text = k + fd_shown + fd_left /\ fd_left = 0 /\ fd_shown \in Nat /\ answer.fd \in Int
        /\ answer.errcode \in Int
    BY <1>3, <2>1, RestTypes DEF RestOfAnswer
  <2>. HIDE DEF null, final
  <2>6. CASE nr = k + 1
    <3>1. client' = "dumped" /\ answer.text >= MAXLINE - 1
      BY <1>2, <1>4, <2>1, <2>4, <2>5, <2>6
    <3>. QED  BY <1>3, <3>1 DEF FdInv
  <2>7. CASE nr = k + 2
    <3>1. buf[nr].b = F!status(answer) /\ null = nr - 1 /\ Len(stream) = nr
      BY <1>4, <1>5, <1>6, <2>1, <2>3, <2>4, <2>7
    <3>2. F!Fds(buf) = {answer.fd} \ {F!NoFd}
      <4>1. \A i \in 1 .. nr : i \in 1 .. k \/ i = k + 1 \/ i = k + 2
        BY <1>4, <2>7
      <4>2. k + 1 \in 1 .. nr
        BY <1>4, <2>7
      <4>. QED  BY <1>7, <2>3, <4>1, <4>2
    <3>3. F!status(answer) = 0 <=> answer.fd # F!NoFd
      BY <2>5, StatusByte
    <3>4. ~(null # nr - 1 \/ (buf[nr].b = 0 /\ F!Fds(buf) = {}))
      BY <3>1, <3>2, <3>3
    <3>5. /\ fd_shown' = fd_shown + (nr - 2) /\ client' = "done"
          /\ result' = IF F!status(answer) = 0 THEN F!Max(F!Fds(buf)) ELSE -F!status(answer)
      BY <1>2, <2>4, <3>1, <3>4
    <3>6. fd_shown' = answer.text
      BY <1>4, <2>5, <2>7, <3>5
    <3>7. ResultOfAnswer'
      <4>1. CASE answer.fd # F!NoFd
        <5>1. F!Fds(buf) = {answer.fd}
          BY <3>2, <4>1
        <5>. QED  BY <1>1, <2>5, <3>3, <3>5, <4>1, <5>1, OnlyOne DEF ResultOfAnswer
      <4>2. CASE answer.fd = F!NoFd
        BY <1>1, <3>3, <3>5, <3>6, <4>2 DEF ResultOfAnswer
      <4>. QED  BY <4>1, <4>2
    <3>8. stream' = << >>
      <4>1. nr + 1 \in Int /\ Len(stream) \in Int /\ Len(stream) < nr + 1
        BY <1>4, <1>5, <3>1
      <4>. QED  BY <1>1, <4>1, SubSeqEmpty
    <3>. QED  BY <1>1, <1>3, <2>1, <3>5, <3>7, <3>8 DEF FdInv
  <2>. QED  BY <2>1, <2>6, <2>7
<1>. QED  BY <1>8, <1>9

LEMMA FdStep == AnswersKnown /\ MAXLINE \in Nat \ {0} /\ FdInv /\ [F!FdNext]_fdVars => FdInv'
<1>. SUFFICES ASSUME AnswersKnown, MAXLINE \in Nat \ {0}, FdInv, [F!FdNext]_fdVars PROVE FdInv'
  OBVIOUS
<1>1. CASE F!WriteText
  BY <1>1, WriteTextKept
<1>2. CASE F!SendFd
  BY <1>2, SendFdKept
<1>3. CASE F!Read
  BY <1>3, ReadKept
<1>4. CASE F!ReadFails
  BY <1>4, ReadFailsKept
<1>5. CASE F!NextRequest
  BY <1>5, NextRequestKept
<1>6. CASE UNCHANGED fdVars
  BY <1>6 DEF fdVars, FdInv, RestOfAnswer, ResultOfAnswer, TextBytes, LastBytes
<1>. QED  BY <1>1, <1>2, <1>3, <1>4, <1>5, <1>6 DEF F!FdNext

LEMMA FdPart == [Next]_all => [F!FdNext]_fdVars
BY DEF Next, all, fdVars, InCo, InFd, InConn, InPing, InOld, InDaemon, InPopen, Runs

(* Unless recv_fd() once gave up early, it returns what was sent for its   *)
(* request, it loses no descriptor, and it dumps core only if the text     *)
(* nearly fills the buffer.                                                *)
THEOREM DescriptorsDelivered ==
    ASSUME MAXLINE \in Nat \ {0},
           \A a \in Replies : a.fd \in Int /\ a.errcode \in Int /\ a.text \in Nat
    PROVE  Spec => []Delivered
<1>1. AnswersKnown
  BY DEF AnswersKnown
<1>2. Init => FdInv
  <2>. SUFFICES ASSUME Init PROVE FdInv
    OBVIOUS
  <2>1. /\ stream = << >> /\ answer \in Replies /\ fd_left = answer.text /\ client = "reading" /\ fd_shown = 0
        /\ fd_server = (IF answer.text > 0 THEN "text" ELSE "final") /\ lost = {}
    BY DEF Init, F!FdInit
  <2>2. answer.text \in Nat /\ TextBytes = 0 /\ LastBytes = 0
    BY <1>1, <2>1 DEF AnswersKnown, TextBytes, LastBytes
  <2>3. << >> \in Seq(Byte) /\ Len(<< >>) = 0
    BY EmptySeq
  <2>4. RestOfAnswer
    BY <2>1, <2>2, <2>3 DEF RestOfAnswer
  <2>. QED  BY <2>1, <2>4 DEF FdInv
<1>3. FdInv /\ [Next]_all => FdInv'
  BY <1>1, FdStep, FdPart
<1>4. FdInv => Delivered
  <2>. SUFFICES ASSUME FdInv PROVE F!Answered /\ F!NoFormatError
    BY DEF Delivered, F!Delivered
  <2>1. answer \in Replies /\ answer.fd \in Int /\ answer.errcode \in Int
    BY <1>1 DEF FdInv, AnswersKnown
  <2>2. answer.fd = F!NoFd => F!status(answer) = IF answer.errcode >= 0 THEN 1
            ELSE IF (-answer.errcode) % 256 = 0 THEN 1 ELSE (-answer.errcode) % 256
    BY <2>1, StatusByte
  <2>3. ~gaveUp /\ client = "done" => (fd_server = "failed" /\ result = -1) \/ ResultOfAnswer
    BY DEF FdInv
  <2>4. F!Answered
    BY <2>2, <2>3 DEF FdInv, F!Answered, ResultOfAnswer
  <2>5. F!NoFormatError
    BY DEF FdInv, F!NoFormatError
  <2>. QED  BY <2>4, <2>5
<1>. QED  BY <1>2, <1>3, <1>4, PTL DEF Spec

=============================================================================
