---------------------------- MODULE PopenProofs -----------------------------
(***************************************************************************)
(* Proofs about popen() and pclose(), for any number of calls, any table   *)
(* of descriptors and any value of maxfd.                                  *)
(***************************************************************************)
EXTENDS Popen, FiniteSetTheorems, WellFoundedInduction, TLAPS

PopenSpec == PopenInit /\ [][PopenNext]_popenVars

-----------------------------------------------------------------------------
(* The inductive invariant.  A call of popen() is being made between its   *)
(* pipe() and its fdopen(); pclose() waits for one child.                  *)
Unreaped == {"forked", "run", "zombie"}
Types == {"r", "w"}
Child == [st : {"none", "forked", "run", "zombie", "reaped"}, type : Types,
          fds : [Fd -> Ends], inherited : [Fd -> 0 .. NChild]]
Opening(c) == pc \in {"fork", "close", "fdopen"} /\ c = calls
Awaited(c) == pc = "waitpid" /\ c = pfd[1]

PopenTypes ==
    /\ fds \in [Fd -> Ends] /\ childpid \in [Fd -> 0 .. NChild] /\ child \in [Pid -> Child]
    /\ calls \in 0 .. NChild /\ pc \in {"idle", "fork", "close", "fdopen", "waitpid"}
    /\ type \in Types /\ failed \subseteq 1 .. calls

(* A stream is the parent's end of the pipe of a child that nobody has     *)
(* waited for, or waits for, and is the only stream of that child.         *)
Streams ==
    \A i \in Fd : childpid[i] # 0 =>
        /\ i < MAXFD /\ childpid[i] \in Pid
        /\ fds[i] = ParentEnd(childpid[i], child[childpid[i]].type)
        /\ child[childpid[i]].st \in Unreaped
        /\ ~Opening(childpid[i]) /\ ~Awaited(childpid[i])
        /\ \A j \in Fd : childpid[j] = childpid[i] => j = i
(* Every pipe end has a reason to be open.                                 *)
Owned ==
    \A i \in Fd : fds[i].pipe > 0 =>
        /\ fds[i].pipe <= calls
        /\ childpid[i] = fds[i].pipe \/ fds[i].pipe \in failed \/ Opening(fds[i].pipe)
(* Every child that can be waited for can be found, or its call failed, or *)
(* the fclose() of its stream.                                             *)
Known ==
    \A c \in Pid \ failed : child[c].st \in Unreaped =>
        Opening(c) \/ Awaited(c) \/ c \in unwaited \/ \E i \in Fd : childpid[i] = c
(* What fclose() lost has no stream and is never waited for.               *)
Lost ==
    \A c \in unwaited : /\ c \in Pid /\ child[c].st \in Unreaped /\ ~Opening(c) /\ ~Awaited(c)
                       /\ \A i \in Fd : childpid[i] # c
(* What popen() and pclose() have in their local variables.                *)
Pair == /\ pfd \in Fd \X Fd /\ pfd[1] # pfd[2] /\ pfd[1] < MAXFD /\ pfd[2] < MAXFD
        /\ childpid[pfd[1]] = 0 /\ childpid[pfd[2]] = 0
        /\ fds[pfd[1]] = End(calls, "r") /\ fds[pfd[2]] = End(calls, "w")
        /\ \A i \in Fd \ {pfd[1], pfd[2]} : fds[i].pipe # calls
Locals ==
    /\ pc \in {"fork", "close", "fdopen"} => calls \in Pid \ failed
    /\ pc \in {"fork", "close"} => Pair
    /\ pc = "fdopen" => /\ pfd \in Fd \X Fd /\ ParentFd < MAXFD /\ childpid[ParentFd] = 0
                        /\ fds[ParentFd] = ParentEnd(calls, type)
                        /\ \A i \in Fd \ {ParentFd} : fds[i].pipe # calls
    /\ pc \in {"close", "fdopen"} => child[calls].st \in Unreaped /\ child[calls].type = type
    /\ pc = "waitpid" => pfd[1] \in Pid /\ child[pfd[1]].st \in Unreaped
    /\ \A c \in Pid : child[c].st # "none" => c <= calls /\ (pc = "fork" => c # calls)
(* What a child was given by fork(): one descriptor for each end of its    *)
(* pipe; any other pipe end is one that it will close, or of a failed call.*)
Given(c, m, n) ==
    /\ m # n /\ child[c].fds[m] = ChildEnd(c, child[c].type) /\ child[c].fds[n] = ParentEnd(c, child[c].type)
    /\ \A i \in Fd \ {m, n} : /\ child[c].fds[i].pipe # c
                              /\ \/ child[c].fds[i].pipe \in {0} \cup failed
                                 \/ i < MAXFD /\ child[c].inherited[i] > 0
Forks == \A c \in Pid : child[c].st = "forked" => \E m, n \in Fd : Given(c, m, n)
PopenInv == PopenTypes /\ Streams /\ Owned /\ Known /\ Lost /\ Locals /\ Forks

(* Where standard input and output are open at the start they stay what    *)
(* they are, in every child too.                                           *)
StdKept == /\ \A i \in {STDIN, STDOUT} : fds[i] = Other
           /\ \A c \in Pid : child[c].st = "forked" =>
                  \A i \in {STDIN, STDOUT} : child[c].fds[i] = Other /\ child[c].inherited[i] = 0
TableInv == StdKept /\ OwnPipeOnly

-----------------------------------------------------------------------------
(* Lowest(S) is the least descriptor of S.                                 *)
LEMMA LowestIsLeast ==
    ASSUME NEW S, S \subseteq Nat, S # {}
    PROVE  Lowest(S) \in S /\ \A j \in S : Lowest(S) <= j
<1>1. PICK i \in S : \A j \in S : ~(<<j, i>> \in OpToRel(<, Nat))
  BY NatLessThanWellFounded, WFMin
<1>2. ASSUME NEW j \in S, j < i PROVE FALSE
  <2>1. <<j, i>> \in Nat \X Nat /\ <<j, i>>[1] < <<j, i>>[2]
    BY <1>2
  <2>2. <<j, i>> \in OpToRel(<, Nat)
    BY <2>1, Zenon DEF OpToRel
  <2>. QED  BY <1>1, <2>2
<1>3. \A j \in S : i <= j
  BY <1>2
<1>. QED  BY <1>3 DEF Lowest

(* There are two free descriptors when pipe() succeeds.                    *)
LEMMA TwoFree ==
    ASSUME Cardinality(FreeFds) >= 2
    PROVE  /\ Lowest(FreeFds) \in FreeFds /\ Lowest(FreeFds \ {Lowest(FreeFds)}) \in FreeFds
           /\ Lowest(FreeFds) < Lowest(FreeFds \ {Lowest(FreeFds)})
<1>. DEFINE i == Lowest(FreeFds)
            j == Lowest(FreeFds \ {i})
<1>1. FreeFds \in SUBSET Fd /\ Fd \subseteq Nat /\ IsFiniteSet(Fd)
  BY PopenAssumption, FS_Interval DEF FreeFds, Fd
<1>2. IsFiniteSet(FreeFds)
  BY <1>1, FS_Subset
<1>3. FreeFds # {}
  BY <1>2, FS_EmptySet
<1>4. i \in FreeFds /\ \A k \in FreeFds : i <= k
  BY <1>1, <1>3, LowestIsLeast
<1>5. FreeFds \ {i} # {}
  <2>1. Cardinality(FreeFds \ {i}) = Cardinality(FreeFds) - 1
    BY <1>2, <1>4, FS_RemoveElement
  <2>2. Cardinality(FreeFds) \in Nat
    BY <1>2, FS_CardinalityType
  <2>. QED  BY <2>1, <2>2, FS_EmptySet
<1>6. j \in FreeFds \ {i}
  BY <1>1, <1>5, LowestIsLeast
<1>7. i <= j /\ i # j /\ i \in Nat /\ j \in Nat
  BY <1>1, <1>4, <1>6
<1>. QED  BY <1>4, <1>6, <1>7

LEMMA PopenStart == PopenInit => PopenInv
<1>. SUFFICES ASSUME PopenInit PROVE PopenInv  OBVIOUS
<1>1. PopenTypes
  BY PopenAssumption DEF PopenInit, PopenTypes, Ends, Child, Types, NoChild, Closed, Other, End
<1>2. Owned
  BY DEF PopenInit, Owned, Closed, Other, End
<1>3. Streams /\ Known /\ Lost /\ Locals /\ Forks
  BY DEF PopenInit, Streams, Known, Lost, Locals, Forks, NoChild, Unreaped
<1>. QED  BY <1>1, <1>2, <1>3 DEF PopenInv

(* fork(): the child has what the process has.                             *)
LEMMA ForkKeeps ==
    ASSUME PopenInv, Fork
    PROVE  PopenInv'
<1>0. PopenTypes /\ Streams /\ Owned /\ Known /\ Lost /\ Locals /\ Forks
  BY DEF PopenInv
<1>a. /\ pc = "fork" /\ pc' = "close" /\ UNCHANGED <<fds, childpid, calls, pfd, type, failed, unwaited>>
      /\ calls \in Pid \ failed /\ Pair
      /\ child' = [child EXCEPT ![calls] = [st |-> "forked", type |-> type, fds |-> fds, inherited |-> childpid]]
  BY <1>0 DEF Fork, Locals
<1>b. /\ child'[calls].st = "forked" /\ child'[calls].type = type /\ child' \in [Pid -> Child]
      /\ \A c \in Pid \ {calls} : child'[c] = child[c]
  BY <1>0, <1>a DEF PopenTypes, Child
<1>1. PopenTypes'
  BY <1>0, <1>a, <1>b DEF PopenTypes
<1>2. Streams'
  BY <1>0, <1>a, <1>b DEF Streams, PopenTypes, Opening, Awaited
<1>3. Owned'
  BY <1>0, <1>a DEF Owned, PopenTypes, Opening
<1>4. Known'
  BY <1>0, <1>a, <1>b DEF Known, PopenTypes, Opening, Awaited
<1>5. Locals'
  <2>1. Pair'
    BY <1>a DEF Pair
  <2>2. child'[calls].st \in Unreaped /\ \A c \in Pid : child'[c].st # "none" => c <= calls
    BY <1>0, <1>a, <1>b DEF Locals, PopenTypes, Pid, Unreaped
  <2>. QED  BY <1>a, <1>b, <2>1, <2>2 DEF Locals
<1>6. Forks'
  <2>1. PICK m \in Fd, n \in Fd :
            /\ m # n /\ {m, n} = {pfd[1], pfd[2]}
            /\ fds[m] = ChildEnd(calls, type) /\ fds[n] = ParentEnd(calls, type)
    <3>1. CASE type = "r"
      BY <1>a, <3>1 DEF Pair, ChildEnd, ParentEnd
    <3>2. CASE type = "w"
      BY <1>a, <3>2 DEF Pair, ChildEnd, ParentEnd
    <3>. QED  BY <1>0, <3>1, <3>2 DEF PopenTypes, Types
  <2>2. child'[calls].fds = fds /\ child'[calls].inherited = childpid
    BY <1>0, <1>a DEF PopenTypes
  <2>3. ASSUME NEW i \in Fd \ {m, n}
        PROVE  /\ fds[i].pipe # calls
               /\ fds[i].pipe \in {0} \cup failed \/ (i < MAXFD /\ childpid[i] > 0)
    <3>1. fds[i].pipe # calls
      BY <1>a, <2>1 DEF Pair
    <3>2. fds[i].pipe \in Nat /\ childpid[i] \in Nat
      BY <1>0 DEF PopenTypes, Ends
    <3>3. fds[i].pipe > 0 => childpid[i] = fds[i].pipe \/ fds[i].pipe \in failed
      BY <1>0, <3>1 DEF Owned, Opening
    <3>4. childpid[i] # 0 => i < MAXFD
      BY <1>0 DEF Streams
    <3>. QED  BY <3>1, <3>2, <3>3, <3>4
  <2>4. Given(calls, m, n)'
    BY <1>a, <1>b, <2>1, <2>2, <2>3 DEF Given
  <2>5. \A c \in Pid \ {calls} : child'[c].st = "forked" => \E k, l \in Fd : Given(c, k, l)'
    BY <1>0, <1>a, <1>b DEF Forks, Given
  <2>. QED  BY <1>a, <2>1, <2>4, <2>5 DEF Forks
<1>7. Lost'
  BY <1>0, <1>a, <1>b DEF Lost, PopenTypes, Opening, Awaited
<1>. QED  BY <1>1, <1>2, <1>3, <1>4, <1>5, <1>6, <1>7 DEF PopenInv

(* fork() fails: both ends of the pipe stay open.                          *)
LEMMA ForkFailsKeeps ==
    ASSUME PopenInv, ForkFails
    PROVE  PopenInv'
<1>0. PopenTypes /\ Streams /\ Owned /\ Known /\ Lost /\ Locals /\ Forks
  BY DEF PopenInv
<1>a. /\ pc = "fork" /\ pc' = "idle" /\ failed' = failed \cup {calls}
      /\ UNCHANGED <<fds, childpid, child, calls, pfd, type, unwaited>> /\ calls \in Pid /\ calls \in 1 .. calls
  BY <1>0 DEF ForkFails, Locals, Pid, PopenTypes
<1>1. PopenTypes'
  BY <1>0, <1>a DEF PopenTypes
<1>2. Streams'
  BY <1>0, <1>a DEF Streams, PopenTypes, Opening, Awaited
<1>3. Owned'
  BY <1>0, <1>a DEF Owned, PopenTypes, Opening
<1>4. Known'
  BY <1>0, <1>a DEF Known, PopenTypes, Opening, Awaited
<1>5. Locals'
  BY <1>0, <1>a DEF Locals
<1>6. Forks'
  BY <1>0, <1>a DEF Forks, Given
<1>7. Lost'
  BY <1>0, <1>a DEF Lost, Opening, Awaited
<1>. QED  BY <1>1, <1>2, <1>3, <1>4, <1>5, <1>6, <1>7 DEF PopenInv

(* The child's end is closed in the parent.                                *)
LEMMA ParentCloseKeeps ==
    ASSUME PopenInv, ParentClose
    PROVE  PopenInv'
<1>0. PopenTypes /\ Streams /\ Owned /\ Known /\ Lost /\ Locals /\ Forks
  BY DEF PopenInv
<1>. DEFINE theirs == pfd[IF type = "r" THEN 2 ELSE 1]
<1>a. /\ pc = "close" /\ pc' = "fdopen" /\ UNCHANGED <<childpid, child, calls, pfd, type, failed, unwaited>>
      /\ calls \in Pid \ failed /\ Pair /\ child[calls].st \in Unreaped /\ child[calls].type = type
      /\ fds' = [fds EXCEPT ![theirs] = Closed]
  BY <1>0 DEF ParentClose, Locals
<1>b. /\ theirs \in Fd /\ ParentFd \in Fd /\ theirs # ParentFd /\ childpid[theirs] = 0
      /\ fds[ParentFd] = ParentEnd(calls, type) /\ ParentFd < MAXFD /\ childpid[ParentFd] = 0
      /\ \A i \in Fd \ {theirs, ParentFd} : fds[i].pipe # calls
  BY <1>0, <1>a DEF Pair, ParentFd, ParentEnd, PopenTypes, Types
<1>. HIDE DEF theirs
<1>c. Closed \in Ends /\ Closed.pipe = 0
  BY PopenAssumption DEF Closed, End, Ends
<1>d. /\ fds' \in [Fd -> Ends] /\ fds'[theirs] = Closed
      /\ \A i \in Fd \ {theirs} : fds'[i] = fds[i]
  BY <1>0, <1>a, <1>b, <1>c DEF PopenTypes
<1>1. PopenTypes'
  BY <1>0, <1>a, <1>d DEF PopenTypes
<1>2. Streams'
  BY <1>0, <1>a, <1>b, <1>d DEF Streams, PopenTypes, Opening, Awaited
<1>3. Owned'
  BY <1>0, <1>a, <1>b, <1>c, <1>d DEF Owned, PopenTypes, Opening
<1>4. Known'
  BY <1>0, <1>a DEF Known, PopenTypes, Opening, Awaited
<1>5. Locals'
  <2>1. ParentFd' = ParentFd /\ calls > 0
    BY <1>a DEF ParentFd, Pid
  <2>2. \A i \in Fd \ {ParentFd} : fds'[i].pipe # calls
    BY <1>b, <1>c, <1>d, <2>1
  <2>3. \A c \in Pid : child'[c].st # "none" => c <= calls'
    BY <1>0, <1>a DEF Locals
  <2>4. pfd' \in Fd \X Fd
    BY <1>a DEF Pair
  <2>. QED  BY <1>a, <1>b, <1>d, <2>1, <2>2, <2>3, <2>4 DEF Locals
<1>6. Forks'
  BY <1>0, <1>a DEF Forks, Given
<1>7. Lost'
  BY <1>0, <1>a DEF Lost, Opening, Awaited
<1>. QED  BY <1>1, <1>2, <1>3, <1>4, <1>5, <1>6, <1>7 DEF PopenInv

(* fdopen(): the stream is there and childpid[] names its child.           *)
LEMMA FdopenKeeps ==
    ASSUME PopenInv, Fdopen
    PROVE  PopenInv'
<1>0. PopenTypes /\ Streams /\ Owned /\ Known /\ Lost /\ Locals /\ Forks
  BY DEF PopenInv
<1>a. /\ pc = "fdopen" /\ pc' = "idle" /\ UNCHANGED <<fds, child, calls, pfd, type, failed, unwaited>>
      /\ childpid' = [childpid EXCEPT ![ParentFd] = calls] /\ calls \in Pid \ failed
      /\ child[calls].st \in Unreaped /\ child[calls].type = type
      /\ ParentFd < MAXFD /\ childpid[ParentFd] = 0 /\ fds[ParentFd] = ParentEnd(calls, type)
      /\ pfd \in Fd \X Fd /\ \A i \in Fd \ {ParentFd} : fds[i].pipe # calls
  BY <1>0 DEF Fdopen, Locals
<1>b. ParentFd \in Fd /\ ParentEnd(calls, type).pipe = calls
  BY <1>a DEF ParentFd, ParentEnd, End
<1>c. /\ childpid' \in [Fd -> 0 .. NChild] /\ childpid'[ParentFd] = calls
      /\ \A i \in Fd \ {ParentFd} : childpid'[i] = childpid[i]
  BY <1>0, <1>a, <1>b DEF PopenTypes
<1>d. \A i \in Fd : childpid[i] # calls
  BY <1>0, <1>a DEF Streams, Opening, Pid
<1>1. PopenTypes'
  BY <1>0, <1>a, <1>c DEF PopenTypes
<1>2. Streams'
  BY <1>0, <1>a, <1>b, <1>c, <1>d DEF Streams, PopenTypes, Opening, Awaited
<1>3. Owned'
  BY <1>0, <1>a, <1>b, <1>c DEF Owned, PopenTypes, Opening
<1>4. Known'
  <2>. SUFFICES ASSUME NEW c \in Pid \ failed, child[c].st \in Unreaped
                PROVE  c \in unwaited \/ \E i \in Fd : childpid'[i] = c
    BY <1>a DEF Known
  <2>1. CASE c = calls  BY <1>b, <1>c, <2>1
  <2>2. CASE c # calls /\ c \notin unwaited
    <3>1. PICK i \in Fd : childpid[i] = c
      BY <1>0, <1>a, <2>2 DEF Known, Opening, Awaited
    <3>2. i # ParentFd
      BY <1>a, <3>1 DEF Pid
    <3>. QED  BY <1>c, <3>1, <3>2
  <2>. QED  BY <2>1, <2>2
<1>5. Locals'
  BY <1>0, <1>a DEF Locals
<1>6. Forks'
  BY <1>0, <1>a DEF Forks, Given
<1>7. Lost'
  BY <1>0, <1>a, <1>c DEF Lost, Opening, Awaited
<1>. QED  BY <1>1, <1>2, <1>3, <1>4, <1>5, <1>6, <1>7 DEF PopenInv

(* fdopen() fails: the end and the child stay.                             *)
LEMMA FdopenFailsKeeps ==
    ASSUME PopenInv, FdopenFails
    PROVE  PopenInv'
<1>0. PopenTypes /\ Streams /\ Owned /\ Known /\ Lost /\ Locals /\ Forks
  BY DEF PopenInv
<1>a. /\ pc = "fdopen" /\ pc' = "idle" /\ failed' = failed \cup {calls}
      /\ UNCHANGED <<fds, childpid, child, calls, pfd, type, unwaited>> /\ calls \in Pid /\ calls \in 1 .. calls
  BY <1>0 DEF FdopenFails, Locals, Pid, PopenTypes
<1>1. PopenTypes'
  BY <1>0, <1>a DEF PopenTypes
<1>2. Streams'
  BY <1>0, <1>a DEF Streams, PopenTypes, Opening, Awaited
<1>3. Owned'
  BY <1>0, <1>a DEF Owned, PopenTypes, Opening
<1>4. Known'
  BY <1>0, <1>a DEF Known, PopenTypes, Opening, Awaited
<1>5. Locals'
  BY <1>0, <1>a DEF Locals
<1>6. Forks'
  BY <1>0, <1>a DEF Forks, Given
<1>7. Lost'
  BY <1>0, <1>a DEF Lost, Opening, Awaited
<1>. QED  BY <1>1, <1>2, <1>3, <1>4, <1>5, <1>6, <1>7 DEF PopenInv

(* waitpid() returns the status of the child of the stream.                *)
LEMMA WaitpidKeeps ==
    ASSUME PopenInv, Waitpid
    PROVE  PopenInv'
<1>0. PopenTypes /\ Streams /\ Owned /\ Known /\ Lost /\ Locals /\ Forks
  BY DEF PopenInv
<1>. DEFINE w == pfd[1]
<1>a. /\ pc = "waitpid" /\ pc' = "idle" /\ UNCHANGED <<fds, childpid, calls, pfd, type, failed, unwaited>>
      /\ child[w].st = "zombie" /\ child' = [child EXCEPT ![w].st = "reaped"] /\ w \in Pid
  BY <1>0 DEF Waitpid, Locals
<1>. HIDE DEF w
<1>b. /\ child' \in [Pid -> Child] /\ child'[w].st = "reaped"
      /\ \A c \in Pid \ {w} : child'[c] = child[c]
  BY <1>0, <1>a DEF PopenTypes, Child
<1>c. \A i \in Fd : childpid[i] # w
  BY <1>0, <1>a DEF Streams, Awaited, Pid, w
<1>1. PopenTypes'
  BY <1>0, <1>a, <1>b DEF PopenTypes
<1>2. Streams'
  BY <1>0, <1>a, <1>b, <1>c DEF Streams, PopenTypes, Opening, Awaited
<1>3. Owned'
  BY <1>0, <1>a DEF Owned, PopenTypes, Opening
<1>4. Known'
  BY <1>0, <1>a, <1>b DEF Known, PopenTypes, Opening, Awaited, Unreaped, w
<1>5. Locals'
  BY <1>0, <1>a, <1>b DEF Locals
<1>6. Forks'
  BY <1>0, <1>a, <1>b DEF Forks, Given
<1>7. Lost'
  BY <1>0, <1>a, <1>b DEF Lost, Opening, Awaited, w
<1>. QED  BY <1>1, <1>2, <1>3, <1>4, <1>5, <1>6, <1>7 DEF PopenInv

(* popen() up to pipe(): two descriptors that were free.                   *)
LEMMA PopenPipeKeeps ==
    ASSUME PopenInv, NEW t \in Types, PopenPipe(t)
    PROVE  PopenInv'
<1>0. PopenTypes /\ Streams /\ Owned /\ Known /\ Lost /\ Locals /\ Forks
  BY DEF PopenInv
<1>. DEFINE i == Lowest(FreeFds)
            j == Lowest(FreeFds \ {i})
            n == calls + 1
<1>a. /\ pc = "idle" /\ pc' = "fork" /\ calls' = n /\ type' = t /\ n \in Pid /\ n > calls
      /\ UNCHANGED <<childpid, child, failed, unwaited>> /\ calls \in Nat /\ n \in Nat
  BY <1>0, PopenAssumption DEF PopenPipe, PopenTypes, Pid
<1>b. /\ pfd' = <<i, j>> /\ j < MAXFD
      /\ fds' = [fds EXCEPT ![i] = End(n, "r"), ![j] = End(n, "w")]
  BY DEF PopenPipe
<1>c. i \in FreeFds /\ j \in FreeFds /\ i < j
  BY TwoFree DEF PopenPipe
<1>. HIDE DEF i, j, n
<1>d. i \in Fd /\ j \in Fd /\ fds[i] = Closed /\ fds[j] = Closed /\ i # j /\ i < MAXFD
  <2>1. i \in Int /\ j \in Int /\ MAXFD \in Int
    BY <1>c, PopenAssumption DEF FreeFds, Fd
  <2>. QED  BY <1>b, <1>c, <2>1 DEF FreeFds
<1>e. End(n, "r") \in Ends /\ End(n, "w") \in Ends /\ End(n, "r").pipe = n /\ End(n, "w").pipe = n
  BY <1>a DEF End, Ends, Pid
<1>f. /\ fds' \in [Fd -> Ends] /\ fds'[i] = End(n, "r") /\ fds'[j] = End(n, "w")
      /\ \A k \in Fd \ {i, j} : fds'[k] = fds[k]
  BY <1>0, <1>b, <1>d, <1>e DEF PopenTypes
<1>g. \A k \in Fd : fds[k].pipe \in 0 .. calls
  <2>. TAKE k \in Fd
  <2>1. fds[k].pipe \in Nat  BY <1>0 DEF PopenTypes, Ends
  <2>2. fds[k].pipe > 0 => fds[k].pipe <= calls  BY <1>0 DEF Owned
  <2>. QED  BY <1>a, <2>1, <2>2
<1>h. childpid[i] = 0 /\ childpid[j] = 0
  <2>1. \A k \in Fd : childpid[k] # 0 => fds[k] # Closed
    <3>. SUFFICES ASSUME NEW k \in Fd, childpid[k] # 0 PROVE fds[k].end # "closed"  BY DEF Closed, End
    <3>1. fds[k] = ParentEnd(childpid[k], child[childpid[k]].type) /\ childpid[k] \in Pid
      BY <1>0 DEF Streams
    <3>2. child[childpid[k]].type \in {"r", "w"}
      BY <1>0, <3>1 DEF PopenTypes, Child, Types
    <3>. QED  BY <3>1, <3>2 DEF ParentEnd, End
  <2>. QED  BY <1>d, <2>1
<1>i. \A k \in Fd : childpid[k] # 0 => childpid[k] # n /\ child[childpid[k]].st # "none"
  <2>. SUFFICES ASSUME NEW k \in Fd, childpid[k] # 0
                PROVE  childpid[k] # n /\ child[childpid[k]].st # "none"
    OBVIOUS
  <2>1. childpid[k] \in Pid /\ child[childpid[k]].st \in Unreaped
    BY <1>0 DEF Streams
  <2>2. child[childpid[k]].st # "none"
    BY <2>1 DEF Unreaped
  <2>3. childpid[k] <= calls
    BY <1>0, <2>1, <2>2 DEF Locals
  <2>. QED  BY <1>a, <2>1, <2>2, <2>3 DEF Pid
<1>1. PopenTypes'
  <2>1. calls' \in 0 .. NChild /\ failed' \subseteq 1 .. calls'
    BY <1>0, <1>a DEF PopenTypes, Pid
  <2>. QED  BY <1>0, <1>a, <1>f, <2>1 DEF PopenTypes
<1>2. Streams'
  BY <1>0, <1>a, <1>d, <1>f, <1>h, <1>i DEF Streams, Opening, Awaited
<1>3. Owned'
  <2>. SUFFICES ASSUME NEW k \in Fd, fds'[k].pipe > 0
                PROVE  /\ fds'[k].pipe <= n
                       /\ childpid[k] = fds'[k].pipe \/ fds'[k].pipe \in failed \/ fds'[k].pipe = n
    BY <1>a DEF Owned, Opening
  <2>1. CASE k \in {i, j}
    BY <1>a, <1>e, <1>f, <2>1 DEF Pid
  <2>2. CASE k \notin {i, j}
    <3>1. fds'[k] = fds[k] /\ fds[k].pipe \in 0 .. calls
      BY <1>f, <1>g, <2>2
    <3>2. fds[k].pipe <= n
      BY <1>a, <3>1
    <3>. QED  BY <1>0, <1>a, <3>1, <3>2 DEF Owned, Opening
  <2>. QED  BY <2>1, <2>2
<1>4. Known'
  BY <1>0, <1>a DEF Known, Opening, Awaited
<1>5. Locals'
  <2>1. n \notin failed
    <3>1. n \notin 1 .. calls
      BY <1>a
    <3>. QED  BY <1>0, <3>1 DEF PopenTypes
  <2>2. pfd' \in Fd \X Fd /\ pfd'[1] = i /\ pfd'[2] = j
    BY <1>b, <1>d
  <2>3. Pair'
    BY <1>a, <1>b, <1>d, <1>f, <1>g, <1>h, <2>2 DEF Pair
  <2>4. \A c \in Pid : child[c].st # "none" => c <= n /\ c # n
    BY <1>0, <1>a DEF Locals, Pid
  <2>. QED  BY <1>a, <2>1, <2>3, <2>4 DEF Locals
<1>6. Forks'
  BY <1>0, <1>a DEF Forks, Given
<1>7. Lost'
  BY <1>0, <1>a DEF Lost, Locals, Unreaped, Opening, Awaited
<1>. QED  BY <1>1, <1>2, <1>3, <1>4, <1>5, <1>6, <1>7 DEF PopenInv

(* pclose(): the entry and the stream go, one child is waited for.         *)
LEMMA PcloseKeeps ==
    ASSUME PopenInv, NEW s \in Fd, Pclose(s)
    PROVE  PopenInv'
<1>0. PopenTypes /\ Streams /\ Owned /\ Known /\ Lost /\ Locals /\ Forks
  BY DEF PopenInv
<1>. DEFINE w == childpid[s]
<1>a. /\ pc = "idle" /\ w # 0
      /\ \/ pc' = "waitpid" /\ pfd' = <<w, 0>> /\ UNCHANGED unwaited
         \/ pc' = "idle" /\ unwaited' = unwaited \cup {w}
      /\ childpid' = [childpid EXCEPT ![s] = 0] /\ fds' = [fds EXCEPT ![s] = Closed]
      /\ UNCHANGED <<child, calls, type, failed>>
  BY DEF Pclose
<1>b. /\ w \in Pid /\ child[w].st \in Unreaped /\ \A k \in Fd : childpid[k] = w => k = s
      /\ childpid[s] = w /\ w \notin unwaited
  BY <1>0, <1>a DEF Streams, Lost
<1>. HIDE DEF w
<1>c. Closed \in Ends /\ Closed.pipe = 0
  BY PopenAssumption DEF Closed, End, Ends
<1>d. /\ fds' \in [Fd -> Ends] /\ fds'[s] = Closed /\ childpid' \in [Fd -> 0 .. NChild] /\ childpid'[s] = 0
      /\ \A k \in Fd \ {s} : fds'[k] = fds[k] /\ childpid'[k] = childpid[k]
  BY <1>0, <1>a, <1>c, PopenAssumption DEF PopenTypes
<1>e. \/ pc' = "waitpid" /\ pfd'[1] = w /\ unwaited' = unwaited
      \/ pc' = "idle" /\ unwaited' = unwaited \cup {w}
  BY <1>a
<1>f. w # 0 /\ \A k \in Fd : childpid'[k] # w
  BY <1>a, <1>b, <1>d
<1>1. PopenTypes'
  BY <1>0, <1>a, <1>d, <1>e DEF PopenTypes
<1>2. Streams'
  BY <1>0, <1>a, <1>b, <1>d, <1>e DEF Streams, Opening, Awaited
<1>3. Owned'
  BY <1>0, <1>a, <1>c, <1>d, <1>e DEF Owned, Opening
<1>4. Known'
  <2>. SUFFICES ASSUME NEW c \in Pid \ failed, child[c].st \in Unreaped, c # w
                PROVE  c \in unwaited \/ \E k \in Fd : childpid'[k] = c
    BY <1>a, <1>e DEF Known, Awaited
  <2>1. c \in unwaited \/ \E k \in Fd : childpid[k] = c
    BY <1>0, <1>a DEF Known, Opening, Awaited
  <2>. QED  BY <1>b, <1>d, <2>1
<1>5. Locals'
  BY <1>0, <1>a, <1>b, <1>e DEF Locals
<1>6. Forks'
  BY <1>0, <1>a DEF Forks, Given
<1>7. Lost'
  <2>. SUFFICES ASSUME NEW c \in unwaited'
                PROVE  /\ c \in Pid /\ child[c].st \in Unreaped /\ ~Opening(c)' /\ ~Awaited(c)'
                       /\ \A i \in Fd : childpid'[i] # c
    BY <1>a DEF Lost
  <2>1. ~Opening(c)'
    BY <1>e DEF Opening
  <2>2. CASE c \in unwaited
    <3>1. c \in Pid /\ child[c].st \in Unreaped /\ \A i \in Fd : childpid[i] # c
      BY <1>0, <2>2 DEF Lost
    <3>2. c # 0 /\ c # w
      BY <1>b, <2>2, <3>1 DEF Pid
    <3>3. ~Awaited(c)'
      BY <1>e, <3>2 DEF Awaited
    <3>. QED  BY <1>d, <2>1, <3>1, <3>2, <3>3
  <2>3. CASE c \notin unwaited
    <3>1. c = w /\ pc' = "idle"
      BY <1>e, <2>3
    <3>. QED  BY <1>b, <1>f, <2>1, <3>1 DEF Awaited
  <2>. QED  BY <2>2, <2>3
<1>. QED  BY <1>1, <1>2, <1>3, <1>4, <1>5, <1>6, <1>7 DEF PopenInv

(* A child goes on, or ends, and can be waited for as before.              *)
LEMMA ChildStepKeeps ==
    ASSUME PopenInv, NEW c \in Pid, UNCHANGED <<fds, childpid, calls, pc, pfd, type, failed, unwaited>>,
           child' \in [Pid -> Child], \A d \in Pid \ {c} : child'[d] = child[d],
           child[c].st \in Unreaped, child'[c].st \in {"run", "zombie"}, child'[c].type = child[c].type
    PROVE  PopenInv'
<1>0. PopenTypes /\ Streams /\ Owned /\ Known /\ Lost /\ Locals /\ Forks
  BY DEF PopenInv
<1>a. child'[c].st \in Unreaped /\ child'[c].st # "forked"
  BY DEF Unreaped
<1>1. PopenTypes'
  BY <1>0 DEF PopenTypes
<1>2. Streams'
  BY <1>0, <1>a DEF Streams, Opening, Awaited
<1>3. Owned'
  BY <1>0 DEF Owned, Opening
<1>4. Known'
  BY <1>0, <1>a DEF Known, Opening, Awaited
<1>5. Locals'
  <2>1. Pair <=> Pair'
    BY DEF Pair
  <2>2. ParentFd' = ParentFd
    BY DEF ParentFd
  <2>3. child[c].st # "none"
    BY DEF Unreaped
  <2>. QED  BY <1>0, <1>a, <2>1, <2>2, <2>3 DEF Locals
<1>6. Forks'
  BY <1>0, <1>a DEF Forks, Given
<1>7. Lost'
  BY <1>0, <1>a DEF Lost, Opening, Awaited
<1>. QED  BY <1>1, <1>2, <1>3, <1>4, <1>5, <1>6, <1>7 DEF PopenInv

(* The descriptors with which a command starts.                            *)
LEMMA ExecTable ==
    ASSUME PopenTypes, Forks, NEW c \in Pid, child[c].st = "forked"
    PROVE  /\ ExecFds(c) \in [Fd -> Ends]
           /\ \A i \in Fd : ExecFds(c)[i].pipe \in {0, c} \cup failed
           /\ (\A i \in {STDIN, STDOUT} : child[c].fds[i] = Other /\ child[c].inherited[i] = 0)
              => ExecFds(c)[Std(child[c].type)] = ChildEnd(c, child[c].type)
<1>. DEFINE f == child[c].fds
            t == child[c].type
            h == child[c].inherited
<1>1. f \in [Fd -> Ends] /\ t \in Types /\ h \in [Fd -> 0 .. NChild] /\ c \in Nat /\ c > 0
  BY DEF PopenTypes, Child, Pid
<1>2. PICK m \in Fd, n \in Fd : Given(c, m, n)
  BY DEF Forks
<1>3. /\ m # n /\ f[m] = ChildEnd(c, t) /\ f[n] = ParentEnd(c, t)
      /\ \A i \in Fd \ {m, n} : /\ f[i].pipe # c
                                /\ f[i].pipe \in {0} \cup failed \/ (i < MAXFD /\ h[i] > 0)
  BY <1>2 DEF Given
<1>. HIDE DEF f, t, h
<1>4. ChildEnd(c, t).pipe = c /\ ParentEnd(c, t).pipe = c /\ ChildEnd(c, t) # ParentEnd(c, t)
  BY <1>1 DEF ChildEnd, ParentEnd, End, Types
<1>5. {i \in Fd : f[i] = ChildEnd(c, t)} = {m} /\ {i \in Fd : f[i] = ParentEnd(c, t)} = {n}
  BY <1>2, <1>3, <1>4
<1>6. Fd \subseteq Nat /\ STDIN \in Fd /\ STDOUT \in Fd /\ Std(t) \in {STDIN, STDOUT}
  BY <1>1, PopenAssumption DEF Fd, STDIN, STDOUT, Std, Types
<1>7. Lowest({m}) = m /\ Lowest({n}) = n
  BY <1>2, <1>6, LowestIsLeast
<1>. DEFINE g == [f EXCEPT ![n] = Closed]
            r == IF m = Std(t) THEN g ELSE [g EXCEPT ![Std(t)] = g[m], ![m] = Closed]
<1>8. Redirected(f, c, t) = r
  <2>. DEFINE mine == Lowest({i \in Fd : f[i] = ChildEnd(c, t)})
              theirs == Lowest({i \in Fd : f[i] = ParentEnd(c, t)})
              k == [f EXCEPT ![theirs] = Closed]
  <2>1. Redirected(f, c, t) = IF mine = Std(t) THEN k ELSE [k EXCEPT ![Std(t)] = k[mine], ![mine] = Closed]
    BY DEF Redirected
  <2>2. mine = m /\ theirs = n
    BY <1>5, <1>7
  <2>. HIDE DEF mine, theirs
  <2>. QED  BY <2>1, <2>2
<1>9. ExecFds(c) = [i \in Fd |-> IF i < MAXFD /\ h[i] > 0 THEN Closed ELSE r[i]]
  BY <1>8 DEF ExecFds, f, t, h
<1>10. Closed \in Ends /\ Closed.pipe = 0
  BY PopenAssumption DEF Closed, End, Ends
<1>11. /\ g \in [Fd -> Ends] /\ g[m] = f[m] /\ g[n] = Closed /\ \A i \in Fd \ {n} : g[i] = f[i]
  BY <1>1, <1>2, <1>3, <1>10
<1>. HIDE DEF g
<1>12. r \in [Fd -> Ends]
  BY <1>2, <1>6, <1>10, <1>11
<1>13. \A i \in Fd : r[i] \in {Closed, f[m], g[i]}
  BY <1>2, <1>6, <1>11
<1>14. m # Std(t) => r[m] = Closed /\ r[Std(t)] = f[m]
  BY <1>2, <1>6, <1>11
<1>15. m = Std(t) => r[Std(t)] = f[m]
  BY <1>11
<1>. HIDE DEF r
<1>16. ASSUME NEW i \in Fd PROVE ExecFds(c)[i].pipe \in {0, c} \cup failed
  <2>1. CASE i < MAXFD /\ h[i] > 0
    BY <1>9, <1>10, <2>1
  <2>2. CASE ~(i < MAXFD /\ h[i] > 0)
    <3>1. ExecFds(c)[i] = r[i]
      BY <1>9, <2>2
    <3>2. CASE r[i] = Closed
      BY <1>10, <3>1, <3>2
    <3>3. CASE r[i] = f[m]
      BY <1>3, <1>4, <3>1, <3>3
    <3>4. CASE r[i] = g[i]
      <4>1. CASE i = n  BY <1>10, <1>11, <3>1, <3>4, <4>1
      <4>2. CASE i = m  BY <1>3, <1>4, <1>11, <3>1, <3>4, <4>2
      <4>3. CASE i \notin {m, n}
        BY <1>3, <1>11, <2>2, <3>1, <3>4, <4>3
      <4>. QED  BY <4>1, <4>2, <4>3
    <3>. QED  BY <1>13, <3>2, <3>3, <3>4
  <2>. QED  BY <2>1, <2>2
<1>17. ASSUME \A i \in {STDIN, STDOUT} : f[i] = Other /\ h[i] = 0
       PROVE  ExecFds(c)[Std(t)] = ChildEnd(c, t)
  <2>1. Std(t) \in Fd /\ h[Std(t)] = 0
    BY <1>6, <1>17
  <2>2. ExecFds(c)[Std(t)] = r[Std(t)]
    BY <1>9, <2>1
  <2>. QED  BY <1>3, <1>14, <1>15, <2>2
<1>18. ExecFds(c) \in [Fd -> Ends]
  BY <1>9, <1>10, <1>12
<1>. QED  BY <1>16, <1>17, <1>18 DEF f, t, h

(* Every step keeps the invariant.                                         *)
LEMMA PopenStep == PopenInv /\ [PopenNext]_popenVars => PopenInv'
<1>. SUFFICES ASSUME PopenInv, [PopenNext]_popenVars PROVE PopenInv'  OBVIOUS
<1>0. PopenTypes  BY DEF PopenInv
<1>1. CASE Library
  BY <1>1, ForkKeeps, ForkFailsKeeps, ParentCloseKeeps, FdopenKeeps, FdopenFailsKeeps, WaitpidKeeps DEF Library
<1>2. ASSUME NEW t \in {"r", "w"}, PopenPipe(t) PROVE PopenInv'
  BY <1>2, PopenPipeKeeps DEF Types
<1>3. ASSUME NEW i \in Fd, Pclose(i) PROVE PopenInv'
  BY <1>3, PcloseKeeps
<1>4. ASSUME NEW c \in Pid, ChildExec(c) PROVE PopenInv'
  <2>1. /\ child[c].st = "forked" /\ child' = [child EXCEPT ![c].fds = ExecFds(c), ![c].st = "run"]
        /\ UNCHANGED <<fds, childpid, calls, pc, pfd, type, failed, unwaited>>
    BY <1>4 DEF ChildExec
  <2>2. ExecFds(c) \in [Fd -> Ends]
    BY <2>1, ExecTable DEF PopenInv
  <2>. DEFINE e == ExecFds(c)
  <2>. HIDE DEF e
  <2>3. child' = [child EXCEPT ![c].fds = e, ![c].st = "run"] /\ e \in [Fd -> Ends]
    BY <2>1, <2>2 DEF e
  <2>4. /\ child' \in [Pid -> Child] /\ child'[c].st = "run" /\ child'[c].type = child[c].type
        /\ \A d \in Pid \ {c} : child'[d] = child[d]
    BY <1>0, <2>3 DEF PopenTypes, Child
  <2>. QED  BY <2>1, <2>4, ChildStepKeeps DEF Unreaped
<1>5. ASSUME NEW c \in Pid, ChildExit(c) PROVE PopenInv'
  <2>1. /\ child[c].st = "run" /\ child' = [child EXCEPT ![c].st = "zombie"]
        /\ UNCHANGED <<fds, childpid, calls, pc, pfd, type, failed, unwaited>>
    BY <1>5 DEF ChildExit
  <2>2. /\ child' \in [Pid -> Child] /\ child'[c].st = "zombie" /\ child'[c].type = child[c].type
        /\ \A d \in Pid \ {c} : child'[d] = child[d]
    BY <1>0, <2>1 DEF PopenTypes, Child
  <2>. QED  BY <2>1, <2>2, ChildStepKeeps DEF Unreaped
<1>6. CASE UNCHANGED popenVars
  BY <1>6 DEF popenVars, PopenInv, PopenTypes, Streams, Owned, Known, Lost, Locals, Forks, Given,
              Pair, ParentFd, Opening, Awaited
<1>. QED  BY <1>1, <1>2, <1>3, <1>4, <1>5, <1>6 DEF PopenNext

(* A step keeps standard input and output, and gives a command its own     *)
(* pipe end only, where they are open when the process starts.             *)
LEMMA TableStep ==
    ASSUME PopenInv, PopenInv', TableInv, [PopenNext]_popenVars
    PROVE  TableInv'
<1>0. PopenTypes /\ PopenTypes' /\ Streams /\ Locals /\ Forks /\ StdKept /\ OwnPipeOnly
  BY DEF PopenInv, TableInv
<1>s. STDIN \in Fd /\ STDOUT \in Fd
  BY PopenAssumption DEF Fd, STDIN, STDOUT
<1>a. \A i \in {STDIN, STDOUT} : fds[i] = Other /\ Other.pipe = 0 /\ Other # Closed /\ childpid[i] = 0
  <2>1. \A k \in Nat \ {0}, u \in {"r", "w"} : ParentEnd(k, u) # Other
    BY DEF ParentEnd, End, Other
  <2>2. \A i \in {STDIN, STDOUT} : fds[i] = Other /\ Other.pipe = 0 /\ Other # Closed
    BY <1>0 DEF StdKept, Other, Closed, End
  <2>3. ASSUME NEW i \in {STDIN, STDOUT}, childpid[i] # 0 PROVE FALSE
    <3>1. childpid[i] \in Pid /\ fds[i] = ParentEnd(childpid[i], child[childpid[i]].type)
      BY <1>0, <1>s, <2>3 DEF Streams
    <3>2. childpid[i] \in Nat \ {0} /\ child[childpid[i]].type \in {"r", "w"}
      BY <1>0, <3>1 DEF PopenTypes, Child, Types, Pid
    <3>. QED  BY <2>1, <2>2, <3>1, <3>2
  <2>. QED  BY <2>2, <2>3
(* Whoever runs keeps its descriptors while it runs.                       *)
<1>b. ASSUME failed \subseteq failed', NEW c \in Pid, child'[c].st = "run",
             child[c].st = "run", child'[c].fds = child[c].fds, child'[c].type = child[c].type
      PROVE  /\ \A i \in Fd : child'[c].fds[i].pipe \in {0, c} \cup failed'
             /\ child'[c].fds[Std(child'[c].type)] = ChildEnd(c, child'[c].type)
  BY <1>0, <1>b DEF OwnPipeOnly
<1>c. ASSUME failed \subseteq failed', child' = child
      PROVE  OwnPipeOnly'
  BY <1>b, <1>c DEF OwnPipeOnly
<1>d. ASSUME UNCHANGED child, \A i \in {STDIN, STDOUT} : fds'[i] = fds[i]
      PROVE  StdKept'
  BY <1>0, <1>d DEF StdKept
<1>e. fds \in [Fd -> Ends] /\ childpid \in [Fd -> 0 .. NChild] /\ child \in [Pid -> Child]
  BY <1>0 DEF PopenTypes
<1>1. CASE Fork
  <2>1. /\ UNCHANGED <<fds, failed>> /\ calls \in Pid
        /\ child' = [child EXCEPT ![calls] = [st |-> "forked", type |-> type, fds |-> fds, inherited |-> childpid]]
    BY <1>0, <1>1 DEF Fork, Locals
  <2>2. /\ child'[calls].st = "forked" /\ child'[calls].fds = fds /\ child'[calls].inherited = childpid
        /\ \A c \in Pid \ {calls} : child'[c] = child[c]
    BY <1>e, <2>1
  <2>3. StdKept'
    BY <1>0, <1>a, <2>1, <2>2 DEF StdKept
  <2>4. OwnPipeOnly'
    BY <1>0, <2>1, <2>2 DEF OwnPipeOnly
  <2>. QED  BY <2>3, <2>4 DEF TableInv
<1>2. CASE ForkFails \/ FdopenFails \/ Fdopen
  BY <1>2, <1>c, <1>d DEF ForkFails, FdopenFails, Fdopen, TableInv
<1>3. CASE ParentClose
  <2>1. PICK x \in Fd : fds' = [fds EXCEPT ![x] = Closed] /\ fds[x].pipe = calls /\ calls > 0
    <3>1. Pair /\ calls \in Pid /\ type \in {"r", "w"} /\ fds' = [fds EXCEPT ![pfd[IF type = "r" THEN 2 ELSE 1]] = Closed]
      BY <1>0, <1>3 DEF ParentClose, Locals, PopenTypes, Types
    <3>2. pfd[1] \in Fd /\ pfd[2] \in Fd /\ fds[pfd[1]].pipe = calls /\ fds[pfd[2]].pipe = calls
      BY <3>1 DEF Pair, End
    <3>3. calls > 0
      BY <3>1 DEF Pid
    <3>. QED  BY <3>1, <3>2, <3>3
  <2>2. \A i \in {STDIN, STDOUT} : fds'[i] = fds[i]
    BY <1>a, <1>e, <1>s, <2>1
  <2>. QED  BY <1>3, <1>c, <1>d, <2>2 DEF ParentClose, TableInv
<1>4. CASE Waitpid
  <2>1. pfd[1] \in Pid /\ child' = [child EXCEPT ![pfd[1]].st = "reaped"] /\ UNCHANGED <<fds, failed>>
    BY <1>0, <1>4 DEF Waitpid, Locals
  <2>2. child'[pfd[1]].st = "reaped" /\ \A c \in Pid \ {pfd[1]} : child'[c] = child[c]
    BY <1>e, <2>1 DEF Child
  <2>. QED  BY <1>0, <2>1, <2>2 DEF StdKept, OwnPipeOnly, TableInv
<1>5. ASSUME NEW t \in {"r", "w"}, PopenPipe(t) PROVE TableInv'
  <2>. DEFINE i == Lowest(FreeFds)
              j == Lowest(FreeFds \ {i})
  <2>1. /\ i \in FreeFds /\ j \in FreeFds /\ UNCHANGED <<child, failed>>
        /\ fds' = [fds EXCEPT ![i] = End(calls + 1, "r"), ![j] = End(calls + 1, "w")]
    BY <1>5, TwoFree DEF PopenPipe
  <2>. HIDE DEF i, j
  <2>2. i \in Fd /\ j \in Fd /\ fds[i] = Closed /\ fds[j] = Closed
    BY <2>1 DEF FreeFds
  <2>3. \A k \in {STDIN, STDOUT} : fds'[k] = fds[k]
    BY <1>a, <1>e, <1>s, <2>1, <2>2
  <2>. QED  BY <1>c, <1>d, <2>1, <2>3 DEF TableInv
<1>6. ASSUME NEW i \in Fd, Pclose(i) PROVE TableInv'
  <2>1. fds' = [fds EXCEPT ![i] = Closed] /\ childpid[i] # 0 /\ UNCHANGED <<child, failed>>
    BY <1>6 DEF Pclose
  <2>2. \A k \in {STDIN, STDOUT} : fds'[k] = fds[k]
    BY <1>a, <1>e, <1>s, <2>1
  <2>. QED  BY <1>c, <1>d, <2>1, <2>2 DEF TableInv
<1>7. ASSUME NEW c \in Pid, ChildExec(c) PROVE TableInv'
  <2>. DEFINE e == ExecFds(c)
  <2>1. /\ child[c].st = "forked" /\ UNCHANGED <<fds, failed>>
        /\ child' = [child EXCEPT ![c].fds = e, ![c].st = "run"]
    BY <1>7 DEF ChildExec
  <2>2. \A i \in {STDIN, STDOUT} : child[c].fds[i] = Other /\ child[c].inherited[i] = 0
    BY <1>0, <2>1 DEF StdKept
  <2>3. (\A i \in Fd : e[i].pipe \in {0, c} \cup failed) /\ e[Std(child[c].type)] = ChildEnd(c, child[c].type)
    BY <1>0, <2>1, <2>2, ExecTable
  <2>. HIDE DEF e
  <2>4. /\ child'[c].fds = e /\ child'[c].type = child[c].type /\ child'[c].st = "run"
        /\ \A d \in Pid \ {c} : child'[d] = child[d]
    BY <1>e, <2>1 DEF Child
  <2>5. StdKept'
    <3>1. \A d \in Pid : child'[d].st = "forked" => child'[d] = child[d]
      BY <2>4
    <3>. QED  BY <1>0, <2>1, <3>1 DEF StdKept
  <2>6. OwnPipeOnly'
    BY <1>0, <2>1, <2>3, <2>4 DEF OwnPipeOnly
  <2>. QED  BY <2>5, <2>6 DEF TableInv
<1>8. ASSUME NEW c \in Pid, ChildExit(c) PROVE TableInv'
  <2>1. child' = [child EXCEPT ![c].st = "zombie"] /\ UNCHANGED <<fds, failed>>
    BY <1>8 DEF ChildExit
  <2>2. child'[c].st = "zombie" /\ \A d \in Pid \ {c} : child'[d] = child[d]
    BY <1>e, <2>1 DEF Child
  <2>. QED  BY <1>0, <2>1, <2>2 DEF StdKept, OwnPipeOnly, TableInv
<1>9. CASE UNCHANGED popenVars
  BY <1>9, <1>c, <1>d DEF popenVars, TableInv
<1>. QED  BY <1>1, <1>2, <1>3, <1>4, <1>5, <1>6, <1>7, <1>8, <1>9 DEF PopenNext, Library

-----------------------------------------------------------------------------
(* The inductive invariant holds in every behaviour.                       *)
THEOREM PopenInvariant == PopenSpec => []PopenInv
<1>. QED  BY PopenStart, PopenStep, PTL DEF PopenSpec

(* childpid[] names, for every stream, the child at the other end of its   *)
(* pipe, and nobody has waited for that child: pclose() always waits for   *)
(* the command that its caller started.                                    *)
THEOREM PcloseFindsItsChild == PopenSpec => []RightChild
<1>1. PopenInv => RightChild
  BY DEF PopenInv, Streams, RightChild, Unreaped
<1>. QED  BY <1>1, PopenInvariant, PTL

(* Between calls the children that were not waited for are those that have *)
(* a stream and those whose fclose() failed, which stay unwaited for, and  *)
(* every pipe end belongs to a stream, but for the calls that failed after *)
(* pipe() (lib/popen.c:108-110).                                           *)
THEOREM NothingIsLost == PopenSpec => []NothingLeaks
<1>1. PopenInv => NothingLeaks
  <2>. SUFFICES ASSUME PopenInv, pc = "idle" PROVE NothingLeaks
    BY DEF NothingLeaks
  <2>1. \A i \in Fd : fds[i].pipe \in Nat
    BY DEF PopenInv, PopenTypes, Ends
  <2>2. \A c \in Pid \ failed : child[c].st \in Unreaped => c \in unwaited \/ \E i \in Fd : childpid[i] = c
    BY DEF PopenInv, Known, Opening, Awaited
  <2>3. \A i \in Fd : fds[i].pipe > 0 => childpid[i] # 0 \/ fds[i].pipe \in failed
    BY <2>1 DEF PopenInv, Owned, Opening
  <2>4. \A c \in Pid : c \in unwaited => child[c].st \in Unreaped
    BY DEF PopenInv, Lost
  <2>5. \A c \in Pid, i \in Fd : childpid[i] = c => child[c].st \in Unreaped
    BY DEF PopenInv, Streams, Pid
  <2>. QED  BY <2>2, <2>3, <2>4, <2>5 DEF NothingLeaks, Unreaped
<1>. QED  BY <1>1, PopenInvariant, PTL

(* A command has no end of the pipe of another stream and has its own one  *)
(* as standard input or output.  The process must have both of them open   *)
(* when it starts: without that, pipe() gives out descriptors 0 and 1 and  *)
(* the loop over childpid[] closes what dup2() just made.                  *)
THEOREM CommandHasOwnPipe ==
    ASSUME {STDIN, STDOUT} \subseteq InitFds
    PROVE  PopenSpec => []OwnPipeOnly
<1>1. PopenInit => TableInv
  <2>. SUFFICES ASSUME PopenInit PROVE TableInv  OBVIOUS
  <2>1. STDIN \in Fd /\ STDOUT \in Fd
    BY PopenAssumption DEF Fd, STDIN, STDOUT
  <2>. QED  BY <2>1 DEF PopenInit, TableInv, StdKept, OwnPipeOnly, NoChild
<1>2. PopenInv /\ PopenInv' /\ TableInv /\ [PopenNext]_popenVars => TableInv'
  BY TableStep
<1>3. TableInv => OwnPipeOnly
  BY DEF TableInv
<1>. QED  BY <1>1, <1>2, <1>3, PopenInvariant, PTL DEF PopenSpec
=============================================================================
