---------------------------- MODULE TellWaitProofs ----------------------------
(***************************************************************************)
(* Proofs about tellwait.c: no signal kills, for any programs of the       *)
(* parent and the child that call TELL_WAIT() before fork(), whatever else *)
(* they do; and no wait returns too early, for any that fork once and use  *)
(* record locks only as the two programs of apue/ch14 do.                  *)
(***************************************************************************)
EXTENDS MCTellWait, SequenceTheorems, TLAPS

-----------------------------------------------------------------------------
(* The hypotheses about programs: TELL_WAIT() comes before every fork();   *)
(* the parent forks once and the child does not; a program has no record   *)
(* locks, or is one of the two that have.                                  *)
OpOf(c, p, i) == c[p][i].op
TellWaitFirst(c) ==
    \A i \in DOMAIN c["parent"] : OpOf(c, "parent", i) = "fork" =>
        \E j \in DOMAIN c["parent"] : j < i /\ OpOf(c, "parent", j) = "TELL_WAIT"
ForkOnce(c) ==
    /\ \A i, j \in DOMAIN c["parent"] : OpOf(c, "parent", i) = "fork" /\ OpOf(c, "parent", j) = "fork" => i = j
    /\ \A i \in DOMAIN c["child"] : OpOf(c, "child", i) # "fork"
LockFree(c) ==
    \A p \in Proc : \A i \in DOMAIN c[p] :
        OpOf(c, p, i) # "writew_lock" /\ OpOf(c, p, i) # "write_lock" /\ OpOf(c, p, i) # "read_lock_busy"
LocksKnown(c) == LockFree(c) \/ c = LockCode \/ c = DeadlockCode

-----------------------------------------------------------------------------
(* The inductive invariant.                                                *)
States == {"none", "run", "exit", "killed", "failed"}
SignalTypes ==
    /\ code \in Codes /\ state \in [Proc -> States]
    /\ ip \in [Proc -> Nat \ {0}] /\ step \in [Proc -> 1 .. 4]
    /\ handler \in [Proc -> SUBSET Sigs] /\ pending \in [Proc -> SUBSET Sigs]
    /\ sigflag \in [Proc -> BOOLEAN]
    /\ told \in [Proc -> Nat] /\ returned \in [Proc -> Nat]
LockTypes ==
    /\ owner \in [Byte -> Proc \cup {"none"}]
    /\ blockedOn \in [Proc -> SUBSET Byte] /\ claims \in [Proc -> SUBSET Byte]

(* The operation a process is at.                                          *)
InCode(p) == ip[p] <= Len(code[p])
AtOp(p, o) == InCode(p) /\ code[p][ip[p]].op = o

(* The handlers are installed before there is anybody who can send.        *)
Prepared(p) == Sigs \subseteq handler[p]
Handled ==
    /\ state["parent"] # "none"
    /\ \A j \in DOMAIN code["parent"] :
          j < ip["parent"] /\ OpOf(code, "parent", j) = "TELL_WAIT" => Prepared("parent")
    /\ AtOp("parent", "TELL_WAIT") => /\ step["parent"] = 2 => "SIGUSR1" \in handler["parent"]
                                      /\ step["parent"] = 3 => Prepared("parent")
    /\ state["child"] # "none" => Prepared("parent") /\ Prepared("child")
    /\ \A p \in Proc : pending[p] # {} => state["child"] # "none"
KillInv == SignalTypes /\ Handled /\ TellNeverKills

(* A signal that is pending, a flag that is set and a call of WAIT_..()    *)
(* about to return each stand for a TELL_..() of their own.                *)
Unit(b) == IF b THEN 1 ELSE 0
Returning(p) == AtOp(p, "WAIT") /\ step[p] = 4
Owed(p) == Unit(pending[p] # {}) + Unit(sigflag[p]) + Unit(Returning(p))
Tokens(p) ==
    /\ returned[p] + Owed(p) <= told[p]
    /\ AtOp(p, "WAIT") /\ step[p] = 3 => sigflag[p]
    /\ state["child"] = "none" => Owed(p) = 0 /\ returned[p] = 0
OneSignal == "SIGUSR1" \notin pending["parent"] /\ "SIGUSR2" \notin pending["child"]
Unforked ==
    /\ state["parent"] # "none"
    /\ state["child"] = "none" => ip["child"] = 1 /\ step["child"] = 1
    /\ \A j \in DOMAIN code["parent"] :
          OpOf(code, "parent", j) = "fork" /\ ip["parent"] <= j => state["child"] = "none"
TokenInv == SignalTypes /\ LockTypes /\ OneSignal /\ Unforked /\ \A p \in Proc : Tokens(p)

(* Where the programs that use record locks are when they have them.       *)
NoFailure == \A p \in Proc : state[p] # "failed" /\ blockedOn[p] = {}
InLock ==
    /\ NoFailure
    /\ owner[0] # "child" /\ told["parent"] = 0
    /\ ip["parent"] > 3 /\ state["parent"] = "run" => owner[0] = "parent"
    /\ told["child"] >= 1 => ip["parent"] > 4
    /\ ip["child"] > 1 => returned["child"] >= 1
    /\ ip["parent"] > 5 => state["child"] \notin {"none", "run"}
    /\ state["parent"] \in {"run", "exit"} /\ (state["parent"] = "exit" => ip["parent"] > 5)
InDeadlock ==
    /\ \A p \in Proc : state[p] # "failed"
    /\ ip["parent"] > 3 => claims["parent"] # {}
    /\ ip["child"] > 1 => claims["child"] # {}
    /\ told["child"] >= 1 => ip["parent"] > 4
    /\ told["parent"] >= 1 => ip["child"] > 2
    /\ ip["parent"] > 5 => returned["parent"] >= 1
    /\ ip["child"] > 3 => returned["child"] >= 1
    /\ owner[0] = "parent" => ip["parent"] > 6
    /\ owner[1] = "child" => ip["child"] > 4
    /\ BothHaveOne
CaseInv ==
    /\ LockFree(code) => NoFailure
    /\ code = LockCode => InLock
    /\ code = DeadlockCode => InDeadlock

-----------------------------------------------------------------------------
(* Names for what every step is made of.                                   *)
LEMMA Names ==
    /\ "parent" \in Proc /\ "child" \in Proc /\ "none" \notin Proc
    /\ \A p \in Proc : Peer(p) \in Proc /\ Peer(p) # p
    /\ "SIGUSR1" \in Sigs /\ "SIGUSR2" \in Sigs
    /\ \A s \in Sigs : s = "SIGUSR1" \/ s = "SIGUSR2"
BY DEF Proc, Peer, Sigs

(* The program that runs is a sequence of operations for each process.     *)
LEMMA CodeTypes ==
    ASSUME code \in Codes, NEW p \in Proc
    PROVE  code[p] \in Seq(Ops) /\ DOMAIN code[p] = 1 .. Len(code[p]) /\ Len(code[p]) \in Nat
<1>1. code \in [Proc -> Seq(Ops)]
  BY CodeAssumption
<1>. QED  BY <1>1

(* The operations on record locks name a byte of the file.                 *)
LEMMA ByteOf ==
    ASSUME NEW o \in Ops, o.op = "writew_lock" \/ o.op = "write_lock"
    PROVE  o.byte \in Byte
<1>1. o \in [op : {"fork", "TELL_WAIT", "TELL", "WAIT", "work", "waitpid"}] => o.op \in {"fork", "TELL_WAIT", "TELL", "WAIT", "work", "waitpid"}
  OBVIOUS
<1>2. o \in [op : {"fork", "TELL_WAIT", "TELL", "WAIT", "work", "waitpid"}] \/ o \in LockOps
  BY DEF Ops
<1>3. o \in LockOps
  BY <1>1, <1>2
<1>. QED  BY <1>3 DEF LockOps

(* So does the operation that a process is at.                             *)
LEMMA ByteArg ==
    ASSUME SignalTypes, NEW p \in Proc, AtOp(p, "writew_lock") \/ AtOp(p, "write_lock")
    PROVE  Arg(p) \in Byte
<1>1. code[p] \in Seq(Ops) /\ Len(code[p]) \in Nat /\ ip[p] \in Nat \ {0} /\ ip[p] <= Len(code[p])
  BY CodeTypes DEF SignalTypes, AtOp, InCode
<1>2. ip[p] \in 1 .. Len(code[p])
  BY <1>1
<1>3. code[p][ip[p]] \in Ops
  BY <1>1, <1>2
<1>4. code[p][ip[p]].op = "writew_lock" \/ code[p][ip[p]].op = "write_lock"
  BY DEF AtOp
<1>. DEFINE o == code[p][ip[p]]
<1>. HIDE DEF o
<1>5. o.byte \in Byte
  <2>1. o \in Ops /\ (o.op = "writew_lock" \/ o.op = "write_lock")
    BY <1>3, <1>4 DEF o
  <2>. QED  BY <2>1, ByteOf
<1>. QED  BY <1>5 DEF Arg, o

(* What a step of process p can do to each variable.                       *)
Put(g, f, x, v) == g = [f EXCEPT ![x] = v]
Shape(p) ==
    /\ ip' = ip \/ Put(ip', ip, p, ip[p] + 1)
    /\ step' = step \/ \E n \in 1 .. 4 : Put(step', step, p, n)
    /\ \/ state' = state \/ Put(state', state, "child", "run")
       \/ \E s \in States : Put(state', state, p, s)
    /\ \/ handler' = handler \/ Put(handler', handler, "child", handler[p])
       \/ \E s \in Sigs : Put(handler', handler, p, handler[p] \cup {s})
    /\ \/ pending' = pending
       \/ \E s \in Sigs : \/ Put(pending', pending, p, pending[p] \ {s})
                          \/ Put(pending', pending, Peer(p), pending[Peer(p)] \cup {s})
    /\ \/ sigflag' = sigflag \/ Put(sigflag', sigflag, "child", sigflag[p])
       \/ \E b \in BOOLEAN : Put(sigflag', sigflag, p, b)
    /\ told' = told \/ Put(told', told, Peer(p), told[Peer(p)] + 1)
    /\ returned' = returned \/ Put(returned', returned, p, returned[p] + 1)
LockShape(p) ==
    /\ \/ owner' = owner \/ (Arg(p) \in Byte /\ Put(owner', owner, Arg(p), p))
       \/ owner' = [b \in Byte |-> IF owner[b] = p THEN "none" ELSE owner[b]]
    /\ \/ blockedOn' = blockedOn \/ Put(blockedOn', blockedOn, p, {})
       \/ (Arg(p) \in Byte /\ Put(blockedOn', blockedOn, p, {Arg(p)}))
    /\ claims' = claims \/ (Arg(p) \in Byte /\ Put(claims', claims, p, claims[p] \cup {Arg(p)}))

(* Every step has that shape.                                              *)
LEMMA Shapes ==
    ASSUME SignalTypes, NEW p \in Proc, Run(p) \/ (\E s \in Sigs : Deliver(p, s))
    PROVE  Shape(p) /\ LockShape(p)
<1>0. \A s \in {"none", "run", "exit", "killed", "failed"} : s \in States
  BY DEF States
<1>1. CASE Fork(p)
  BY <1>1 DEF Fork, Done, lockvars, Shape, LockShape, Put
<1>2. ASSUME NEW n \in 1 .. 2, NEW s \in Sigs, TellWaitHandler(p, n, s) PROVE Shape(p) /\ LockShape(p)
  <2>1. n + 1 \in 1 .. 4  OBVIOUS
  <2>. QED  BY <1>2, <2>1 DEF TellWaitHandler, GoStep, lockvars, Shape, LockShape, Put
<1>3. CASE TellWaitBlock(p)
  BY <1>3 DEF TellWaitBlock, Done, lockvars, Shape, LockShape, Put
<1>4. CASE Tell(p)
  <2>1. PICK s \in Sigs : pending' = [pending EXCEPT ![Peer(p)] = IF state[Peer(p)] = "run" THEN @ \cup {s} ELSE @]
    BY <1>4 DEF Tell, Sigs
  <2>2. pending' = pending \/ Put(pending', pending, Peer(p), pending[Peer(p)] \cup {s})
    BY <2>1 DEF Put, SignalTypes
  <2>3. /\ \/ pending' = pending
           \/ \E r \in Sigs : \/ Put(pending', pending, p, pending[p] \ {r})
                              \/ Put(pending', pending, Peer(p), pending[Peer(p)] \cup {r})
        /\ Put(ip', ip, p, ip[p] + 1) /\ Put(step', step, p, 1) /\ Put(told', told, Peer(p), told[Peer(p)] + 1)
        /\ UNCHANGED <<state, handler, sigflag, owner, blockedOn, claims, returned>>
    BY <1>4, <2>2 DEF Tell, Done, lockvars, Put
  <2>4. \E n \in 1 .. 4 : Put(step', step, p, n)
    BY <2>3
  <2>. QED  BY <2>3, <2>4 DEF Shape, LockShape
<1>5. CASE WaitTest(p)
  <2>1. PICK n \in 2 .. 3 : GoStep(p, n) /\ UNCHANGED <<state, sigvars, lockvars, told, returned>>
    BY <1>5 DEF WaitTest
  <2>2. n \in 1 .. 4 /\ Put(step', step, p, n) /\ UNCHANGED <<ip, state, sigvars, lockvars, told, returned>>
    BY <2>1 DEF GoStep, Put
  <2>. QED  BY <2>2 DEF sigvars, lockvars, Shape, LockShape
<1>6. CASE WaitSuspend(p) \/ WaitReset(p)
  <2>1. PICK n \in 1 .. 4 : GoStep(p, n)
    BY <1>6 DEF WaitSuspend, WaitReset
  <2>2. Put(step', step, p, n) /\ UNCHANGED <<ip, state, handler, pending, lockvars, told, returned>>
    BY <1>6, <2>1 DEF WaitSuspend, WaitReset, GoStep, Put
  <2>3. sigflag' = sigflag \/ Put(sigflag', sigflag, p, FALSE)
    BY <1>6 DEF WaitSuspend, WaitReset, Put
  <2>. QED  BY <2>2, <2>3 DEF lockvars, Shape, LockShape
<1>7. CASE WaitUnmask(p)
  BY <1>7 DEF WaitUnmask, Done, lockvars, Shape, LockShape, Put
<1>8. CASE LockAByte(p)
  <2>1. Arg(p) \in Byte
    BY <1>8, ByteArg DEF LockAByte, At, AtOp, InCode
  <2>. QED  BY <1>8, <2>1 DEF LockAByte, Done, sigvars, Shape, LockShape, Put
<1>9. CASE LockBlocks(p)
  <2>1. Arg(p) \in Byte
    BY <1>9, ByteArg DEF LockBlocks, At, AtOp, InCode
  <2>. QED  BY <1>9, <2>1 DEF LockBlocks, sigvars, Shape, LockShape, Put
<1>10. CASE WriteLock(p)
  <2>1. Arg(p) \in Byte
    BY <1>10, ByteArg DEF WriteLock, At, AtOp, InCode
  <2>. QED  BY <1>0, <1>10, <2>1 DEF WriteLock, Done, sigvars, Shape, LockShape, Put
<1>11. CASE ReadLockBusy(p)
  BY <1>0, <1>11 DEF ReadLockBusy, Done, sigvars, lockvars, Shape, LockShape, Put
<1>12. CASE Work(p) \/ Waitpid(p)
  BY <1>12 DEF Work, Waitpid, Done, sigvars, lockvars, Shape, LockShape, Put
<1>13. CASE Exit(p)
  BY <1>0, <1>13 DEF Exit, sigvars, Shape, LockShape, Put
<1>14. ASSUME NEW s \in Sigs, Deliver(p, s) PROVE Shape(p) /\ LockShape(p)
  BY <1>0, <1>14 DEF Deliver, lockvars, Shape, LockShape, Put
<1>. QED
  <2>1. 1 \in 1 .. 2 /\ 2 \in 1 .. 2  OBVIOUS
  <2>2. "SIGUSR1" \in Sigs /\ "SIGUSR2" \in Sigs  BY Names
  <2>. QED  BY <1>1, <1>2, <1>3, <1>4, <1>5, <1>6, <1>7, <1>8, <1>9, <1>10, <1>11, <1>12, <1>13, <1>14,
               <2>1, <2>2 DEF Run, Wait

(* Every step keeps the types.                                             *)
LEMMA TypesKept ==
    ASSUME SignalTypes, NEW p \in Proc, Shape(p), LockShape(p), UNCHANGED code
    PROVE  SignalTypes' /\ (LockTypes => LockTypes')
<1>. USE Names
<1>1. "run" \in States
  BY DEF States
<1>2. ip' \in [Proc -> Nat \ {0}] /\ step' \in [Proc -> 1 .. 4]
  BY DEF SignalTypes, Shape, Put
<1>3. state' \in [Proc -> States]
  BY <1>1 DEF SignalTypes, Shape, Put
<1>4. handler' \in [Proc -> SUBSET Sigs] /\ pending' \in [Proc -> SUBSET Sigs]
  BY DEF SignalTypes, Shape, Put
<1>5. sigflag' \in [Proc -> BOOLEAN] /\ told' \in [Proc -> Nat] /\ returned' \in [Proc -> Nat]
  BY DEF SignalTypes, Shape, Put
<1>6. ASSUME LockTypes PROVE LockTypes'
  <2>1. owner' \in [Byte -> Proc \cup {"none"}]
    BY <1>6 DEF LockTypes, LockShape, Put
  <2>2. blockedOn' \in [Proc -> SUBSET Byte] /\ claims' \in [Proc -> SUBSET Byte]
    BY <1>6 DEF LockTypes, LockShape, Put
  <2>. QED  BY <2>1, <2>2 DEF LockTypes
<1>. QED  BY <1>2, <1>3, <1>4, <1>5, <1>6 DEF SignalTypes

-----------------------------------------------------------------------------
(* TELL_..() never kills.  Two processes are all there is.                 *)
LEMMA TwoProcs == \A p, q \in Proc : p = q \/ p = Peer(q)
BY DEF Proc, Peer

(* A step that installs no handler, sends no signal and forks no child.    *)
Quiet(p) ==
    /\ UNCHANGED <<handler, pending>>
    /\ \A q \in Proc : (state'[q] = "none" <=> state[q] = "none") /\ (state'[q] = "killed" => state[q] = "killed")
    /\ \A q \in Proc \ {p} : ip'[q] = ip[q] /\ step'[q] = step[q]
    /\ \/ ip'[p] = ip[p] /\ step'[p] = step[p]
       \/ ~AtOp(p, "TELL_WAIT") /\ ip'[p] = ip[p]
       \/ ~AtOp(p, "TELL_WAIT") /\ ip'[p] = ip[p] + 1 /\ step'[p] = 1

(* Such a step leaves the handlers in order.                               *)
LEMMA QuietKeeps ==
    ASSUME SignalTypes, SignalTypes', Handled, TellNeverKills, NEW p \in Proc, Quiet(p), UNCHANGED code
    PROVE  Handled' /\ TellNeverKills'
<1>. USE Names
<1>1. TellNeverKills'
  BY DEF Quiet, TellNeverKills
<1>2. state'["parent"] # "none" /\ (state'["child"] # "none" => Prepared("parent")' /\ Prepared("child")')
  BY DEF Quiet, Handled, Prepared
<1>3. \A q \in Proc : pending'[q] # {} => state'["child"] # "none"
  BY DEF Quiet, Handled
<1>4. ASSUME NEW j \in DOMAIN code["parent"], j < ip'["parent"], OpOf(code, "parent", j) = "TELL_WAIT"
      PROVE  Prepared("parent")'
  <2>1. CASE j < ip["parent"]
    BY <1>4, <2>1 DEF Handled, Quiet, Prepared
  <2>2. CASE ~(j < ip["parent"])
    <3>1. DOMAIN code["parent"] = 1 .. Len(code["parent"]) /\ Len(code["parent"]) \in Nat
      BY CodeTypes DEF SignalTypes
    <3>2. ip["parent"] \in Nat
      BY DEF SignalTypes
    <3>3. p = "parent" /\ ip'[p] = ip[p] + 1 /\ ~AtOp(p, "TELL_WAIT")
      BY <1>4, <2>2, <3>1, <3>2 DEF Quiet
    <3>4. j = ip["parent"] /\ ip["parent"] <= Len(code["parent"])
      BY <1>4, <2>2, <3>1, <3>2, <3>3
    <3>. QED  BY <1>4, <3>3, <3>4 DEF AtOp, InCode, OpOf
  <2>. QED  BY <2>1, <2>2
<1>5. ASSUME AtOp("parent", "TELL_WAIT")'
      PROVE  /\ step'["parent"] = 2 => "SIGUSR1" \in handler'["parent"]
             /\ step'["parent"] = 3 => Prepared("parent")'
  <2>1. CASE ip'["parent"] = ip["parent"] /\ step'["parent"] = step["parent"]
    BY <1>5, <2>1 DEF Handled, Quiet, Prepared, AtOp, InCode
  <2>2. CASE ip'["parent"] = ip["parent"] /\ ~AtOp("parent", "TELL_WAIT")
    BY <1>5, <2>2 DEF AtOp, InCode
  <2>3. CASE step'["parent"] = 1
    BY <2>3
  <2>. QED  BY <2>1, <2>2, <2>3 DEF Quiet
<1>. QED  BY <1>1, <1>2, <1>3, <1>4, <1>5 DEF Handled

(* Most steps are of that kind.                                            *)
LEMMA QuietSteps ==
    ASSUME SignalTypes, NEW p \in Proc,
           \/ Wait(p) \/ LockAByte(p) \/ LockBlocks(p) \/ WriteLock(p) \/ ReadLockBusy(p)
           \/ Work(p) \/ Waitpid(p) \/ Exit(p)
    PROVE  Quiet(p)
<1>1. UNCHANGED <<handler, pending>>
  BY DEF Wait, WaitTest, WaitSuspend, WaitReset, WaitUnmask, LockAByte, LockBlocks, WriteLock, ReadLockBusy,
         Work, Waitpid, Exit, sigvars
<1>2. state' = state \/ (state[p] = "run" /\ (Put(state', state, p, "exit") \/ Put(state', state, p, "failed")))
  BY DEF Wait, WaitTest, WaitSuspend, WaitReset, WaitUnmask, LockAByte, LockBlocks, WriteLock, ReadLockBusy,
         Work, Waitpid, Exit, At, Put
<1>3. UNCHANGED <<ip, step>> \/ (~AtOp(p, "TELL_WAIT") /\ (Done(p) \/ \E n \in 1 .. 4 : GoStep(p, n)))
  <2>1. CASE Wait(p)
    BY <2>1 DEF Wait, WaitTest, WaitSuspend, WaitReset, WaitUnmask, At, AtOp
  <2>2. CASE LockAByte(p) \/ LockBlocks(p) \/ WriteLock(p) \/ ReadLockBusy(p) \/ Work(p) \/ Waitpid(p)
    BY <2>2 DEF LockAByte, LockBlocks, WriteLock, ReadLockBusy, Work, Waitpid, At, AtOp
  <2>3. CASE Exit(p)
    BY <2>3 DEF Exit
  <2>. QED  BY <2>1, <2>2, <2>3
<1>4. \A q \in Proc : (state'[q] = "none" <=> state[q] = "none") /\ (state'[q] = "killed" => state[q] = "killed")
  BY <1>2 DEF Put, SignalTypes
<1>5. CASE UNCHANGED <<ip, step>>
  BY <1>1, <1>4, <1>5 DEF Quiet
<1>6. CASE ~AtOp(p, "TELL_WAIT") /\ Done(p)
  BY <1>1, <1>4, <1>6 DEF Quiet, Done, SignalTypes
<1>7. ASSUME NEW n \in 1 .. 4, ~AtOp(p, "TELL_WAIT"), GoStep(p, n) PROVE Quiet(p)
  BY <1>1, <1>4, <1>7 DEF Quiet, GoStep, SignalTypes
<1>. QED  BY <1>3, <1>5, <1>6, <1>7

(* The other steps: fork() gives the child the handlers of the parent.     *)
LEMMA ForkHandled ==
    ASSUME SignalTypes, Handled, TellNeverKills, NEW p \in Proc, Fork(p), UNCHANGED code,
           \A c \in Codes : TellWaitFirst(c)
    PROVE  Handled' /\ TellNeverKills'
<1>. USE Names
<1>a. /\ state[p] = "run" /\ AtOp(p, "fork") /\ Put(state', state, "child", "run")
      /\ Put(handler', handler, "child", handler[p]) /\ Put(ip', ip, p, ip[p] + 1) /\ Put(step', step, p, 1)
      /\ UNCHANGED pending
  BY DEF Fork, At, AtOp, InCode, Done, Put
<1>b. /\ state'["child"] = "run" /\ state'["parent"] = state["parent"]
      /\ handler'["child"] = handler[p] /\ handler'["parent"] = handler["parent"]
      /\ ip'[p] = ip[p] + 1 /\ step'[p] = 1 /\ ip[p] \in Nat
      /\ \A q \in Proc \ {p} : ip'[q] = ip[q] /\ step'[q] = step[q]
  <2>1. "parent" # "child"  OBVIOUS
  <2>. QED  BY <1>a, <2>1 DEF SignalTypes, Put
<1>1. Prepared("parent") /\ Prepared(p)
  <2>1. CASE p = "child"
    BY <1>a, <2>1 DEF Handled
  <2>2. CASE p = "parent"
    <3>1. DOMAIN code["parent"] = 1 .. Len(code["parent"]) /\ Len(code["parent"]) \in Nat
      BY CodeTypes DEF SignalTypes
    <3>2. ip["parent"] \in DOMAIN code["parent"] /\ OpOf(code, "parent", ip["parent"]) = "fork"
      BY <1>a, <2>2, <3>1 DEF AtOp, InCode, OpOf, SignalTypes
    <3>3. PICK j \in DOMAIN code["parent"] : j < ip["parent"] /\ OpOf(code, "parent", j) = "TELL_WAIT"
      BY <3>2 DEF SignalTypes, TellWaitFirst
    <3>. QED  BY <2>2, <3>3 DEF Handled
  <2>. QED  BY <2>1, <2>2 DEF Proc
<1>2. Prepared("parent")' /\ Prepared("child")'
  BY <1>b, <1>1 DEF Prepared
<1>3. ~(AtOp("parent", "TELL_WAIT")' /\ step'["parent"] \in {2, 3}) \/ (AtOp("parent", "TELL_WAIT") /\ step'["parent"] = step["parent"])
  BY <1>b DEF AtOp, InCode
<1>4. TellNeverKills'
  BY <1>b DEF TellNeverKills, Proc
<1>. QED  BY <1>a, <1>b, <1>2, <1>3, <1>4 DEF Handled, Prepared

(* TELL_WAIT() of a process p.                                             *)
LEMMA TellWaitHandled ==
    ASSUME SignalTypes, SignalTypes', Handled, TellNeverKills, NEW p \in Proc, UNCHANGED code,
           TellWaitHandler(p, 1, "SIGUSR1") \/ TellWaitHandler(p, 2, "SIGUSR2") \/ TellWaitBlock(p)
    PROVE  Handled' /\ TellNeverKills'
<1>. USE Names
<1>1. UNCHANGED <<state, pending>> /\ AtOp(p, "TELL_WAIT")
  BY DEF TellWaitHandler, TellWaitBlock, At, AtOp, InCode
<1>2. \A q \in Proc : handler[q] \subseteq handler'[q]
  BY DEF TellWaitHandler, TellWaitBlock, SignalTypes
<1>3. \/ step[p] = 1 /\ ip' = ip /\ step'[p] = 2 /\ "SIGUSR1" \in handler'[p]
      \/ step[p] = 2 /\ ip' = ip /\ step'[p] = 3 /\ handler'[p] = handler[p] \cup {"SIGUSR2"}
      \/ step[p] = 3 /\ ip'[p] = ip[p] + 1 /\ step'[p] = 1
  <2>1. CASE TellWaitHandler(p, 1, "SIGUSR1")
    BY <2>1 DEF TellWaitHandler, At, GoStep, SignalTypes
  <2>2. CASE TellWaitHandler(p, 2, "SIGUSR2")
    BY <2>2 DEF TellWaitHandler, At, GoStep, SignalTypes
  <2>3. CASE TellWaitBlock(p)
    BY <2>3 DEF TellWaitBlock, At, Done, SignalTypes
  <2>. QED  BY <2>1, <2>2, <2>3
<1>4. \A q \in Proc \ {p} : ip'[q] = ip[q] /\ step'[q] = step[q]
  BY DEF TellWaitHandler, TellWaitBlock, Done, GoStep, SignalTypes
<1>5. TellNeverKills'
  BY <1>1 DEF TellNeverKills
<1>6. \A q \in Proc : Prepared(q) => Prepared(q)'
  BY <1>2 DEF Prepared
<1>7. ASSUME NEW j \in DOMAIN code["parent"], j < ip'["parent"], OpOf(code, "parent", j) = "TELL_WAIT"
      PROVE  Prepared("parent")'
  <2>1. CASE j < ip["parent"]
    BY <1>6, <1>7, <2>1 DEF Handled
  <2>2. CASE ~(j < ip["parent"])
    <3>1. p = "parent" /\ step[p] = 3
      BY <1>3, <1>4, <1>7, <2>2
    <3>. QED  BY <1>1, <1>6, <3>1 DEF Handled
  <2>. QED  BY <2>1, <2>2
<1>8. ASSUME AtOp("parent", "TELL_WAIT")'
      PROVE  /\ step'["parent"] = 2 => "SIGUSR1" \in handler'["parent"]
             /\ step'["parent"] = 3 => Prepared("parent")'
  <2>1. CASE p # "parent"
    BY <1>2, <1>4, <1>8, <2>1, <1>6 DEF Handled, AtOp, InCode
  <2>2. CASE p = "parent"
    BY <1>1, <1>3, <2>2 DEF Handled, Prepared
  <2>. QED  BY <2>1, <2>2
<1>. QED  BY <1>1, <1>5, <1>6, <1>7, <1>8 DEF Handled

(* A signal is sent to a process that runs, by another one that runs.      *)
LEMMA TellHandled ==
    ASSUME SignalTypes, SignalTypes', Handled, TellNeverKills, NEW p \in Proc, Tell(p), UNCHANGED code
    PROVE  Handled' /\ TellNeverKills'
<1>. USE Names
<1>a. /\ state[p] = "run" /\ ~AtOp(p, "TELL_WAIT") /\ Put(ip', ip, p, ip[p] + 1) /\ Put(step', step, p, 1)
      /\ UNCHANGED <<state, handler>>
  BY DEF Tell, At, AtOp, Done, Put
<1>b. /\ ip'[p] = ip[p] + 1 /\ step'[p] = 1 /\ ip[p] \in Nat
      /\ \A q \in Proc \ {p} : ip'[q] = ip[q] /\ step'[q] = step[q]
  BY <1>a DEF SignalTypes, Put
<1>1. \A q \in Proc : pending'[q] # {} => state'["child"] # "none"
  <2>1. \A q \in Proc \ {Peer(p)} : pending'[q] = pending[q]
    BY DEF Tell, SignalTypes
  <2>2. pending'[Peer(p)] = pending[Peer(p)] \/ state[Peer(p)] = "run"
    BY DEF Tell, SignalTypes
  <2>3. state[Peer(p)] = "run" => state["child"] = "run"
    BY <1>a DEF Peer, Proc
  <2>. QED  BY <1>a, <2>1, <2>2, <2>3 DEF Handled
<1>2. ASSUME NEW j \in DOMAIN code["parent"], j < ip'["parent"], OpOf(code, "parent", j) = "TELL_WAIT"
      PROVE  j < ip["parent"]
  <2>1. DOMAIN code["parent"] = 1 .. Len(code["parent"]) /\ Len(code["parent"]) \in Nat
    BY CodeTypes DEF SignalTypes
  <2>2. CASE p # "parent"
    BY <1>b, <1>2, <2>2
  <2>3. CASE p = "parent"
    <3>1. j # ip[p]
      BY <1>a, <1>2, <2>1, <2>3 DEF AtOp, InCode, OpOf
    <3>. QED  BY <1>b, <1>2, <2>1, <2>3, <3>1
  <2>. QED  BY <2>2, <2>3
<1>3. AtOp("parent", "TELL_WAIT")' => step'["parent"] = 1 \/ (AtOp("parent", "TELL_WAIT") /\ step'["parent"] = step["parent"])
  BY <1>b DEF AtOp, InCode
<1>. QED  BY <1>a, <1>1, <1>2, <1>3 DEF Handled, Prepared, TellNeverKills

(* A signal that is delivered finds its handler.                           *)
LEMMA DeliverHandled ==
    ASSUME SignalTypes, Handled, TellNeverKills, NEW p \in Proc, NEW s \in Sigs, Deliver(p, s), UNCHANGED code
    PROVE  Handled' /\ TellNeverKills' /\ UNCHANGED <<state, owner, blockedOn>>
<1>. USE Names
<1>1. s \in handler[p]
  <2>1. pending[p] # {}
    BY DEF Deliver
  <2>. QED  BY <2>1 DEF Handled, Prepared, Proc
<1>2. /\ UNCHANGED <<state, owner, blockedOn, handler, ip, step>>
      /\ pending' = [pending EXCEPT ![p] = @ \ {s}]
  BY <1>1 DEF Deliver, lockvars
<1>3. \A q \in Proc : pending'[q] \subseteq pending[q]
  BY <1>2 DEF SignalTypes
<1>. QED  BY <1>2, <1>3 DEF Handled, Prepared, TellNeverKills, AtOp, InCode

(* Every step keeps the invariant.                                         *)
LEMMA KillStep ==
    ASSUME KillInv, [Next]_vars, \A c \in Codes : TellWaitFirst(c)
    PROVE  KillInv'
<1>0. SignalTypes /\ Handled /\ TellNeverKills
  BY DEF KillInv
<1>1. ASSUME NEW p \in Proc, Run(p) \/ (\E s \in Sigs : Deliver(p, s)), UNCHANGED code PROVE KillInv'
  <2>1. SignalTypes'
    BY <1>0, <1>1, Shapes, TypesKept
  <2>2. CASE Fork(p)
    BY <1>0, <1>1, <2>1, <2>2, ForkHandled DEF KillInv
  <2>3. CASE TellWaitHandler(p, 1, "SIGUSR1") \/ TellWaitHandler(p, 2, "SIGUSR2") \/ TellWaitBlock(p)
    BY <1>0, <1>1, <2>1, <2>3, TellWaitHandled DEF KillInv
  <2>4. CASE Tell(p)
    BY <1>0, <1>1, <2>1, <2>4, TellHandled DEF KillInv
  <2>5. ASSUME NEW s \in Sigs, Deliver(p, s) PROVE KillInv'
    BY <1>0, <1>1, <2>1, <2>5, DeliverHandled DEF KillInv
  <2>6. CASE \/ Wait(p) \/ LockAByte(p) \/ LockBlocks(p) \/ WriteLock(p) \/ ReadLockBusy(p)
             \/ Work(p) \/ Waitpid(p) \/ Exit(p)
    BY <1>0, <1>1, <2>1, <2>6, QuietSteps, QuietKeeps DEF KillInv
  <2>. QED  BY <1>1, <2>2, <2>3, <2>4, <2>5, <2>6 DEF Run
<1>2. CASE UNCHANGED vars
  BY <1>0, <1>2 DEF vars, KillInv, SignalTypes, Handled, TellNeverKills, Prepared, AtOp, InCode
<1>. QED  BY <1>1, <1>2 DEF Next

(* The start of a program.                                                 *)
LEMMA KillStart == Init => KillInv
<1>. SUFFICES ASSUME Init PROVE KillInv  OBVIOUS
<1>1. SignalTypes
  BY DEF Init, SignalTypes, States
<1>2. \A j \in DOMAIN code["parent"] : ~(j < ip["parent"])
  BY <1>1, CodeTypes, Names DEF Init, SignalTypes
<1>3. Handled /\ TellNeverKills
  BY <1>2, Names DEF Init, Handled, TellNeverKills
<1>. QED  BY <1>1, <1>3 DEF KillInv

(* The signal of TELL_PARENT() or TELL_CHILD() never kills the process it  *)
(* is sent to, in any program that calls TELL_WAIT() before fork().        *)
THEOREM TellIsSafe ==
    ASSUME \A c \in Codes : TellWaitFirst(c)
    PROVE  Spec => []TellNeverKills
<1>1. KillInv /\ [Next]_vars => KillInv'
  BY KillStep
<1>2. KillInv => TellNeverKills
  BY DEF KillInv
<1>. QED  BY <1>1, <1>2, KillStart, PTL DEF Spec

-----------------------------------------------------------------------------
(* WAIT_..() returns at most once for each TELL_..().                      *)

(* A process that gets no new token.                                       *)
LEMMA TokensSame ==
    ASSUME NEW q \in Proc, SignalTypes, SignalTypes', Tokens(q), returned'[q] = returned[q], told'[q] >= told[q],
           pending'[q] # {} => pending[q] # {}, sigflag'[q] => sigflag[q], Returning(q)' => Returning(q),
           AtOp(q, "WAIT")' /\ step'[q] = 3 => sigflag'[q], state'["child"] = "none" => state["child"] = "none"
    PROVE  Tokens(q)'
<1>. DEFINE a == Unit(pending[q] # {})    b == Unit(sigflag[q])    c == Unit(Returning(q))
            x == Unit(pending'[q] # {})   y == Unit(sigflag'[q])   z == Unit(Returning(q)')
<1>1. a \in {0, 1} /\ b \in {0, 1} /\ c \in {0, 1} /\ x \in {0, 1} /\ y \in {0, 1} /\ z \in {0, 1}
  BY DEF Unit
<1>2. x <= a /\ y <= b /\ z <= c
  BY <1>1 DEF Unit
<1>3. Owed(q) = a + b + c /\ Owed(q)' = x + y + z
  BY DEF Owed, Unit
<1>4. told[q] \in Nat /\ told'[q] \in Nat /\ returned[q] \in Nat
  BY DEF SignalTypes
<1>. HIDE DEF a, b, c, x, y, z
<1>5. Owed(q)' <= Owed(q) /\ Owed(q) \in Nat /\ Owed(q)' \in Nat
  BY <1>1, <1>2, <1>3
<1>. QED  BY <1>4, <1>5 DEF Tokens

(* Nothing is forked, and nothing starts before it is.                     *)
LEMMA UnforkedKept ==
    ASSUME SignalTypes, Unforked, NEW p \in Proc, state[p] = "run", UNCHANGED code,
           ip' = ip \/ Put(ip', ip, p, ip[p] + 1), step' = step \/ \E n \in 1 .. 4 : Put(step', step, p, n),
           \A q \in Proc : state'[q] = "none" <=> state[q] = "none"
    PROVE  Unforked'
<1>. USE Names
<1>1. \A q \in Proc : ip[q] <= ip'[q] /\ ip[q] \in Nat /\ ip'[q] \in Nat
  BY DEF SignalTypes, Put
<1>2. \A q \in Proc \ {p} : ip'[q] = ip[q] /\ step'[q] = step[q]
  BY DEF SignalTypes, Put
<1>3. state["child"] = "none" => p # "child"
  OBVIOUS
<1>4. \A j \in DOMAIN code["parent"] : j \in Nat
  BY CodeTypes DEF SignalTypes
<1>. QED  BY <1>1, <1>2, <1>3, <1>4 DEF Unforked

(* Steps that neither fork nor tell nor wait.                              *)
Aside(p) ==
    \/ TellWaitHandler(p, 1, "SIGUSR1") \/ TellWaitHandler(p, 2, "SIGUSR2") \/ TellWaitBlock(p)
    \/ LockAByte(p) \/ LockBlocks(p) \/ WriteLock(p) \/ ReadLockBusy(p) \/ Work(p) \/ Waitpid(p) \/ Exit(p)

(* They move no token.                                                     *)
LEMMA AsideKeeps ==
    ASSUME TokenInv, SignalTypes', LockTypes', NEW p \in Proc, Aside(p), UNCHANGED code
    PROVE  TokenInv'
<1>. USE Names
<1>0. SignalTypes /\ OneSignal /\ Unforked /\ \A q \in Proc : Tokens(q)
  BY DEF TokenInv
<1>1. state[p] = "run" /\ UNCHANGED <<pending, sigflag, told, returned>>
  BY DEF Aside, TellWaitHandler, TellWaitBlock, LockAByte, LockBlocks, WriteLock, ReadLockBusy, Work, Waitpid, Exit,
         At, sigvars
<1>2. UNCHANGED <<ip, step>> \/ (~AtOp(p, "WAIT") /\ (Done(p) \/ \E n \in 1 .. 4 : GoStep(p, n)))
  <2>1. ASSUME NEW n \in 1 .. 2, NEW s, TellWaitHandler(p, n, s)
        PROVE  ~AtOp(p, "WAIT") /\ \E m \in 1 .. 4 : GoStep(p, m)
    <3>1. n + 1 \in 1 .. 4  OBVIOUS
    <3>. QED  BY <2>1, <3>1 DEF TellWaitHandler, At, AtOp
  <2>2. CASE TellWaitHandler(p, 1, "SIGUSR1") \/ TellWaitHandler(p, 2, "SIGUSR2")
    <3>1. 1 \in 1 .. 2 /\ 2 \in 1 .. 2  OBVIOUS
    <3>. QED  BY <2>1, <2>2, <3>1
  <2>3. CASE \/ TellWaitBlock(p) \/ LockAByte(p) \/ LockBlocks(p) \/ WriteLock(p) \/ ReadLockBusy(p)
             \/ Work(p) \/ Waitpid(p)
    BY <2>3 DEF TellWaitBlock, LockAByte, LockBlocks, WriteLock, ReadLockBusy, Work, Waitpid, At, AtOp
  <2>4. CASE Exit(p)
    BY <2>4 DEF Exit
  <2>. QED  BY <2>2, <2>3, <2>4 DEF Aside
<1>3. \A q \in Proc : state'[q] = "none" <=> state[q] = "none"
  <2>1. CASE TellWaitHandler(p, 1, "SIGUSR1") \/ TellWaitHandler(p, 2, "SIGUSR2") \/ TellWaitBlock(p)
    BY <2>1 DEF TellWaitHandler, TellWaitBlock
  <2>. QED  BY <1>0, <2>1, QuietSteps DEF Aside, Quiet
<1>4. ip' = ip \/ Put(ip', ip, p, ip[p] + 1)
  BY <1>2 DEF Done, GoStep, Put
<1>5. step' = step \/ \E n \in 1 .. 4 : Put(step', step, p, n)
  BY <1>2 DEF Done, GoStep, Put
<1>6. Unforked'
  BY <1>0, <1>1, <1>3, <1>4, <1>5, UnforkedKept
<1>7. ASSUME NEW q \in Proc PROVE Tokens(q)'
  <2>1. \/ ip'[q] = ip[q] /\ step'[q] = step[q]
        \/ ~AtOp(q, "WAIT") /\ ip'[q] = ip[q]
        \/ step'[q] = 1
    <3>1. CASE UNCHANGED <<ip, step>>
      BY <3>1
    <3>2. CASE ~AtOp(p, "WAIT") /\ Done(p)
      BY <1>0, <3>2 DEF Done, SignalTypes
    <3>3. ASSUME NEW n \in 1 .. 4, ~AtOp(p, "WAIT"), GoStep(p, n)
          PROVE  (ip'[q] = ip[q] /\ step'[q] = step[q]) \/ (~AtOp(q, "WAIT") /\ ip'[q] = ip[q])
      BY <1>0, <3>3 DEF GoStep, SignalTypes
    <3>. QED  BY <1>2, <3>1, <3>2, <3>3
  <2>2. /\ Returning(q)' => Returning(q)
        /\ AtOp(q, "WAIT")' /\ step'[q] = 3 => AtOp(q, "WAIT") /\ step[q] = 3
    BY <2>1 DEF Returning, AtOp, InCode
  <2>3. told[q] \in Nat
    BY <1>0 DEF SignalTypes
  <2>4. sigflag'[q] = sigflag[q] /\ returned'[q] = returned[q] /\ told'[q] >= told[q] /\ pending'[q] = pending[q]
    BY <1>1, <2>3
  <2>5. AtOp(q, "WAIT")' /\ step'[q] = 3 => sigflag'[q]
    BY <1>0, <2>2, <2>4 DEF Tokens
  <2>. QED  BY <1>0, <1>3, <2>2, <2>4, <2>5, TokensSame
<1>. QED  BY <1>0, <1>1, <1>6, <1>7 DEF TokenInv, OneSignal

(* fork(): the child starts without a token.                               *)
LEMMA ForkTokens ==
    ASSUME TokenInv, SignalTypes', LockTypes', NEW p \in Proc, Fork(p), UNCHANGED code, ForkOnce(code)
    PROVE  TokenInv' /\ p = "parent" /\ state["child"] = "none"
<1>. USE Names
<1>0. SignalTypes /\ OneSignal /\ Unforked /\ \A q \in Proc : Tokens(q)
  BY DEF TokenInv
<1>a. /\ state[p] = "run" /\ AtOp(p, "fork") /\ Put(state', state, "child", "run")
      /\ Put(sigflag', sigflag, "child", sigflag[p]) /\ Put(ip', ip, p, ip[p] + 1) /\ Put(step', step, p, 1)
      /\ UNCHANGED <<pending, told, returned>>
  BY DEF Fork, At, AtOp, InCode, Done, Put
<1>b. /\ DOMAIN code[p] = 1 .. Len(code[p]) /\ Len(code[p]) \in Nat /\ ip[p] \in Nat \ {0} /\ ip[p] <= Len(code[p])
      /\ ip[p] \in DOMAIN code[p] /\ OpOf(code, p, ip[p]) = "fork"
  <2>1. DOMAIN code[p] = 1 .. Len(code[p]) /\ Len(code[p]) \in Nat
    BY <1>0, CodeTypes DEF SignalTypes
  <2>2. ip[p] \in Nat \ {0} /\ ip[p] <= Len(code[p])
    BY <1>0, <1>a DEF SignalTypes, AtOp, InCode
  <2>. QED  BY <1>a, <2>1, <2>2 DEF AtOp, OpOf
<1>1. p = "parent"
  BY <1>b DEF ForkOnce, Proc
<1>2. state["child"] = "none" /\ ip["child"] = 1 /\ step["child"] = 1
  BY <1>0, <1>1, <1>b DEF Unforked
<1>3. \A q \in Proc : sigflag[q] = FALSE
  <2>1. ASSUME NEW q \in Proc, sigflag[q] = TRUE PROVE FALSE
    <3>1. Owed(q) = 0
      BY <1>0, <1>2 DEF Tokens
    <3>2. Owed(q) > 0
      BY <2>1 DEF Owed, Unit
    <3>. QED  BY <3>1, <3>2
  <2>. QED  BY <1>0, <2>1 DEF SignalTypes
<1>4. /\ ip'[p] = ip[p] + 1 /\ step'[p] = 1 /\ ip'["child"] = 1 /\ step'["child"] = 1
      /\ state'["child"] = "run" /\ state'["parent"] = "run" /\ sigflag'["child"] = FALSE /\ sigflag'["parent"] = FALSE
  BY <1>0, <1>1, <1>2, <1>3, <1>a DEF SignalTypes, Put
<1>5. Unforked'
  <2>1. ASSUME NEW j \in DOMAIN code["parent"], OpOf(code, "parent", j) = "fork", ip'["parent"] <= j PROVE FALSE
    <3>1. j = ip["parent"]
      BY <1>1, <1>b, <2>1 DEF ForkOnce
    <3>. QED  BY <1>1, <1>4, <1>b, <2>1, <3>1
  <2>. QED  BY <1>4, <2>1 DEF Unforked
<1>6. ASSUME NEW q \in Proc PROVE Tokens(q)'
  <2>1. sigflag'[q] = sigflag[q] /\ step'[q] = 1
    BY <1>1, <1>3, <1>4 DEF Proc
  <2>2. told[q] \in Nat
    BY <1>0 DEF SignalTypes
  <2>3. /\ returned'[q] = returned[q] /\ told'[q] >= told[q] /\ pending'[q] = pending[q] /\ state'["child"] # "none"
        /\ ~Returning(q)' /\ step'[q] # 3
    BY <1>4, <1>a, <2>1, <2>2 DEF Returning
  <2>. QED  BY <1>0, <2>1, <2>3, TokensSame
<1>. QED  BY <1>0, <1>1, <1>2, <1>5, <1>6, <1>a DEF TokenInv, OneSignal

(* TELL_..(): one more token for the peer.                                 *)
LEMMA TellTokens ==
    ASSUME TokenInv, SignalTypes', LockTypes', NEW p \in Proc, Tell(p), UNCHANGED code
    PROVE  TokenInv'
<1>. USE Names
<1>0. SignalTypes /\ OneSignal /\ Unforked /\ \A q \in Proc : Tokens(q)
  BY DEF TokenInv
<1>. DEFINE s == IF p = "child" THEN "SIGUSR2" ELSE "SIGUSR1"
<1>a. /\ state[p] = "run" /\ Put(ip', ip, p, ip[p] + 1) /\ Put(step', step, p, 1)
      /\ Put(told', told, Peer(p), told[Peer(p)] + 1) /\ UNCHANGED <<state, sigflag, returned>>
      /\ pending' = [pending EXCEPT ![Peer(p)] = IF state[Peer(p)] = "run" THEN @ \cup {s} ELSE @]
  BY DEF Tell, At, Done, Put
<1>b. /\ ip'[p] = ip[p] + 1 /\ step'[p] = 1
      /\ \A q \in Proc \ {p} : ip'[q] = ip[q] /\ step'[q] = step[q]
  BY <1>0, <1>a DEF SignalTypes, Put
<1>c. told'[Peer(p)] = told[Peer(p)] + 1 /\ told'[p] = told[p] /\ told[p] \in Nat /\ told[Peer(p)] \in Nat
  BY <1>0, <1>a DEF SignalTypes, Put
<1>d. /\ pending'[Peer(p)] = pending[Peer(p)] \/ (state[Peer(p)] = "run" /\ pending'[Peer(p)] = pending[Peer(p)] \cup {s})
      /\ pending'[p] = pending[p]
  BY <1>0, <1>a DEF SignalTypes
<1>1. OneSignal'
  <2>1. CASE p = "child"
    <3>1. Peer(p) = "parent" /\ s = "SIGUSR2"  BY <2>1 DEF Peer
    <3>. QED  BY <1>0, <1>d, <2>1, <3>1 DEF OneSignal
  <2>2. CASE p = "parent"
    <3>1. Peer(p) = "child" /\ s = "SIGUSR1"  BY <2>2 DEF Peer
    <3>. QED  BY <1>0, <1>d, <2>2, <3>1 DEF OneSignal
  <2>. QED  BY <2>1, <2>2 DEF Proc
<1>. HIDE DEF s
<1>2. Unforked'
  <2>1. step' = step \/ \E n \in 1 .. 4 : Put(step', step, p, n)
    BY <1>a
  <2>. QED  BY <1>0, <1>a, <2>1, UnforkedKept
<1>3. Tokens(p)'
  <2>1. ~Returning(p)' /\ step'[p] # 3
    BY <1>b DEF Returning
  <2>2. told'[p] >= told[p]
    BY <1>c
  <2>. QED  BY <1>0, <1>a, <1>d, <2>1, <2>2, TokensSame
<1>4. ASSUME NEW q \in Proc, q = Peer(p) PROVE Tokens(q)'
  <2>1. q # p /\ ip'[q] = ip[q] /\ step'[q] = step[q] /\ (Returning(q)' <=> Returning(q)) /\ (AtOp(q, "WAIT")' <=> AtOp(q, "WAIT"))
    BY <1>4, <1>b DEF Returning, AtOp, InCode
  <2>2. CASE state[q] = "run"
    <3>1. state["child"] # "none"
      BY <1>4, <1>a, <2>2 DEF Peer, Proc
    <3>2. Owed(q)' <= Owed(q) + 1
      BY <1>a, <2>1 DEF Owed, Unit
    <3>3. Owed(q) \in Nat /\ Owed(q)' \in Nat /\ returned[q] \in Nat
      BY <1>0 DEF Owed, Unit, SignalTypes
    <3>. QED  BY <1>0, <1>4, <1>a, <1>c, <2>1, <3>1, <3>2, <3>3 DEF Tokens
  <2>3. CASE state[q] # "run"
    <3>1. pending'[q] = pending[q] /\ told'[q] >= told[q]
      BY <1>4, <1>c, <1>d, <2>3
    <3>2. AtOp(q, "WAIT")' /\ step'[q] = 3 => sigflag'[q]
      BY <1>0, <1>a, <2>1 DEF Tokens
    <3>. QED  BY <1>0, <1>a, <2>1, <3>1, <3>2, TokensSame
  <2>. QED  BY <2>2, <2>3
<1>5. \A q \in Proc : Tokens(q)'
  BY <1>3, <1>4, TwoProcs
<1>. QED  BY <1>1, <1>2, <1>5 DEF TokenInv

(* WAIT_..(): the flag becomes a return, and the return is counted.        *)
LEMMA WaitTokens ==
    ASSUME TokenInv, SignalTypes', LockTypes', NEW p \in Proc, Wait(p), UNCHANGED code
    PROVE  TokenInv'
<1>. USE Names
<1>0. SignalTypes /\ OneSignal /\ Unforked /\ \A q \in Proc : Tokens(q)
  BY DEF TokenInv
<1>a. state[p] = "run" /\ AtOp(p, "WAIT") /\ UNCHANGED <<state, pending, told>>
  BY DEF Wait, WaitTest, WaitSuspend, WaitReset, WaitUnmask, At, AtOp, InCode, sigvars
<1>b. (UNCHANGED ip /\ \E n \in 1 .. 4 : Put(step', step, p, n)) \/ (Put(ip', ip, p, ip[p] + 1) /\ Put(step', step, p, 1))
  <2>1. CASE WaitTest(p)
    <3>1. PICK n \in 2 .. 3 : GoStep(p, n)
      BY <2>1 DEF WaitTest
    <3>2. n \in 1 .. 4 /\ UNCHANGED ip /\ Put(step', step, p, n)
      BY <3>1 DEF GoStep, Put
    <3>. QED  BY <3>2
  <2>2. CASE WaitSuspend(p) \/ WaitReset(p)
    <3>1. PICK n \in 1 .. 4 : GoStep(p, n)
      BY <2>2 DEF WaitSuspend, WaitReset
    <3>. QED  BY <3>1 DEF GoStep, Put
  <2>3. CASE WaitUnmask(p)
    BY <2>3 DEF WaitUnmask, Done, Put
  <2>. QED  BY <2>1, <2>2, <2>3 DEF Wait
<1>c. /\ ip' = ip \/ Put(ip', ip, p, ip[p] + 1)
      /\ step' = step \/ \E n \in 1 .. 4 : Put(step', step, p, n)
  <2>1. 1 \in 1 .. 4  OBVIOUS
  <2>. QED  BY <1>b, <2>1
<1>1. Unforked'
  BY <1>0, <1>a, <1>c, UnforkedKept
<1>2. \A q \in Proc \ {p} : ip'[q] = ip[q] /\ step'[q] = step[q] /\ sigflag'[q] = sigflag[q] /\ returned'[q] = returned[q]
  <2>1. \A q \in Proc \ {p} : ip'[q] = ip[q] /\ step'[q] = step[q]
    BY <1>0, <1>b DEF SignalTypes, Put
  <2>2. \A q \in Proc \ {p} : sigflag'[q] = sigflag[q] /\ returned'[q] = returned[q]
    BY <1>0 DEF Wait, WaitTest, WaitSuspend, WaitReset, WaitUnmask, SignalTypes, sigvars
  <2>. QED  BY <2>1, <2>2
<1>3. ASSUME NEW q \in Proc, q # p PROVE Tokens(q)'
  <2>1. told'[q] >= told[q] /\ pending'[q] = pending[q] /\ state' = state
    BY <1>0, <1>a DEF SignalTypes
  <2>2. (Returning(q)' <=> Returning(q)) /\ (AtOp(q, "WAIT")' <=> AtOp(q, "WAIT"))
    BY <1>2, <1>3 DEF Returning, AtOp, InCode
  <2>3. AtOp(q, "WAIT")' /\ step'[q] = 3 => sigflag'[q]
    BY <1>0, <1>2, <1>3, <2>2 DEF Tokens
  <2>. QED  BY <1>0, <1>2, <1>3, <2>1, <2>2, <2>3, TokensSame
<1>4. Tokens(p)'
  <2>0. told'[p] = told[p] /\ told[p] \in Nat /\ pending'[p] = pending[p] /\ returned[p] \in Nat /\ sigflag[p] \in BOOLEAN
    BY <1>0, <1>a DEF SignalTypes
  <2>1. CASE WaitTest(p) \/ WaitSuspend(p)
    <3>1. UNCHANGED <<sigflag, returned>>
      BY <2>1 DEF WaitTest, WaitSuspend, sigvars
    <3>2. step'[p] # 4 /\ (step'[p] = 3 => sigflag[p])
      BY <1>0, <2>1 DEF WaitTest, WaitSuspend, GoStep, SignalTypes
    <3>3. ~Returning(p)'
      BY <3>2 DEF Returning
    <3>. QED  BY <1>0, <1>a, <2>0, <3>1, <3>2, <3>3, TokensSame
  <2>2. CASE WaitReset(p)
    <3>1. sigflag'[p] = FALSE /\ step[p] = 3 /\ step'[p] = 4 /\ returned' = returned
      BY <1>0, <2>2 DEF WaitReset, At, GoStep, SignalTypes
    <3>2. sigflag[p] /\ ~Returning(p)
      BY <1>0, <1>a, <3>1 DEF Tokens, Returning
    <3>3. Owed(p) = Unit(pending[p] # {}) + 1 /\ Owed(p)' <= Owed(p) /\ Owed(p) \in Nat /\ Owed(p)' \in Nat
      BY <1>0, <2>0, <3>1, <3>2 DEF Owed, Unit, SignalTypes
    <3>4. Owed(p) # 0
      BY <3>3 DEF Unit
    <3>. QED  BY <1>0, <1>a, <2>0, <3>1, <3>3, <3>4 DEF Tokens
  <2>3. CASE WaitUnmask(p)
    <3>1. sigflag' = sigflag /\ step[p] = 4 /\ step'[p] = 1 /\ returned'[p] = returned[p] + 1
      BY <1>0, <2>3 DEF WaitUnmask, At, Done, SignalTypes
    <3>2. Returning(p) /\ ~Returning(p)'
      BY <1>a, <3>1 DEF Returning
    <3>3. Owed(p) = Owed(p)' + 1 /\ Owed(p) \in Nat /\ Owed(p)' \in Nat
      BY <1>0, <2>0, <3>1, <3>2 DEF Owed, Unit, SignalTypes
    <3>. QED  BY <1>0, <1>a, <2>0, <3>1, <3>3 DEF Tokens
  <2>. QED  BY <2>1, <2>2, <2>3 DEF Wait
<1>. QED  BY <1>0, <1>1, <1>3, <1>4, <1>a DEF TokenInv, OneSignal

(* A signal that is delivered sets the flag.                               *)
LEMMA DeliverTokens ==
    ASSUME TokenInv, SignalTypes', LockTypes', NEW p \in Proc, NEW s \in Sigs, Deliver(p, s), UNCHANGED code
    PROVE  TokenInv' /\ told[p] > 0
<1>. USE Names
<1>0. SignalTypes /\ OneSignal /\ Unforked /\ \A q \in Proc : Tokens(q)
  BY DEF TokenInv
<1>a. /\ state[p] = "run" /\ s \in pending[p] /\ pending' = [pending EXCEPT ![p] = @ \ {s}]
      /\ sigflag' = sigflag \/ sigflag' = [sigflag EXCEPT ![p] = TRUE]
      /\ state' = state \/ state' = [state EXCEPT ![p] = "killed"]
      /\ UNCHANGED <<ip, step, told, returned>>
  BY DEF Deliver
<1>b. pending'[p] = {} /\ \A q \in Proc \ {p} : pending'[q] = pending[q]
  <2>1. \A q \in Proc \ {p} : pending'[q] = pending[q]
    BY <1>0, <1>a DEF SignalTypes
  <2>2. pending'[p] = pending[p] \ {s} /\ pending[p] \subseteq Sigs
    BY <1>0, <1>a DEF SignalTypes
  <2>3. \E r \in Sigs : r \notin pending[p]
    BY <1>0 DEF OneSignal, Proc
  <2>. QED  BY <1>a, <2>1, <2>2, <2>3
<1>c. /\ sigflag'[p] \in BOOLEAN /\ sigflag[p] \in BOOLEAN /\ (sigflag[p] => sigflag'[p])
      /\ \A q \in Proc \ {p} : sigflag'[q] = sigflag[q]
  BY <1>0, <1>a DEF SignalTypes
<1>1. OneSignal'
  BY <1>0, <1>b DEF OneSignal
<1>2. \A q \in Proc : state'[q] = "none" <=> state[q] = "none"
  BY <1>0, <1>a DEF SignalTypes
<1>3. Unforked'
  BY <1>0, <1>2, <1>a, UnforkedKept
<1>4. \A q \in Proc : (Returning(q)' <=> Returning(q)) /\ (AtOp(q, "WAIT")' <=> AtOp(q, "WAIT")) /\ step'[q] = step[q]
  BY <1>a DEF Returning, AtOp, InCode
<1>5. ASSUME NEW q \in Proc, q # p PROVE Tokens(q)'
  <2>1. told'[q] >= told[q] /\ returned'[q] = returned[q] /\ pending'[q] = pending[q]
    BY <1>0, <1>5, <1>a, <1>b DEF SignalTypes
  <2>2. AtOp(q, "WAIT")' /\ step'[q] = 3 => sigflag'[q]
    BY <1>0, <1>4, <1>5, <1>c DEF Tokens
  <2>. QED  BY <1>0, <1>2, <1>4, <1>5, <1>c, <2>1, <2>2, TokensSame
<1>6. /\ Owed(p) > 0 /\ Owed(p)' <= Owed(p) /\ Owed(p) \in Nat /\ Owed(p)' \in Nat
  BY <1>4, <1>a, <1>b, <1>c DEF Owed, Unit
<1>7. told[p] \in Nat /\ returned[p] \in Nat /\ told'[p] = told[p] /\ returned'[p] = returned[p]
  BY <1>0, <1>a DEF SignalTypes
<1>8. Tokens(p)' /\ told[p] > 0
  BY <1>0, <1>2, <1>4, <1>6, <1>7, <1>c DEF Tokens
<1>. QED  BY <1>1, <1>3, <1>5, <1>8 DEF TokenInv

(* Every step keeps the invariant.                                         *)
LEMMA TokenStep ==
    ASSUME TokenInv, [Next]_vars, \A c \in Codes : ForkOnce(c)
    PROVE  TokenInv'
<1>0. SignalTypes /\ LockTypes
  BY DEF TokenInv
<1>1. ASSUME NEW p \in Proc, Run(p) \/ (\E s \in Sigs : Deliver(p, s)), UNCHANGED code PROVE TokenInv'
  <2>1. SignalTypes' /\ LockTypes' /\ ForkOnce(code)
    BY <1>0, <1>1, Shapes, TypesKept DEF SignalTypes
  <2>2. CASE Fork(p)
    BY <1>1, <2>1, <2>2, ForkTokens
  <2>3. CASE Tell(p)
    BY <1>1, <2>1, <2>3, TellTokens
  <2>4. CASE Wait(p)
    BY <1>1, <2>1, <2>4, WaitTokens
  <2>5. ASSUME NEW s \in Sigs, Deliver(p, s) PROVE TokenInv'
    BY <1>1, <2>1, <2>5, DeliverTokens
  <2>6. CASE Aside(p)
    BY <1>1, <2>1, <2>6, AsideKeeps
  <2>. QED  BY <1>1, <2>2, <2>3, <2>4, <2>5, <2>6 DEF Run, Aside
<1>2. CASE UNCHANGED vars
  BY <1>2 DEF vars, TokenInv, SignalTypes, LockTypes, OneSignal, Unforked, Tokens, Owed, Returning, AtOp, InCode
<1>. QED  BY <1>1, <1>2 DEF Next

(* Nobody has told and nobody has been told at the start.                  *)
LEMMA TokenStart == Init => TokenInv
<1>. SUFFICES ASSUME Init PROVE TokenInv  OBVIOUS
<1>. USE Names
<1>1. SignalTypes /\ LockTypes
  BY DEF Init, SignalTypes, LockTypes, States
<1>2. Unforked /\ OneSignal
  BY DEF Init, Unforked, OneSignal
<1>3. ASSUME NEW p \in Proc PROVE Tokens(p)
  <2>1. pending[p] = {} /\ sigflag[p] = FALSE /\ step[p] = 1 /\ returned[p] = 0 /\ told[p] = 0
    BY DEF Init
  <2>2. Owed(p) = 0
    BY <2>1 DEF Owed, Unit, Returning
  <2>. QED  BY <2>1, <2>2 DEF Tokens
<1>. QED  BY <1>1, <1>2, <1>3 DEF TokenInv

-----------------------------------------------------------------------------
(* What a step of process p does to what the programs with record locks    *)
(* rely on.                                                                *)
Steps(p) == ip'[p] = ip[p] + 1 /\ InCode(p) /\ state[p] = "run" /\ state'[p] = "run"
Moves(p) ==
    /\ state[p] = "run"
    /\ \A q \in Proc \ {p} : ip'[q] = ip[q] /\ returned'[q] = returned[q] /\ claims'[q] = claims[q]
                             /\ blockedOn'[q] = blockedOn[q]
                             /\ (state'[q] = state[q] \/ (AtOp(p, "fork") /\ state'[q] = "run"))
    /\ \/ ip'[p] = ip[p]
       \/ /\ Steps(p)
          /\ AtOp(p, "WAIT") => returned'[p] >= 1
          /\ AtOp(p, "writew_lock") \/ AtOp(p, "write_lock") => claims'[p] # {}
          /\ AtOp(p, "write_lock") => owner'[Arg(p)] = p
          /\ AtOp(p, "waitpid") => state["child"] \notin {"none", "run"}
    /\ told'[p] = told[p] /\ returned'[p] >= returned[p] /\ claims[p] \subseteq claims'[p]
    /\ told'[Peer(p)] = told[Peer(p)] \/ (AtOp(p, "TELL") /\ Steps(p))
    /\ \A b \in Byte : \/ owner'[b] = owner[b]
                       \/ owner[b] = p /\ owner'[b] = "none" /\ state'[p] # "run"
                       \/ owner'[b] = p /\ Arg(p) = b /\ Steps(p) /\ (AtOp(p, "writew_lock") \/ AtOp(p, "write_lock"))
    /\ blockedOn'[p] = {} \/ blockedOn'[p] = blockedOn[p] \/ LockBlocks(p)
    /\ \/ state'[p] = "run"
       \/ state'[p] = "exit" /\ ~InCode(p) /\ ip'[p] = ip[p]
       \/ state'[p] = "killed" /\ told[p] > 0
       \/ state'[p] = "failed" /\ AtOp(p, "write_lock") /\ ~Free(p, Arg(p))
       \/ state'[p] = "failed" /\ AtOp(p, "read_lock_busy") /\ Free(p, Arg(p))

(* What most steps leave alone.                                            *)
LEMMA MovesPlain ==
    ASSUME SignalTypes, LockTypes, NEW p \in Proc, state[p] = "run", UNCHANGED <<state, owner, blockedOn, claims>>,
           \/ UNCHANGED ip
           \/ /\ Put(ip', ip, p, ip[p] + 1) /\ InCode(p)
              /\ ~AtOp(p, "writew_lock") /\ ~AtOp(p, "write_lock")
              /\ AtOp(p, "WAIT") => returned'[p] = returned[p] + 1
              /\ AtOp(p, "waitpid") => state["child"] \notin {"none", "run"},
           returned' = returned \/ Put(returned', returned, p, returned[p] + 1),
           told' = told \/ (AtOp(p, "TELL") /\ ip' # ip /\ Put(told', told, Peer(p), told[Peer(p)] + 1))
    PROVE  Moves(p)
<1>. USE Names
<1>1. \A q \in Proc \ {p} : ip'[q] = ip[q] /\ returned'[q] = returned[q]
  BY DEF SignalTypes, Put
<1>2. told'[p] = told[p] /\ returned'[p] >= returned[p] /\ returned[p] \in Nat /\ ip[p] \in Nat
  BY DEF SignalTypes, Put
<1>3. UNCHANGED ip \/ Steps(p)
  BY DEF Steps, SignalTypes, Put
<1>4. told'[Peer(p)] = told[Peer(p)] \/ (AtOp(p, "TELL") /\ Steps(p))
  BY <1>3
<1>5. \/ ip'[p] = ip[p]
      \/ /\ Steps(p)
         /\ AtOp(p, "WAIT") => returned'[p] >= 1
         /\ ~(AtOp(p, "writew_lock") \/ AtOp(p, "write_lock"))
         /\ AtOp(p, "waitpid") => state["child"] \notin {"none", "run"}
  BY <1>2, <1>3
<1>. QED  BY <1>1, <1>2, <1>4, <1>5 DEF Moves

(* Every step moves the processes as described.                            *)
LEMMA MovesHold ==
    ASSUME TokenInv, TokenInv', NEW p \in Proc, Run(p) \/ (\E s \in Sigs : Deliver(p, s)), UNCHANGED code
    PROVE  Moves(p)
<1>. USE Names
<1>0. SignalTypes /\ LockTypes
  BY DEF TokenInv
<1>1. CASE TellWaitHandler(p, 1, "SIGUSR1") \/ TellWaitHandler(p, 2, "SIGUSR2")
  <2>1. state[p] = "run" /\ UNCHANGED <<ip, state, owner, blockedOn, claims, told, returned>>
    BY <1>1 DEF TellWaitHandler, At, GoStep, lockvars
  <2>. QED  BY <1>0, <2>1, MovesPlain
<1>2. CASE TellWaitBlock(p) \/ Work(p) \/ Waitpid(p) \/ Tell(p)
  <2>1. /\ state[p] = "run" /\ UNCHANGED <<state, owner, blockedOn, claims, returned>>
        /\ Put(ip', ip, p, ip[p] + 1) /\ InCode(p)
    BY <1>2 DEF TellWaitBlock, Work, Waitpid, Tell, At, Done, InCode, lockvars, Put
  <2>2. /\ ~AtOp(p, "writew_lock") /\ ~AtOp(p, "write_lock") /\ ~AtOp(p, "WAIT")
        /\ AtOp(p, "waitpid") => state["child"] \notin {"none", "run"}
    BY <1>2 DEF TellWaitBlock, Work, Waitpid, Tell, At, AtOp
  <2>3. ip' # ip
    BY <1>0, <2>1 DEF Put, SignalTypes
  <2>4. told' = told \/ (AtOp(p, "TELL") /\ ip' # ip /\ Put(told', told, Peer(p), told[Peer(p)] + 1))
    BY <1>2, <2>3 DEF TellWaitBlock, Work, Waitpid, Tell, At, AtOp, InCode, Put
  <2>. QED  BY <1>0, <2>1, <2>2, <2>4, MovesPlain
<1>3. CASE Wait(p)
  <2>1. state[p] = "run" /\ UNCHANGED <<state, owner, blockedOn, claims, told>> /\ AtOp(p, "WAIT") /\ InCode(p)
    BY <1>3 DEF Wait, WaitTest, WaitSuspend, WaitReset, WaitUnmask, At, AtOp, InCode, lockvars
  <2>2. /\ ~AtOp(p, "writew_lock") /\ ~AtOp(p, "write_lock") /\ ~AtOp(p, "waitpid")
    BY <2>1 DEF AtOp
  <2>3. \/ UNCHANGED <<ip, returned>>
        \/ Put(ip', ip, p, ip[p] + 1) /\ Put(returned', returned, p, returned[p] + 1)
    BY <1>3 DEF Wait, WaitTest, WaitSuspend, WaitReset, WaitUnmask, GoStep, Done, Put
  <2>4. Put(returned', returned, p, returned[p] + 1) => returned'[p] = returned[p] + 1
    BY <1>0 DEF Put, SignalTypes
  <2>. QED  BY <1>0, <2>1, <2>2, <2>3, <2>4, MovesPlain
<1>4. CASE Fork(p)
  <2>1. /\ state[p] = "run" /\ AtOp(p, "fork") /\ InCode(p) /\ Put(state', state, "child", "run")
        /\ Put(ip', ip, p, ip[p] + 1) /\ UNCHANGED <<owner, blockedOn, claims, told, returned>>
    BY <1>4 DEF Fork, At, AtOp, InCode, Done, lockvars, Put
  <2>2. /\ \A q \in Proc \ {p} : ip'[q] = ip[q]
        /\ \A q \in Proc \ {p} : state'[q] = state[q] \/ state'[q] = "run"
        /\ ip'[p] = ip[p] + 1 /\ state'[p] = "run"
    BY <1>0, <2>1 DEF SignalTypes, Put
  <2>3. ~AtOp(p, "writew_lock") /\ ~AtOp(p, "write_lock") /\ ~AtOp(p, "waitpid") /\ ~AtOp(p, "WAIT") /\ Steps(p)
    BY <2>1, <2>2 DEF AtOp, Steps
  <2>4. returned'[p] >= returned[p]
    BY <1>0, <2>1 DEF SignalTypes
  <2>. QED  BY <2>1, <2>2, <2>3, <2>4 DEF Moves
<1>5. CASE LockBlocks(p)
  <2>1. /\ state[p] = "run" /\ Put(blockedOn', blockedOn, p, {Arg(p)})
        /\ UNCHANGED <<ip, state, owner, claims, told, returned>>
    BY <1>5 DEF LockBlocks, At, sigvars, Put
  <2>2. \A q \in Proc \ {p} : blockedOn'[q] = blockedOn[q]
    BY <1>0, <2>1 DEF LockTypes, Put
  <2>3. returned'[p] >= returned[p]
    BY <1>0, <2>1 DEF SignalTypes
  <2>. QED  BY <1>5, <2>1, <2>2, <2>3 DEF Moves
<1>6. CASE LockAByte(p)
  <2>1. /\ state[p] = "run" /\ AtOp(p, "writew_lock") /\ InCode(p)
        /\ Put(ip', ip, p, ip[p] + 1) /\ Put(blockedOn', blockedOn, p, {}) /\ Put(claims', claims, p, claims[p] \cup {Arg(p)})
        /\ (owner' = owner \/ Put(owner', owner, Arg(p), p)) /\ UNCHANGED <<state, told, returned>>
    BY <1>6 DEF LockAByte, At, AtOp, InCode, Done, sigvars, Put
  <2>2. /\ \A q \in Proc \ {p} : ip'[q] = ip[q] /\ blockedOn'[q] = blockedOn[q] /\ claims'[q] = claims[q]
        /\ ip'[p] = ip[p] + 1 /\ blockedOn'[p] = {} /\ claims'[p] = claims[p] \cup {Arg(p)}
    BY <1>0, <2>1 DEF SignalTypes, LockTypes, Put
  <2>3. UNCHANGED <<state, told, returned>>
    BY <1>6 DEF LockAByte, sigvars
  <2>4. ~AtOp(p, "write_lock") /\ ~AtOp(p, "waitpid") /\ ~AtOp(p, "WAIT") /\ Steps(p) /\ returned'[p] >= returned[p]
    BY <1>0, <2>1, <2>2, <2>3 DEF AtOp, Steps, SignalTypes
  <2>5. \A b \in Byte : owner'[b] = owner[b] \/ (owner'[b] = p /\ Arg(p) = b)
    BY <1>0, <2>1 DEF LockTypes, Put
  <2>. QED  BY <2>1, <2>2, <2>3, <2>4, <2>5 DEF Moves
<1>7. CASE WriteLock(p)
  <2>1. /\ state[p] = "run" /\ AtOp(p, "write_lock") /\ InCode(p) /\ Arg(p) \in Byte
        /\ UNCHANGED <<blockedOn, told, returned>> /\ returned'[p] >= returned[p]
    <3>1. state[p] = "run" /\ AtOp(p, "write_lock") /\ InCode(p) /\ UNCHANGED <<blockedOn, told, returned>>
      BY <1>7 DEF WriteLock, At, AtOp, InCode, sigvars
    <3>. QED  BY <1>0, <3>1, ByteArg DEF SignalTypes
  <2>2. ~AtOp(p, "waitpid") /\ ~AtOp(p, "WAIT")
    BY <2>1 DEF AtOp
  <2>3. CASE Free(p, Arg(p))
    <3>1. /\ Put(owner', owner, Arg(p), p) /\ Put(claims', claims, p, claims[p] \cup {Arg(p)})
          /\ Put(ip', ip, p, ip[p] + 1) /\ UNCHANGED state
      BY <1>7, <2>3 DEF WriteLock, Done, Put
    <3>2. /\ \A q \in Proc \ {p} : ip'[q] = ip[q] /\ claims'[q] = claims[q]
          /\ Steps(p) /\ claims'[p] = claims[p] \cup {Arg(p)}
      BY <1>0, <2>1, <3>1 DEF SignalTypes, LockTypes, Put, Steps
    <3>3. owner'[Arg(p)] = p /\ \A b \in Byte : owner'[b] = owner[b] \/ (owner'[b] = p /\ Arg(p) = b)
      BY <1>0, <2>1, <3>1 DEF LockTypes, Put
    <3>. QED  BY <2>1, <2>2, <3>1, <3>2, <3>3 DEF Moves
  <2>4. CASE ~Free(p, Arg(p))
    <3>1. Put(state', state, p, "failed") /\ UNCHANGED <<ip, owner, claims>>
      BY <1>7, <2>4 DEF WriteLock, Put
    <3>2. state'[p] = "failed" /\ \A q \in Proc \ {p} : state'[q] = state[q]
      BY <1>0, <3>1 DEF SignalTypes, Put
    <3>. QED  BY <2>1, <2>4, <3>1, <3>2 DEF Moves
  <2>. QED  BY <2>3, <2>4
<1>8. CASE ReadLockBusy(p)
  <2>1. /\ state[p] = "run" /\ AtOp(p, "read_lock_busy") /\ InCode(p) /\ UNCHANGED <<owner, blockedOn, claims, told, returned>>
    BY <1>8 DEF ReadLockBusy, At, AtOp, InCode, sigvars, lockvars
  <2>2. ~AtOp(p, "waitpid") /\ ~AtOp(p, "WAIT") /\ ~AtOp(p, "writew_lock") /\ ~AtOp(p, "write_lock")
    BY <2>1 DEF AtOp
  <2>3. CASE Free(p, Arg(p))
    <3>1. Put(state', state, p, "failed") /\ UNCHANGED ip
      BY <1>8, <2>3 DEF ReadLockBusy, Put
    <3>2. state'[p] = "failed" /\ (\A q \in Proc \ {p} : state'[q] = state[q]) /\ returned'[p] >= returned[p]
      BY <1>0, <2>1, <3>1 DEF SignalTypes, Put
    <3>. QED  BY <2>1, <2>3, <3>1, <3>2 DEF Moves
  <2>4. CASE ~Free(p, Arg(p))
    <3>1. UNCHANGED state /\ Put(ip', ip, p, ip[p] + 1)
      BY <1>8, <2>4 DEF ReadLockBusy, Done, Put
    <3>. QED  BY <1>0, <2>1, <2>2, <3>1, MovesPlain
  <2>. QED  BY <2>3, <2>4
<1>9. CASE Exit(p)
  <2>1. /\ state[p] = "run" /\ ~InCode(p) /\ UNCHANGED <<ip, blockedOn, claims, told, returned>>
        /\ Put(state', state, p, "exit")
        /\ owner' = [b \in Byte |-> IF owner[b] = p THEN "none" ELSE owner[b]]
    <3>1. ip[p] \in Nat /\ Len(code[p]) \in Nat
      BY <1>0, CodeTypes DEF SignalTypes
    <3>. QED  BY <1>9, <3>1 DEF Exit, InCode, sigvars, Put
  <2>2. state'[p] = "exit" /\ (\A q \in Proc \ {p} : state'[q] = state[q]) /\ returned'[p] >= returned[p]
    BY <1>0, <2>1 DEF SignalTypes, Put
  <2>3. \A b \in Byte : owner'[b] = owner[b] \/ (owner[b] = p /\ owner'[b] = "none")
    BY <2>1
  <2>. QED  BY <2>1, <2>2, <2>3 DEF Moves
<1>10. ASSUME NEW s \in Sigs, Deliver(p, s) PROVE Moves(p)
  <2>1. state[p] = "run" /\ UNCHANGED <<ip, told, returned>> /\ told[p] > 0 /\ returned'[p] >= returned[p] /\ claims' = claims
    <3>1. told[p] > 0
      BY <1>10, DeliverTokens DEF TokenInv
    <3>2. state[p] = "run" /\ UNCHANGED <<ip, told, returned, claims>>
      BY <1>10 DEF Deliver, lockvars
    <3>. QED  BY <1>0, <3>1, <3>2 DEF SignalTypes
  <2>2. CASE s \in handler[p]
    <3>1. UNCHANGED <<state, owner, blockedOn, claims>>
      BY <1>10, <2>2 DEF Deliver, lockvars
    <3>. QED  BY <1>0, <2>1, <3>1, MovesPlain
  <2>3. CASE s \notin handler[p]
    <3>1. /\ Put(state', state, p, "killed") /\ Put(blockedOn', blockedOn, p, {})
          /\ owner' = [b \in Byte |-> IF owner[b] = p THEN "none" ELSE owner[b]]
      BY <1>10, <2>3 DEF Deliver, Put
    <3>2. /\ state'[p] = "killed" /\ blockedOn'[p] = {}
          /\ \A q \in Proc \ {p} : state'[q] = state[q] /\ blockedOn'[q] = blockedOn[q]
      BY <1>0, <3>1 DEF SignalTypes, LockTypes, Put
    <3>3. \A b \in Byte : owner'[b] = owner[b] \/ (owner[b] = p /\ owner'[b] = "none")
      BY <3>1
    <3>. QED  BY <2>1, <3>2, <3>3 DEF Moves
  <2>. QED  BY <2>2, <2>3
<1>. QED  BY <1>1, <1>2, <1>3, <1>4, <1>5, <1>6, <1>7, <1>8, <1>9, <1>10 DEF Run

-----------------------------------------------------------------------------
(* The operations of the two programs with record locks.                   *)
ParentLockOp(o) ==
    \/ ip["parent"] = 1 /\ o = "TELL_WAIT"
    \/ ip["parent"] = 2 /\ o = "fork"
    \/ ip["parent"] = 3 /\ o = "write_lock" /\ Arg("parent") = 0
    \/ ip["parent"] = 4 /\ o = "TELL"
    \/ ip["parent"] = 5 /\ o = "waitpid"
ChildLockOp(o) ==
    \/ ip["child"] = 1 /\ o = "WAIT"
    \/ ip["child"] = 2 /\ o = "read_lock_busy" /\ Arg("child") = 0
ParentDeadlockOp(o) ==
    \/ ip["parent"] = 1 /\ o = "TELL_WAIT"
    \/ ip["parent"] = 2 /\ o = "fork"
    \/ ip["parent"] = 3 /\ o = "writew_lock" /\ Arg("parent") = 1
    \/ ip["parent"] = 4 /\ o = "TELL"
    \/ ip["parent"] = 5 /\ o = "WAIT"
    \/ ip["parent"] = 6 /\ o = "writew_lock" /\ Arg("parent") = 0
ChildDeadlockOp(o) ==
    \/ ip["child"] = 1 /\ o = "writew_lock" /\ Arg("child") = 0
    \/ ip["child"] = 2 /\ o = "TELL"
    \/ ip["child"] = 3 /\ o = "WAIT"
    \/ ip["child"] = 4 /\ o = "writew_lock" /\ Arg("child") = 1

(* ch14_lock.c.                                                            *)
LEMMA LockOpsOf ==
    ASSUME NEW o, code = LockCode, SignalTypes
    PROVE  /\ Len(code["parent"]) = 5 /\ Len(code["child"]) = 2 /\ 0 \in Byte
           /\ AtOp("parent", o) => ParentLockOp(o)
           /\ AtOp("child", o) => ChildLockOp(o)
<1>1. /\ code["parent"] = <<Op("TELL_WAIT"), Op("fork"), On("write_lock", 0), Op("TELL"), Op("waitpid")>>
      /\ code["child"] = <<Op("WAIT"), On("read_lock_busy", 0)>>
  BY DEF LockCode, Programs, Proc
<1>2. ip["parent"] \in Nat \ {0} /\ ip["child"] \in Nat \ {0}
  BY Names DEF SignalTypes
<1>3. Len(code["parent"]) = 5 /\ Len(code["child"]) = 2
  BY <1>1
<1>4. ASSUME AtOp("parent", o) PROVE ParentLockOp(o)
  <2>1. ip["parent"] \in {1, 2, 3, 4, 5}
    BY <1>2, <1>3, <1>4 DEF AtOp, InCode
  <2>. QED  BY <1>1, <1>4, <2>1 DEF AtOp, Arg, Op, On, ParentLockOp
<1>5. ASSUME AtOp("child", o) PROVE ChildLockOp(o)
  <2>1. ip["child"] \in {1, 2}
    BY <1>2, <1>3, <1>5 DEF AtOp, InCode
  <2>. QED  BY <1>1, <1>5, <2>1 DEF AtOp, Arg, Op, On, ChildLockOp
<1>6. 0 \in Byte
  <2>1. code["parent"][3] \in Ops
    BY <1>3, CodeTypes, Names DEF SignalTypes
  <2>2. code["parent"][3] = On("write_lock", 0)
    BY <1>1
  <2>. QED  BY <2>1, <2>2, ByteOf DEF On
<1>. QED  BY <1>3, <1>4, <1>5, <1>6

(* ... ch14_deadlock.c.                                                    *)
LEMMA DeadlockOpsOf ==
    ASSUME NEW o, code = DeadlockCode, SignalTypes
    PROVE  /\ Len(code["parent"]) = 6 /\ Len(code["child"]) = 4 /\ 0 \in Byte /\ 1 \in Byte
           /\ AtOp("parent", o) => ParentDeadlockOp(o)
           /\ AtOp("child", o) => ChildDeadlockOp(o)
<1>1. /\ code["parent"] = <<Op("TELL_WAIT"), Op("fork"), On("writew_lock", 1), Op("TELL"), Op("WAIT"), On("writew_lock", 0)>>
      /\ code["child"] = <<On("writew_lock", 0), Op("TELL"), Op("WAIT"), On("writew_lock", 1)>>
  BY DEF DeadlockCode, Programs, Proc
<1>2. ip["parent"] \in Nat \ {0} /\ ip["child"] \in Nat \ {0}
  BY Names DEF SignalTypes
<1>3. Len(code["parent"]) = 6 /\ Len(code["child"]) = 4
  BY <1>1
<1>4. ASSUME AtOp("parent", o) PROVE ParentDeadlockOp(o)
  <2>1. ip["parent"] \in {1, 2, 3, 4, 5, 6}
    BY <1>2, <1>3, <1>4 DEF AtOp, InCode
  <2>. QED  BY <1>1, <1>4, <2>1 DEF AtOp, Arg, Op, On, ParentDeadlockOp
<1>5. ASSUME AtOp("child", o) PROVE ChildDeadlockOp(o)
  <2>1. ip["child"] \in {1, 2, 3, 4}
    BY <1>2, <1>3, <1>5 DEF AtOp, InCode
  <2>. QED  BY <1>1, <1>5, <2>1 DEF AtOp, Arg, Op, On, ChildDeadlockOp
<1>6. 0 \in Byte /\ 1 \in Byte
  <2>1. code["child"][1] \in Ops /\ code["child"][4] \in Ops
    BY <1>3, CodeTypes, Names DEF SignalTypes
  <2>2. code["child"][1] = On("writew_lock", 0) /\ code["child"][4] = On("writew_lock", 1)
    BY <1>1
  <2>. QED  BY <2>1, <2>2, ByteOf DEF On
<1>. QED  BY <1>3, <1>4, <1>5, <1>6

(* A program without record locks never fails and never blocks.            *)
LEMMA LockFreeKept ==
    ASSUME SignalTypes, NEW p \in Proc, Moves(p), LockFree(code), NoFailure
    PROVE  NoFailure'
<1>1. ASSUME NEW o, AtOp(p, o) PROVE o # "writew_lock" /\ o # "write_lock" /\ o # "read_lock_busy"
  <2>1. DOMAIN code[p] = 1 .. Len(code[p]) /\ Len(code[p]) \in Nat /\ ip[p] \in Nat \ {0}
    BY CodeTypes DEF SignalTypes
  <2>2. ip[p] \in DOMAIN code[p]
    BY <1>1, <2>1 DEF AtOp, InCode
  <2>. QED  BY <1>1, <2>2 DEF LockFree, AtOp, OpOf
<1>2. state'[p] # "failed"
  BY <1>1 DEF Moves
<1>3. blockedOn'[p] = {}
  <2>1. ~LockBlocks(p)
    BY <1>1 DEF LockBlocks, At, AtOp, InCode
  <2>. QED  BY <2>1 DEF Moves, NoFailure
<1>4. \A q \in Proc \ {p} : state'[q] # "failed" /\ blockedOn'[q] = {}
  BY DEF Moves, NoFailure
<1>. QED  BY <1>2, <1>3, <1>4 DEF NoFailure

(* ch14_lock.c: the child tries the lock when the parent has it and waits  *)
(* for the child.                                                          *)
LEMMA InLockKept ==
    ASSUME TokenInv, TokenInv', NEW p \in Proc, Moves(p), UNCHANGED code, code = LockCode, InLock
    PROVE  InLock'
<1>. USE Names
<1>0. SignalTypes /\ LockTypes /\ Tokens("parent") /\ Tokens("child")
  BY DEF TokenInv
<1>1. /\ Len(code["parent"]) = 5 /\ Len(code["child"]) = 2 /\ 0 \in Byte
      /\ \A o : AtOp("parent", o) => ParentLockOp(o)
      /\ \A o : AtOp("child", o) => ChildLockOp(o)
  BY <1>0, LockOpsOf
<1>. USE DEF ParentLockOp, ChildLockOp
<1>2. /\ ip["parent"] \in Nat /\ ip["child"] \in Nat /\ told["parent"] \in Nat /\ told["child"] \in Nat
      /\ returned["parent"] \in Nat /\ returned["child"] \in Nat /\ owner[0] \in Proc \cup {"none"}
  BY <1>0, <1>1 DEF SignalTypes, LockTypes
<1>3. returned["child"] <= told["child"]
  <2>1. Owed("child") \in Nat  BY DEF Owed, Unit
  <2>. QED  BY <1>0, <1>2, <2>1 DEF Tokens
<1>4. \A o : AtOp("parent", o) \/ AtOp("child", o) => o # "writew_lock"
  BY <1>1
<1>5. blockedOn'[p] = {} /\ \A q \in Proc \ {p} : blockedOn'[q] = {}
  <2>1. ~LockBlocks(p)
    BY <1>4 DEF LockBlocks, At, AtOp, InCode, Proc
  <2>. QED  BY <2>1 DEF Moves, InLock, NoFailure
<1>6. CASE p = "parent"
  <2>1. /\ ip'["child"] = ip["child"] /\ returned'["child"] = returned["child"] /\ told'["parent"] = told["parent"]
        /\ state["parent"] = "run" /\ (state'["child"] = state["child"] \/ (ip["parent"] = 2 /\ state'["child"] = "run"))
        /\ told'["child"] = told["child"] \/ (ip["parent"] = 4 /\ ip'["parent"] = 5)
    BY <1>1, <1>6 DEF Moves, Steps, Peer
  <2>2. \/ ip'["parent"] = ip["parent"]
        \/ /\ ip'["parent"] = ip["parent"] + 1 /\ ip["parent"] <= 5 /\ state'["parent"] = "run"
           /\ ip["parent"] = 3 => owner'[0] = "parent"
           /\ ip["parent"] = 5 => state["child"] \notin {"none", "run"}
    <3>1. CASE ip'["parent"] = ip["parent"]
      BY <3>1
    <3>2. CASE ip'["parent"] # ip["parent"]
      <4>1. Steps("parent") /\ ip["parent"] <= 5
        BY <1>1, <1>6, <3>2 DEF Moves, Steps, InCode
      <4>. DEFINE o == code["parent"][ip["parent"]].op
      <4>2. AtOp("parent", o)
        BY <4>1 DEF Steps, AtOp
      <4>. HIDE DEF o
      <4>3. ip["parent"] = 3 => AtOp("parent", "write_lock") /\ Arg("parent") = 0
        BY <1>1, <4>2
      <4>4. ip["parent"] = 5 => AtOp("parent", "waitpid")
        BY <1>1, <4>2
      <4>. QED  BY <1>6, <3>2, <4>1, <4>3, <4>4 DEF Moves, Steps
    <3>. QED  BY <3>1, <3>2
  <2>3. owner'[0] # "child" /\ (owner[0] = "parent" /\ state'["parent"] = "run" => owner'[0] = "parent")
    BY <1>1, <1>6 DEF Moves, InLock
  <2>4. /\ state'["parent"] = "run" \/ (state'["parent"] = "exit" /\ ip["parent"] > 5 /\ ip'["parent"] = ip["parent"])
    <3>1. ~(AtOp("parent", "write_lock") /\ ~Free("parent", Arg("parent")))
      BY <1>1, <1>2 DEF InLock, Free, Proc
    <3>2. ~AtOp("parent", "read_lock_busy")
      BY <1>1
    <3>3. ~InCode("parent") => ip["parent"] > 5
      BY <1>1, <1>2 DEF InCode
    <3>. QED  BY <1>2, <1>6, <3>1, <3>2, <3>3 DEF Moves, InLock
  <2>5. NoFailure'
    BY <1>5, <1>6, <2>1, <2>4 DEF NoFailure, InLock, Proc
  <2>. QED  BY <1>2, <2>1, <2>2, <2>3, <2>4, <2>5 DEF InLock
<1>7. CASE p = "child"
  <2>1. /\ ip'["parent"] = ip["parent"] /\ returned'["child"] >= returned["child"] /\ told'["child"] = told["child"]
        /\ state["child"] = "run" /\ state'["parent"] = state["parent"] /\ told'["parent"] = told["parent"]
        /\ returned'["child"] \in Int
    <3>1. returned'["child"] \in Int
      BY DEF TokenInv, SignalTypes
    <3>2. ~AtOp("child", "fork") /\ ~AtOp("child", "TELL")
      BY <1>1
    <3>. QED  BY <1>7, <3>1, <3>2 DEF Moves, Peer
  <2>2. \/ ip'["child"] = ip["child"]
        \/ /\ ip'["child"] = ip["child"] + 1
           /\ ip["child"] = 1 => returned'["child"] >= 1
    <3>1. CASE ip'["child"] = ip["child"]
      BY <3>1
    <3>2. CASE ip'["child"] # ip["child"]
      <4>1. Steps("child") /\ ip["child"] <= 2
        BY <1>1, <1>7, <3>2 DEF Moves, Steps, InCode
      <4>. DEFINE o == code["child"][ip["child"]].op
      <4>2. AtOp("child", o)
        BY <4>1 DEF Steps, AtOp
      <4>. HIDE DEF o
      <4>3. ip["child"] = 1 => AtOp("child", "WAIT")
        BY <1>1, <4>2
      <4>. QED  BY <1>7, <3>2, <4>1, <4>3 DEF Moves, Steps
    <3>. QED  BY <3>1, <3>2
  <2>3. owner'[0] = owner[0]
    <3>1. ~AtOp("child", "writew_lock") /\ ~AtOp("child", "write_lock")
      BY <1>1
    <3>. QED  BY <1>1, <1>7, <3>1 DEF Moves, InLock
  <2>4. state'["child"] # "failed"
    <3>1. ~AtOp("child", "write_lock")
      BY <1>1
    <3>2. ASSUME AtOp("child", "read_lock_busy"), Free("child", Arg("child")) PROVE FALSE
      <4>1. ip["child"] = 2 /\ Arg("child") = 0
        BY <1>1, <3>2
      <4>2. ip["parent"] > 4
        BY <1>2, <1>3, <4>1 DEF InLock
      <4>3. owner[0] = "parent"
        BY <1>2, <2>1, <4>2 DEF InLock
      <4>. QED  BY <3>2, <4>1, <4>3 DEF Free
    <3>. QED  BY <1>7, <3>1, <3>2 DEF Moves
  <2>5. ip["parent"] <= 5
    BY <1>2, <2>1 DEF InLock
  <2>6. NoFailure'
    BY <1>5, <1>7, <2>1, <2>4 DEF NoFailure, InLock, Proc
  <2>. QED  BY <1>2, <2>1, <2>2, <2>3, <2>5, <2>6 DEF InLock
<1>. QED  BY <1>6, <1>7 DEF Proc

(* ch14_deadlock.c: neither waits for a lock before both have taken one.   *)
LEMMA InDeadlockKept ==
    ASSUME TokenInv, TokenInv', NEW p \in Proc, Moves(p), UNCHANGED code, code = DeadlockCode, InDeadlock
    PROVE  InDeadlock'
<1>. USE Names
<1>0. SignalTypes /\ LockTypes /\ Tokens("parent") /\ Tokens("child")
  BY DEF TokenInv
<1>1. /\ Len(code["parent"]) = 6 /\ Len(code["child"]) = 4 /\ 0 \in Byte /\ 1 \in Byte
      /\ \A o : AtOp("parent", o) => ParentDeadlockOp(o)
      /\ \A o : AtOp("child", o) => ChildDeadlockOp(o)
  BY <1>0, DeadlockOpsOf
<1>. USE DEF ParentDeadlockOp, ChildDeadlockOp
<1>2. /\ ip["parent"] \in Nat /\ ip["child"] \in Nat /\ told["parent"] \in Nat /\ told["child"] \in Nat
      /\ returned["parent"] \in Nat /\ returned["child"] \in Nat
      /\ owner[0] \in Proc \cup {"none"} /\ owner[1] \in Proc \cup {"none"}
  BY <1>0, <1>1 DEF SignalTypes, LockTypes
<1>3. returned["parent"] <= told["parent"] /\ returned["child"] <= told["child"]
  <2>1. Owed("parent") \in Nat /\ Owed("child") \in Nat  BY DEF Owed, Unit
  <2>. QED  BY <1>0, <1>2, <2>1 DEF Tokens
<1>4. returned'["parent"] \in Int /\ returned'["child"] \in Int
  BY DEF TokenInv, SignalTypes
<1>5. \A o : AtOp("parent", o) \/ AtOp("child", o) => o # "write_lock" /\ o # "read_lock_busy"
  BY <1>1
<1>6. \A q \in Proc : state'[q] # "failed"
  <2>1. state'[p] # "failed"
    BY <1>5 DEF Moves, Proc
  <2>2. \A q \in Proc \ {p} : state'[q] # "failed"
    BY DEF Moves, InDeadlock
  <2>. QED  BY <2>1, <2>2
<1>7. \A q \in Proc : claims[q] \subseteq claims'[q]
  BY DEF Moves
<1>8. (ip["parent"] > 5 \/ ip["child"] > 3) => claims["parent"] # {} /\ claims["child"] # {}
  BY <1>2, <1>3 DEF InDeadlock
<1>9. LockBlocks(p) => claims["parent"] # {} /\ claims["child"] # {}
  <2>1. ASSUME LockBlocks("parent") PROVE ip["parent"] > 5
    <3>1. AtOp("parent", "writew_lock") /\ ~Free("parent", Arg("parent"))
      BY <2>1 DEF LockBlocks, At, AtOp, InCode
    <3>2. ip["parent"] = 3 => owner[1] = "child"
      BY <1>1, <1>2, <3>1 DEF Free, Proc
    <3>. QED  BY <1>1, <1>2, <1>3, <3>1, <3>2 DEF InDeadlock
  <2>2. ASSUME LockBlocks("child") PROVE ip["child"] > 3
    <3>1. AtOp("child", "writew_lock") /\ ~Free("child", Arg("child"))
      BY <2>2 DEF LockBlocks, At, AtOp, InCode
    <3>2. ip["child"] = 1 => owner[0] = "parent"
      BY <1>1, <1>2, <3>1 DEF Free, Proc
    <3>. QED  BY <1>1, <1>2, <1>3, <3>1, <3>2 DEF InDeadlock
  <2>. QED  BY <1>8, <2>1, <2>2 DEF Proc
<1>10. BothHaveOne'
  <2>1. SUFFICES ASSUME NEW q \in Proc, blockedOn'[q] # {}
                 PROVE  claims'["parent"] # {} /\ claims'["child"] # {}
    BY DEF BothHaveOne, Proc
  <2>2. blockedOn[q] # {} \/ LockBlocks(p)
    BY <2>1 DEF Moves
  <2>3. claims["parent"] # {} /\ claims["child"] # {}
    BY <1>9, <2>2 DEF InDeadlock, BothHaveOne
  <2>. QED  BY <1>7, <2>3
<1>11. CASE p = "parent"
  <2>1. /\ ip'["child"] = ip["child"] /\ returned'["child"] = returned["child"] /\ told'["parent"] = told["parent"]
        /\ told'["child"] = told["child"] \/ (ip["parent"] = 4 /\ ip'["parent"] = 5)
        /\ returned'["parent"] >= returned["parent"]
    BY <1>1, <1>11 DEF Moves, Steps, Peer
  <2>2. \/ ip'["parent"] = ip["parent"]
        \/ /\ ip'["parent"] = ip["parent"] + 1
           /\ ip["parent"] = 3 => claims'["parent"] # {}
           /\ ip["parent"] = 5 => returned'["parent"] >= 1
    <3>1. CASE ip'["parent"] = ip["parent"]
      BY <3>1
    <3>2. CASE ip'["parent"] # ip["parent"]
      <4>1. Steps("parent") /\ ip["parent"] <= 6
        BY <1>1, <1>11, <3>2 DEF Moves, Steps, InCode
      <4>. DEFINE o == code["parent"][ip["parent"]].op
      <4>2. AtOp("parent", o)
        BY <4>1 DEF Steps, AtOp
      <4>. HIDE DEF o
      <4>3. ip["parent"] = 3 => AtOp("parent", "writew_lock")
        BY <1>1, <4>2
      <4>4. ip["parent"] = 5 => AtOp("parent", "WAIT")
        BY <1>1, <4>2
      <4>. QED  BY <1>11, <3>2, <4>1, <4>3, <4>4 DEF Moves, Steps
    <3>. QED  BY <3>1, <3>2
  <2>3. owner'[0] = "parent" => owner[0] = "parent" \/ (ip["parent"] = 6 /\ ip'["parent"] = 7)
    BY <1>1, <1>11 DEF Moves, Steps
  <2>4. owner'[1] = "child" => owner[1] = "child"
    BY <1>1, <1>11 DEF Moves
  <2>. QED  BY <1>2, <1>4, <1>6, <1>7, <1>10, <2>1, <2>2, <2>3, <2>4 DEF InDeadlock
<1>12. CASE p = "child"
  <2>1. /\ ip'["parent"] = ip["parent"] /\ returned'["parent"] = returned["parent"] /\ told'["child"] = told["child"]
        /\ told'["parent"] = told["parent"] \/ (ip["child"] = 2 /\ ip'["child"] = 3)
        /\ returned'["child"] >= returned["child"]
    BY <1>1, <1>12 DEF Moves, Steps, Peer
  <2>2. \/ ip'["child"] = ip["child"]
        \/ /\ ip'["child"] = ip["child"] + 1
           /\ ip["child"] = 1 => claims'["child"] # {}
           /\ ip["child"] = 3 => returned'["child"] >= 1
    <3>1. CASE ip'["child"] = ip["child"]
      BY <3>1
    <3>2. CASE ip'["child"] # ip["child"]
      <4>1. Steps("child") /\ ip["child"] <= 4
        BY <1>1, <1>12, <3>2 DEF Moves, Steps, InCode
      <4>. DEFINE o == code["child"][ip["child"]].op
      <4>2. AtOp("child", o)
        BY <4>1 DEF Steps, AtOp
      <4>. HIDE DEF o
      <4>3. ip["child"] = 1 => AtOp("child", "writew_lock")
        BY <1>1, <4>2
      <4>4. ip["child"] = 3 => AtOp("child", "WAIT")
        BY <1>1, <4>2
      <4>. QED  BY <1>12, <3>2, <4>1, <4>3, <4>4 DEF Moves, Steps
    <3>. QED  BY <3>1, <3>2
  <2>3. owner'[1] = "child" => owner[1] = "child" \/ (ip["child"] = 4 /\ ip'["child"] = 5)
    BY <1>1, <1>12 DEF Moves, Steps
  <2>4. owner'[0] = "parent" => owner[0] = "parent"
    BY <1>1, <1>12 DEF Moves
  <2>. QED  BY <1>2, <1>4, <1>6, <1>7, <1>10, <2>1, <2>2, <2>3, <2>4 DEF InDeadlock
<1>. QED  BY <1>11, <1>12 DEF Proc

-----------------------------------------------------------------------------
(* At the start no lock is taken and nobody was told.                      *)
LEMMA CaseStart == Init => CaseInv
<1>. SUFFICES ASSUME Init PROVE CaseInv
  OBVIOUS
<1>. USE Names
<1>1. NoFailure /\ BothHaveOne /\ (\A p \in Proc : state[p] # "failed" /\ state[p] # "killed")
  BY DEF Init, NoFailure, BothHaveOne
<1>2. \A b \in Byte : owner[b] = "none"
  BY DEF Init
<1>3. /\ \A p \in Proc : ip[p] = 1 /\ told[p] = 0
      /\ state["parent"] = "run" /\ code \in Codes
  BY DEF Init
<1>4. SignalTypes
  BY TokenStart DEF TokenInv
<1>5. code = LockCode => InLock
  <2>1. code = LockCode => 0 \in Byte
    BY <1>4, LockOpsOf
  <2>. QED  BY <1>1, <1>2, <1>3, <2>1 DEF InLock
<1>6. code = DeadlockCode => InDeadlock
  <2>1. code = DeadlockCode => 0 \in Byte /\ 1 \in Byte
    BY <1>4, DeadlockOpsOf
  <2>. QED  BY <1>1, <1>2, <1>3, <2>1 DEF InDeadlock
<1>. QED  BY <1>1, <1>5, <1>6 DEF CaseInv

(* Every step keeps each program where its locks need it.                  *)
LEMMA CaseStep == TokenInv /\ TokenInv' /\ CaseInv /\ [Next]_vars => CaseInv'
<1>. SUFFICES ASSUME TokenInv, TokenInv', CaseInv, [Next]_vars PROVE CaseInv'
  OBVIOUS
<1>1. CASE UNCHANGED vars
  BY <1>1 DEF vars, CaseInv, LockFree, OpOf, NoFailure, InLock, InDeadlock, BothHaveOne
<1>2. CASE Next
  <2>1. PICK p \in Proc : (Run(p) \/ \E s \in Sigs : Deliver(p, s)) /\ UNCHANGED code
    BY <1>2 DEF Next
  <2>2. Moves(p) /\ SignalTypes
    BY <2>1, MovesHold DEF TokenInv
  <2>3. LockFree(code') => NoFailure'
    BY <2>1, <2>2, LockFreeKept DEF CaseInv
  <2>4. code' = LockCode => InLock'
    BY <2>1, <2>2, InLockKept DEF CaseInv
  <2>5. code' = DeadlockCode => InDeadlock'
    BY <2>1, <2>2, InDeadlockKept DEF CaseInv
  <2>. QED  BY <2>3, <2>4, <2>5 DEF CaseInv
<1>. QED  BY <1>1, <1>2

(* WAIT_PARENT() and WAIT_CHILD() return only after the other process has  *)
(* told, once for each time it did; and the two programs that use them to  *)
(* order their record locks find the locks taken in that order.            *)
THEOREM WaitReturnsWhenTold ==
    ASSUME \A c \in Codes : ForkOnce(c) /\ LocksKnown(c)
    PROVE  Spec => []WaitAfterTell
<1>. DEFINE I == TokenInv /\ CaseInv
<1>1. Init => I
  BY TokenStart, CaseStart
<1>2. I /\ [Next]_vars => I'
  BY TokenStep, CaseStep
<1>3. I => WaitAfterTell
  <2>. SUFFICES ASSUME TokenInv, CaseInv PROVE WaitAfterTell
    OBVIOUS
  <2>1. \A p \in Proc : returned[p] <= told[p]
    <3>1. TAKE p \in Proc
    <3>2. Owed(p) \in Nat /\ returned[p] \in Nat /\ told[p] \in Nat
      BY DEF Owed, Unit, TokenInv, SignalTypes
    <3>3. returned[p] + Owed(p) <= told[p]
      BY DEF TokenInv, Tokens
    <3>. QED  BY <3>2, <3>3
  <2>2. LockFree(code) \/ code = LockCode \/ code = DeadlockCode
    BY DEF TokenInv, SignalTypes, LocksKnown
  <2>3. ReadLockRefused /\ BothHaveOne
    BY <2>2 DEF CaseInv, NoFailure, InLock, InDeadlock, ReadLockRefused, BothHaveOne
  <2>. QED  BY <2>1, <2>3 DEF WaitAfterTell
<1>. QED  BY <1>1, <1>2, <1>3, PTL DEF Spec
=============================================================================
