---------------------------- MODULE SemaphProofs ----------------------------
(***************************************************************************)
(* Proofs about Semaph: the mutual exclusion that sem_create()             *)
(* and sem_close() build out of member 2, the exactness of the process     *)
(* counter in member 1, and that the library implements the counting       *)
(* semaphore of SemaphAbs.                                                 *)
(***************************************************************************)
EXTENDS MCSemaph, FiniteSetTheorems, WellFoundedInduction, TLAPS

-----------------------------------------------------------------------------
(* The operation arrays.                                                   *)

OpArray == [zero : SUBSET Member, delta : [Member -> Int], undo : SUBSET Member]

(* The entries of a Delta are its three arguments.                         *)
LEMMA DeltaValue ==
    ASSUME NEW v \in Int, NEW c \in Int, NEW l \in Int
    PROVE  /\ Delta(v, c, l) \in [Member -> Int]
           /\ Delta(v, c, l)[Value] = v
           /\ Delta(v, c, l)[Count] = c
           /\ Delta(v, c, l)[Lock] = l
BY DEF Delta, Member, Value, Count, Lock

(* Every array given to semop() is well formed.                            *)
LEMMA OpArrayType ==
    ASSUME NEW v \in Int
    PROVE  /\ op_lock \in OpArray  /\ op_endcreate \in OpArray
           /\ op_open \in OpArray  /\ op_close \in OpArray
           /\ op_unlock \in OpArray /\ op_op(v) \in OpArray
<1>1. Lock \in Member
  BY DEF Member, Lock
<1> QED
  BY <1>1, DeltaValue DEF op_lock, op_endcreate, op_open, op_close, op_unlock, op_op, OpArray

(* What the arrays do to the counter and to the lock.                      *)
LEMMA OpArrayEffect ==
    ASSUME NEW v \in Int
    PROVE  /\ op_lock.undo = Member /\ op_endcreate.undo = Member
           /\ op_open.undo = Member /\ op_close.undo = Member
           /\ op_unlock.undo = Member /\ op_op(v).undo = Member
           /\ op_lock.delta[Count] = 0 /\ op_lock.delta[Lock] = 1
           /\ op_endcreate.delta[Count] = -1 /\ op_endcreate.delta[Lock] = -1
           /\ op_open.delta[Count] = -1 /\ op_open.delta[Lock] = 0
           /\ op_close.delta[Count] = 1 /\ op_close.delta[Lock] = 1
           /\ op_unlock.delta[Count] = 0 /\ op_unlock.delta[Lock] = -1
           /\ op_op(v).delta[Count] = 0 /\ op_op(v).delta[Lock] = 0
           /\ Lock \in op_lock.zero /\ Lock \in op_close.zero
BY DeltaValue DEF op_lock, op_endcreate, op_open, op_close, op_unlock, op_op

(* What a completed semop() does to the kernel's state.                    *)
LEMMA SemopEffect ==
    ASSUME TypeOK, NEW p \in Proc, NEW op \in OpArray, NEW from, NEW to \in PCs,
           Semop(p, op, from, to)
    PROVE  /\ pc[p] = from /\ id[p] = "live"
           /\ \A m \in op.zero : sem[m] = 0
           /\ sem' \in [Member -> Nat]
           /\ \A m \in Member : sem'[m] = sem[m] + op.delta[m]
           /\ adj' \in [Proc -> [Member -> Int]]
           /\ \A q \in Proc \ {p} : adj'[q] = adj[q]
           /\ \A m \in op.undo : adj'[p][m] = adj[p][m] - op.delta[m]
           /\ asleep' \in SUBSET Proc
           /\ pc' \in [Proc -> PCs] /\ pc'[p] = to
           /\ \A q \in Proc \ {p} : pc'[q] = pc[q]
<1>1. op.delta \in [Member -> Int] /\ op.zero \in SUBSET Member /\ op.undo \in SUBSET Member
  BY DEF OpArray
<1>2. /\ pc[p] = from /\ id[p] = "live"
      /\ \A m \in op.zero : sem[m] = 0
      /\ \A m \in Member : sem[m] + op.delta[m] >= 0
  BY DEF Semop, CanDo
<1>3. sem' = [m \in Member |-> sem[m] + op.delta[m]]
  BY DEF Semop
<1>4. sem' \in [Member -> Nat]
  <2> SUFFICES ASSUME NEW m \in Member PROVE sem[m] + op.delta[m] \in Nat
    BY <1>3
  <2> QED BY <1>1, <1>2 DEF TypeOK
<1>5. /\ adj' \in [Proc -> [Member -> Int]]
      /\ \A q \in Proc \ {p} : adj'[q] = adj[q]
      /\ \A m \in op.undo : adj'[p][m] = adj[p][m] - op.delta[m]
  <2> DEFINE a == [m \in Member |-> adj[p][m] - IF m \in op.undo THEN op.delta[m] ELSE 0]
  <2>1. adj' = [adj EXCEPT ![p] = a]
    BY DEF Semop
  <2>2. a \in [Member -> Int]
    BY <1>1 DEF TypeOK
  <2>3. \A m \in op.undo : a[m] = adj[p][m] - op.delta[m]
    BY <1>1
  <2> HIDE DEF a
  <2> QED BY <2>1, <2>2, <2>3 DEF TypeOK
<1>6. asleep' \in SUBSET Proc
  BY DEF Semop, TypeOK
<1>7. /\ pc' \in [Proc -> PCs] /\ pc'[p] = to
      /\ \A q \in Proc \ {p} : pc'[q] = pc[q]
  BY DEF Semop, TypeOK
<1> QED BY <1>1, <1>2, <1>3, <1>4, <1>5, <1>6, <1>7

(* What a call of semop() does to members 0 and 1, to the adjust values of *)
(* its caller and to the place where the caller is.                        *)
Moves(p, from, to, v, c) ==
    /\ pc[p] = from /\ id[p] = "live" /\ pc'[p] = to /\ alive' = alive
    /\ \A q \in Proc \ {p} : pc'[q] = pc[q] /\ adj'[q] = adj[q]
    /\ sem' \in [Member -> Nat]
    /\ sem'[Value] = sem[Value] + v /\ sem'[Count] = sem[Count] + c
    /\ adj'[p][Value] = adj[p][Value] - v /\ adj'[p][Count] = adj[p][Count] - c

LEMMA SemopMoves ==
    ASSUME TypeOK, NEW p \in Proc, NEW op \in OpArray, NEW from, NEW to \in PCs,
           NEW v, NEW c, op.undo = Member, op.delta[Value] = v, op.delta[Count] = c,
           Semop(p, op, from, to), alive' = alive
    PROVE  Moves(p, from, to, v, c)
<1>1. Value \in Member /\ Count \in Member
  BY DEF Member, Value, Count
<1> QED
  BY <1>1, SemopEffect DEF Moves

(* Only the array of sem_op() changes member 0.                            *)
LEMMA ArrayValue ==
    ASSUME NEW v \in Int
    PROVE  /\ op_lock.delta[Value] = 0 /\ op_endcreate.delta[Value] = 0
           /\ op_open.delta[Value] = 0 /\ op_close.delta[Value] = 0
           /\ op_unlock.delta[Value] = 0 /\ op_op(v).delta[Value] = v
BY DeltaValue DEF op_lock, op_endcreate, op_open, op_close, op_unlock, op_op

(* The six calls of the library.                                           *)
LEMMA CallMoves ==
    ASSUME TypeOK, NEW p \in Proc
    PROVE  /\ CreateLock(p) => Moves(p, "c_lock", "c_getval", 0, 0) /\ id' = id /\ sem[Lock] = 0
           /\ CreateEnd(p) => Moves(p, "c_end", "open", 0, -1) /\ id' = id
           /\ OpenDec(p) => Moves(p, "o_dec", "open", 0, -1) /\ id' = id
           /\ OpDo(p) => Moves(p, "op", "open", amt[p], 0) /\ id' = id
           /\ CloseLock(p) => Moves(p, "x_lock", "x_getval", 0, 1) /\ id' = id /\ sem[Lock] = 0
           /\ CloseUnlock(p) => Moves(p, "x_unlock", "idle", 0, 0)
<1>1. {"c_getval", "open", "x_getval", "idle"} \subseteq PCs
  BY DEF PCs
<1>2. 0 \in Int
  OBVIOUS
<1>3. ASSUME CreateLock(p) PROVE Moves(p, "c_lock", "c_getval", 0, 0) /\ id' = id /\ sem[Lock] = 0
  <2>1. Semop(p, op_lock, "c_lock", "c_getval") /\ alive' = alive /\ id' = id
    BY <1>3 DEF CreateLock
  <2>2. sem[Lock] = 0
    BY <1>2, <2>1, OpArrayEffect DEF Semop, CanDo
  <2> QED
    BY <1>1, <1>2, <2>1, <2>2, SemopMoves, OpArrayType, OpArrayEffect, ArrayValue
<1>4. ASSUME CreateEnd(p) PROVE Moves(p, "c_end", "open", 0, -1) /\ id' = id
  <2>1. Semop(p, op_endcreate, "c_end", "open") /\ alive' = alive /\ id' = id
    BY <1>4 DEF CreateEnd
  <2> QED
    BY <1>1, <1>2, <2>1, SemopMoves, OpArrayType, OpArrayEffect, ArrayValue
<1>5. ASSUME OpenDec(p) PROVE Moves(p, "o_dec", "open", 0, -1) /\ id' = id
  <2>1. Semop(p, op_open, "o_dec", "open") /\ alive' = alive /\ id' = id
    BY <1>5 DEF OpenDec
  <2> QED
    BY <1>1, <1>2, <2>1, SemopMoves, OpArrayType, OpArrayEffect, ArrayValue
<1>6. ASSUME OpDo(p) PROVE Moves(p, "op", "open", amt[p], 0) /\ id' = id
  <2>1. Semop(p, op_op(amt[p]), "op", "open") /\ alive' = alive /\ id' = id
    BY <1>6 DEF OpDo
  <2>2. amt[p] \in Int
    BY DEF TypeOK
  <2> QED
    BY <1>1, <2>1, <2>2, SemopMoves, OpArrayType, OpArrayEffect, ArrayValue
<1>7. ASSUME CloseLock(p) PROVE Moves(p, "x_lock", "x_getval", 0, 1) /\ id' = id /\ sem[Lock] = 0
  <2>1. Semop(p, op_close, "x_lock", "x_getval") /\ alive' = alive /\ id' = id
    BY <1>7 DEF CloseLock
  <2>2. sem[Lock] = 0
    BY <1>2, <2>1, OpArrayEffect DEF Semop, CanDo
  <2> QED
    BY <1>1, <1>2, <2>1, <2>2, SemopMoves, OpArrayType, OpArrayEffect, ArrayValue
<1>8. ASSUME CloseUnlock(p) PROVE Moves(p, "x_unlock", "idle", 0, 0)
  <2>1. Semop(p, op_unlock, "x_unlock", "idle") /\ alive' = alive
    BY <1>8 DEF CloseUnlock
  <2> QED
    BY <1>1, <1>2, <2>1, SemopMoves, OpArrayType, OpArrayEffect, ArrayValue
<1> QED
  BY <1>3, <1>4, <1>5, <1>6, <1>7, <1>8

(* What the exit of a process does.                                        *)
LEMMA DieEffect ==
    ASSUME TypeOK, NEW p \in Proc, Die(p)
    PROVE  /\ TypeOK'
           /\ alive' = alive
           /\ \A m \in Member : sem'[m] = IF sem[m] + adj[p][m] < 0 THEN 0
                                          ELSE sem[m] + adj[p][m]
           /\ adj'[p] = Zeros /\ id'[p] = "none" /\ pc'[p] = "dead"
           /\ \A q \in Proc \ {p} : adj'[q] = adj[q] /\ id'[q] = id[q] /\ pc'[q] = pc[q]
<1>1. Zeros \in [Member -> Int]
  BY DEF Zeros
<1>2. sem' \in [Member -> Nat]
  BY DEF Die, TypeOK
<1>3. adj' \in [Proc -> [Member -> Int]] /\ adj'[p] = Zeros
  BY <1>1 DEF Die, TypeOK
<1>4. id' \in [Proc -> IDs] /\ pc' \in [Proc -> PCs]
  BY DEF Die, TypeOK, IDs, PCs
<1>5. alive' \in BOOLEAN /\ asleep' \in SUBSET Proc
      /\ amt' \in [Proc -> Int] /\ held' \in [Proc -> Int]
  BY DEF Die, TypeOK
<1>6. TypeOK'
  BY <1>2, <1>3, <1>4, <1>5 DEF TypeOK
<1>7. \A q \in Proc \ {p} : adj'[q] = adj[q] /\ id'[q] = id[q] /\ pc'[q] = pc[q]
  BY DEF Die, TypeOK
<1>8. \A m \in Member : sem'[m] = IF sem[m] + adj[p][m] < 0 THEN 0 ELSE sem[m] + adj[p][m]
  BY DEF Die
<1>9. alive' = alive /\ id'[p] = "none" /\ pc'[p] = "dead"
  BY DEF Die, TypeOK
<1> QED BY <1>3, <1>6, <1>7, <1>8, <1>9

(* What the removal of the set does.                                       *)
LEMMA RmidEffect ==
    ASSUME TypeOK, NEW p \in Proc, Rmid(p)
    PROVE  /\ alive' = FALSE /\ sem' = Zeros /\ sem' \in [Member -> Nat]
           /\ adj' = [q \in Proc |-> Zeros] /\ adj' \in [Proc -> [Member -> Int]]
           /\ id' \in [Proc -> IDs] /\ id'[p] = "none"
           /\ \A q \in Proc : id'[q] # "live"
           /\ \A q \in Proc : id[q] = "none" => id'[q] = "none"
<1>1. Zeros \in [Member -> Nat] /\ Zeros \in [Member -> Int]
  BY DEF Zeros
<1>2. id' \in [Proc -> IDs] /\ id'[p] = "none"
      /\ (\A q \in Proc : id'[q] # "live")
      /\ (\A q \in Proc : id[q] = "none" => id'[q] = "none")
  BY DEF Rmid, TypeOK, IDs
<1> QED BY <1>1, <1>2 DEF Rmid

-----------------------------------------------------------------------------
(* Types.                                                                  *)

LEMMA InitTypeOK == Init => TypeOK
<1>1. Zeros \in [Member -> Nat] /\ Zeros \in [Member -> Int]
  BY DEF Zeros
<1> SUFFICES ASSUME Init PROVE TypeOK
  OBVIOUS
<1>2. alive \in BOOLEAN /\ sem \in [Member -> Nat] /\ adj \in [Proc -> [Member -> Int]]
  BY <1>1 DEF Init
<1>3. id \in [Proc -> IDs] /\ pc \in [Proc -> PCs]
  BY DEF Init, IDs, PCs
<1>4. asleep \in SUBSET Proc /\ amt \in [Proc -> Int] /\ held \in [Proc -> Int]
  BY DEF Init
<1> QED
  BY <1>2, <1>3, <1>4 DEF TypeOK

(* A semop() step that leaves amt and held alone preserves the types.      *)
LEMMA SemopType ==
    ASSUME TypeOK, NEW p \in Proc, NEW op \in OpArray, NEW from, NEW to \in PCs,
           Semop(p, op, from, to), alive' = alive, id' \in [Proc -> IDs],
           amt' \in [Proc -> Int], held' \in [Proc -> Int]
    PROVE  TypeOK'
BY SemopEffect DEF TypeOK

(* A removal preserves the types.                                          *)
LEMMA RmidType ==
    ASSUME TypeOK, NEW p \in Proc, Rmid(p), Goto(p, "idle"),
           asleep' = asleep, amt' = amt, held' \in [Proc -> Int]
    PROVE  TypeOK'
BY RmidEffect DEF TypeOK, Goto, PCs

(* A SETVAL preserves the types.                                           *)
LEMMA SetvalType ==
    ASSUME TypeOK, NEW m \in Member, NEW v \in Nat, Setval(m, v)
    PROVE  sem' \in [Member -> Nat] /\ adj' \in [Proc -> [Member -> Int]]
BY DEF Setval, TypeOK

(* The steps inside a library call preserve the types.                     *)
LEMMA InCallType ==
    ASSUME TypeOK, NEW p \in Proc, InCall(p)
    PROVE  TypeOK'
<1>0. 0 \in Int
  OBVIOUS
<1>1. CASE CreateGet(p)
  BY <1>1 DEF CreateGet, Goto, TypeOK, IDs, PCs
<1>2. CASE CreateLock(p)
  BY <1>0, <1>2, OpArrayType, SemopType DEF CreateLock, TypeOK, PCs
<1>3. CASE CreateAgain(p)
  BY <1>3 DEF CreateAgain, Goto, TypeOK, IDs, PCs
<1>4. CASE CreateGetval(p)
  BY <1>4 DEF CreateGetval, Goto, TypeOK, PCs
<1>5. CASE CreateSetval0(p)
  <2>1. Value \in Member
    BY DEF Value, Member
  <2> QED
    BY <1>5, <2>1, SetvalType, SemaphAssumption DEF CreateSetval0, Goto, TypeOK, PCs
<1>6. CASE CreateSetval1(p)
  <2>1. Count \in Member
    BY DEF Count, Member
  <2> QED
    BY <1>6, <2>1, SetvalType, SemaphAssumption DEF CreateSetval1, Goto, TypeOK, PCs
<1>7. CASE CreateEnd(p)
  BY <1>0, <1>7, OpArrayType, SemopType DEF CreateEnd, TypeOK, PCs
<1>8. CASE OpenDec(p)
  BY <1>0, <1>8, OpArrayType, SemopType DEF OpenDec, TypeOK, PCs
<1>9. CASE OpDo(p)
  <2>1. amt[p] \in Int /\ held[p] \in Int
    BY DEF TypeOK
  <2>2. amt' \in [Proc -> Int] /\ held' \in [Proc -> Int]
    BY <1>9, <2>1 DEF OpDo, TypeOK
  <2> QED
    BY <1>9, <2>1, <2>2, OpArrayType, SemopType DEF OpDo, TypeOK, PCs
<1>10. CASE CloseLock(p)
  BY <1>0, <1>10, OpArrayType, SemopType DEF CloseLock, TypeOK, PCs
<1>11. CASE CloseGetval(p)
  BY <1>11 DEF CloseGetval, Goto, TypeOK, PCs
<1>12. CASE CloseDump(p)
  BY <1>12, DieEffect DEF CloseDump
<1>13. CASE CloseRm(p)
  BY <1>13, RmidType DEF CloseRm, TypeOK
<1>14. CASE CloseUnlock(p)
  <2>1. id' \in [Proc -> IDs]
    BY <1>14 DEF CloseUnlock, TypeOK, IDs
  <2> QED
    BY <1>0, <1>14, <2>1, OpArrayType, SemopType DEF CloseUnlock, TypeOK, PCs
<1>15. CASE SysError(p)
  BY <1>15, DieEffect DEF SysError
<1>16. CASE Sleep(p)
  BY <1>16 DEF Sleep, Blocks, TypeOK
<1> QED
  BY <1>1, <1>2, <1>3, <1>4, <1>5, <1>6, <1>7, <1>8, <1>9, <1>10, <1>11, <1>12,
     <1>13, <1>14, <1>15, <1>16 DEF InCall, Create, Close

(* So do the steps of the client's program.                                *)
LEMMA ClientType ==
    ASSUME TypeOK, NEW p \in Proc, Client(p)
    PROVE  TypeOK'
<1>1. CASE CreateCall(p)
  BY <1>1 DEF CreateCall, Goto, TypeOK, PCs
<1>2. CASE OpenCall(p)
  BY <1>2 DEF OpenCall, Goto, TypeOK, IDs, PCs
<1>3. CASE OpCall(p)
  BY <1>3, SemaphAssumption DEF OpCall, Goto, TypeOK, PCs
<1>4. CASE OpZero(p)
  BY <1>4, DieEffect DEF OpZero
<1>5. CASE CloseCall(p)
  BY <1>5 DEF CloseCall, Goto, TypeOK, PCs
<1>6. CASE RmCall(p)
  <2>1. held' \in [Proc -> Int]
    BY <1>6 DEF RmCall, TypeOK
  <2> QED
    BY <1>6, <2>1, RmidType DEF RmCall
<1>7. CASE RmError(p)
  BY <1>7, DieEffect DEF RmError
<1> QED
  BY <1>1, <1>2, <1>3, <1>4, <1>5, <1>6, <1>7 DEF Client

LEMMA NextTypeOK == TypeOK /\ [Next]_vars => TypeOK'
<1> SUFFICES ASSUME TypeOK, [Next]_vars PROVE TypeOK'
  OBVIOUS
<1>1. ASSUME NEW p \in Proc, Exit(p) PROVE TypeOK'
  BY <1>1, DieEffect DEF Exit
<1>2. ASSUME NEW p \in Proc, Restart(p) PROVE TypeOK'
  BY <1>2 DEF Restart, Goto, TypeOK, PCs
<1>3. CASE UNCHANGED vars
  BY <1>3 DEF vars, TypeOK
<1> QED
  BY <1>1, <1>2, <1>3, InCallType, ClientType DEF Next

-----------------------------------------------------------------------------
(* The lock.                                                               *)

LEMMA InitLockInv == Init => LockInv
<1> SUFFICES ASSUME Init PROVE LockInv
  OBVIOUS
<1>1. \A p \in Proc : id[p] = "none" /\ ~InLock(p)
  BY DEF Init, InLock
<1>2. Zeros[Lock] = 0
  BY DEF Zeros, Member, Lock
<1>3. IdKnown
  BY <1>1 DEF Init, IdKnown
<1>4. LockUndo /\ LockValue /\ LockExclusion
  BY <1>1, <1>2 DEF Init, LockUndo, LockValue, LockExclusion
<1> QED
  BY <1>3, <1>4, InitTypeOK DEF LockInv

LockPart == LockUndo /\ LockValue /\ LockExclusion

(* A step that moves nobody into or out of the lock and leaves member 2    *)
(* and its adjust values alone.                                            *)
LEMMA LockKept ==
    ASSUME LockInv, sem'[Lock] = sem[Lock],
           \A q \in Proc : adj'[q][Lock] = adj[q][Lock],
           \A q \in Proc : InLock(q)' <=> InLock(q)
    PROVE  LockPart'
BY DEF LockInv, LockPart, LockUndo, LockValue, LockExclusion

(* p takes the lock: it was free.                                          *)
LEMMA LockTaken ==
    ASSUME LockInv, NEW p \in Proc, ~InLock(p), InLock(p)',
           sem[Lock] = 0, sem'[Lock] = 1,
           adj'[p][Lock] = adj[p][Lock] - 1,
           \A q \in Proc \ {p} : adj'[q][Lock] = adj[q][Lock],
           \A q \in Proc \ {p} : InLock(q)' <=> InLock(q)
    PROVE  LockPart'
<1>1. \A q \in Proc : ~InLock(q)
  BY DEF LockInv, LockValue
<1>2. \A q \in Proc \ {p} : ~InLock(q)'
  BY <1>1
<1>3. LockUndo'
  BY <1>1, <1>2 DEF LockInv, LockUndo
<1> QED
  BY <1>2, <1>3 DEF LockPart, LockValue, LockExclusion

(* p gives the lock back, or exits while it has it.                        *)
LEMMA LockReleased ==
    ASSUME LockInv, NEW p \in Proc, InLock(p), ~InLock(p)',
           sem'[Lock] = sem[Lock] - 1,
           adj'[p][Lock] = 0,
           \A q \in Proc \ {p} : adj'[q][Lock] = adj[q][Lock],
           \A q \in Proc \ {p} : InLock(q)' <=> InLock(q)
    PROVE  LockPart'
<1>1. sem[Lock] = 1 /\ \A q \in Proc \ {p} : ~InLock(q)
  BY DEF LockInv, LockValue, LockExclusion
<1>2. \A q \in Proc : ~InLock(q)'
  BY <1>1
<1>3. LockUndo'
  BY <1>2 DEF LockInv, LockUndo
<1> QED
  BY <1>1, <1>2, <1>3 DEF LockPart, LockValue, LockExclusion

(* The set is removed: nobody can be inside its lock.                      *)
LEMMA LockRemoved ==
    ASSUME LockInv, NEW p \in Proc, Rmid(p), Goto(p, "idle")
    PROVE  LockPart' /\ IdKnown'
<1>1. /\ \A q \in Proc : id'[q] # "live"
      /\ id'[p] = "none" /\ sem' = Zeros /\ adj' = [q \in Proc |-> Zeros]
      /\ \A q \in Proc : id[q] = "none" => id'[q] = "none"
  BY RmidEffect DEF LockInv
<1>2. \A q \in Proc : ~InLock(q)'
  BY <1>1 DEF InLock
<1>3. Zeros[Lock] = 0
  BY DEF Zeros, Member, Lock
<1>4. LockPart'
  BY <1>1, <1>2, <1>3 DEF LockPart, LockUndo, LockValue, LockExclusion
<1>5. \A q \in Proc \ {p} : pc'[q] = pc[q]
  BY DEF Goto, LockInv, TypeOK
<1>6. IdKnown'
  BY <1>1, <1>5 DEF IdKnown, LockInv
<1> QED
  BY <1>4, <1>6

(* A process exits: the kernel's adjustment releases the lock it held.     *)
LEMMA LockDie ==
    ASSUME LockInv, NEW p \in Proc, Die(p)
    PROVE  LockPart' /\ IdKnown'
<1>1. /\ alive' = alive
      /\ \A m \in Member : sem'[m] = IF sem[m] + adj[p][m] < 0 THEN 0
                                     ELSE sem[m] + adj[p][m]
      /\ adj'[p] = Zeros /\ id'[p] = "none" /\ pc'[p] = "dead"
      /\ \A q \in Proc \ {p} : adj'[q] = adj[q] /\ id'[q] = id[q] /\ pc'[q] = pc[q]
  BY DieEffect DEF LockInv
<1>2. ~InLock(p)' /\ \A q \in Proc \ {p} : InLock(q)' <=> InLock(q)
  BY <1>1 DEF InLock
<1>3. Lock \in Member /\ Zeros[Lock] = 0
  BY DEF Zeros, Member, Lock
<1>4. sem[Lock] \in Nat /\ adj[p][Lock] \in Int
  BY <1>3 DEF LockInv, TypeOK
<1>7. LockPart'
  <2>1. CASE InLock(p)
    <3>1. sem[Lock] = 1 /\ adj[p][Lock] = -1
      BY <2>1 DEF LockInv, LockValue, LockUndo
    <3>2. sem'[Lock] = sem[Lock] - 1
      BY <1>1, <1>3, <3>1
    <3> QED
      BY <1>1, <1>2, <1>3, <2>1, <3>2, LockReleased
  <2>2. CASE ~InLock(p)
    <3>1. adj[p][Lock] = 0
      BY <2>2 DEF LockInv, LockUndo
    <3>2. sem'[Lock] = sem[Lock]
      BY <1>1, <1>3, <1>4, <3>1
    <3> QED
      BY <1>1, <1>2, <1>3, <2>2, <3>1, <3>2, LockKept
  <2> QED
    BY <2>1, <2>2
<1>8. IdKnown'
  <2>1. ASSUME ~alive PROVE sem' = Zeros
    <3>1. sem = Zeros /\ adj[p] = Zeros /\ sem' \in [Member -> Nat]
      BY <2>1, DieEffect DEF LockInv, IdKnown, TypeOK
    <3>2. \A m \in Member : sem'[m] = 0
      BY <1>1, <3>1 DEF Zeros
    <3> QED
      BY <3>1, <3>2 DEF Zeros
  <2> QED
    BY <1>1, <2>1 DEF LockInv, IdKnown
<1> QED
  BY <1>7, <1>8

(* A step of p from one point outside the lock to another, or from one     *)
(* inside to another, that touches neither the IDs nor the kernel's state. *)
LEMMA LockGoto ==
    ASSUME LockInv, NEW p \in Proc, NEW to \in PCs, Goto(p, to),
           UNCHANGED <<alive, sem, adj, id>>,
           to \in {"idle", "c_get", "dead"} => id[p] = "none",
           InLock(p)' <=> InLock(p)
    PROVE  LockPart' /\ IdKnown'
<1>1. pc'[p] = to /\ \A q \in Proc \ {p} : pc'[q] = pc[q]
  BY DEF Goto, LockInv, TypeOK
<1>2. \A q \in Proc : InLock(q)' <=> InLock(q)
  BY <1>1 DEF InLock
<1>3. IdKnown'
  BY <1>1 DEF IdKnown, LockInv
<1> QED
  BY <1>2, <1>3, LockKept

(* A semop() on an existing set: what is left to show is what it does to   *)
(* the lock.                                                               *)
LEMMA LockSemop ==
    ASSUME LockInv, NEW p \in Proc, NEW op \in OpArray, NEW from, NEW to \in PCs,
           Semop(p, op, from, to), op.undo = Member, alive' = alive,
           \/ /\ op.delta[Lock] = 1 /\ Lock \in op.zero
              /\ ~InLock(p) /\ InLock(p)'
           \/ op.delta[Lock] = -1 /\ InLock(p) /\ ~InLock(p)'
           \/ op.delta[Lock] = 0 /\ ~InLock(p) /\ ~InLock(p)',
           \A q \in Proc \ {p} : id'[q] = id[q],
           to \in {"idle", "c_get", "dead"} => id'[p] = "none"
    PROVE  LockPart' /\ IdKnown'
<1>1. Lock \in Member
  BY DEF Member, Lock
<1>2. /\ id[p] = "live"
      /\ \A m \in op.zero : sem[m] = 0
      /\ sem'[Lock] = sem[Lock] + op.delta[Lock]
      /\ adj'[p][Lock] = adj[p][Lock] - op.delta[Lock]
      /\ \A q \in Proc \ {p} : adj'[q] = adj[q]
      /\ pc'[p] = to /\ \A q \in Proc \ {p} : pc'[q] = pc[q]
  BY <1>1, SemopEffect DEF LockInv
<1>3. \A q \in Proc \ {p} : InLock(q)' <=> InLock(q)
  BY <1>2 DEF InLock
<1>4. sem[Lock] \in Nat /\ adj[p][Lock] \in Int
  BY <1>1 DEF LockInv, TypeOK
<1>5. IdKnown'
  BY <1>2 DEF IdKnown, LockInv
<1>6. ASSUME op.delta[Lock] = 1, Lock \in op.zero, ~InLock(p), InLock(p)'
      PROVE  LockPart'
  <2>1. sem[Lock] = 0 /\ sem'[Lock] = 1 /\ adj'[p][Lock] = adj[p][Lock] - 1
    BY <1>2, <1>4, <1>6
  <2> QED
    BY <1>2, <1>3, <1>6, <2>1, LockTaken
<1>7. ASSUME op.delta[Lock] = -1, InLock(p), ~InLock(p)'
      PROVE  LockPart'
  <2>1. adj[p][Lock] = -1
    BY <1>7 DEF LockInv, LockUndo
  <2>2. sem'[Lock] = sem[Lock] - 1 /\ adj'[p][Lock] = 0
    BY <1>2, <1>4, <1>7, <2>1
  <2> QED
    BY <1>2, <1>3, <1>7, <2>2, LockReleased
<1>8. ASSUME op.delta[Lock] = 0, ~InLock(p), ~InLock(p)'
      PROVE  LockPart'
  <2>1. sem'[Lock] = sem[Lock] /\ adj'[p][Lock] = adj[p][Lock]
    BY <1>2, <1>4, <1>8
  <2> QED
    BY <1>2, <1>3, <1>8, <2>1, LockKept
<1> QED
  BY <1>5, <1>6, <1>7, <1>8

(* A SETVAL of another member.                                             *)
LEMMA LockSetval ==
    ASSUME LockInv, NEW p \in Proc, NEW m \in {Value, Count}, NEW v, Setval(m, v),
           NEW to \in PCs, Goto(p, to), to \notin {"idle", "c_get", "dead"},
           UNCHANGED <<alive, id>>, id[p] = "live", InLock(p)' <=> InLock(p)
    PROVE  LockPart' /\ IdKnown'
<1>1. /\ sem'[Lock] = sem[Lock]
      /\ \A q \in Proc : adj'[q][Lock] = adj[q][Lock]
  BY DEF Setval, LockInv, TypeOK, Member, Value, Count, Lock
<1>2. pc'[p] = to /\ \A q \in Proc \ {p} : pc'[q] = pc[q]
  BY DEF Goto, LockInv, TypeOK
<1>3. \A q \in Proc : InLock(q)' <=> InLock(q)
  BY <1>2 DEF InLock
<1>4. IdKnown'
  BY <1>2 DEF IdKnown, LockInv
<1> QED
  BY <1>1, <1>3, <1>4, LockKept

(* The steps inside a library call preserve the lock's invariant.          *)
LEMMA InCallLock ==
    ASSUME LockInv, NEW p \in Proc, InCall(p)
    PROVE  LockPart' /\ IdKnown'
<1>0. 0 \in Int /\ TypeOK
  BY DEF LockInv
<1>1. CASE CreateGet(p)
  <2>1. pc[p] = "c_get" /\ id[p] = "none" /\ UNCHANGED <<sem, adj>>
    BY <1>1 DEF CreateGet, LockInv, IdKnown
  <2>2. /\ pc'[p] \in {"c_lock", "idle"} /\ (pc'[p] = "idle" => id'[p] = "none")
        /\ \A q \in Proc \ {p} : pc'[q] = pc[q] /\ id'[q] = id[q]
        /\ ~alive' => ~alive /\ id' = id
    BY <1>0, <1>1, <2>1 DEF CreateGet, Goto, TypeOK
  <2>3. \A q \in Proc : InLock(q)' <=> InLock(q)
    BY <2>1, <2>2 DEF InLock
  <2>4. IdKnown'
    BY <2>1, <2>2 DEF IdKnown, LockInv
  <2> QED
    BY <2>1, <2>3, <2>4, LockKept
<1>2. CASE CreateLock(p)
  <2>1. ~InLock(p) /\ InLock(p)'
    BY <1>0, <1>2, OpArrayType, SemopEffect DEF CreateLock, InLock, PCs
  <2> QED
    BY <1>0, <1>2, <2>1, OpArrayType, OpArrayEffect, LockSemop DEF CreateLock, PCs
<1>3. CASE CreateAgain(p)
  <2>1. /\ pc[p] = "c_lock" /\ id[p] = "stale" /\ UNCHANGED <<alive, sem, adj>>
        /\ pc'[p] = "c_get" /\ id'[p] = "none"
        /\ \A q \in Proc \ {p} : pc'[q] = pc[q] /\ id'[q] = id[q]
    BY <1>0, <1>3 DEF CreateAgain, Goto, TypeOK
  <2>2. \A q \in Proc : InLock(q)' <=> InLock(q)
    BY <2>1 DEF InLock
  <2>3. IdKnown'
    BY <2>1 DEF IdKnown, LockInv
  <2> QED
    BY <2>1, <2>2, <2>3, LockKept
<1>4. CASE CreateGetval(p)
  <2>1. InLock(p) /\ InLock(p)'
    BY <1>0, <1>4 DEF CreateGetval, Goto, InLock, TypeOK
  <2> QED
    BY <1>4, <2>1, LockGoto DEF CreateGetval, PCs
<1>5. CASE CreateSetval0(p)
  <2>1. InLock(p) /\ InLock(p)'
    BY <1>0, <1>5 DEF CreateSetval0, Goto, InLock, TypeOK
  <2> QED
    BY <1>5, <2>1, LockSetval DEF CreateSetval0, PCs
<1>6. CASE CreateSetval1(p)
  <2>1. InLock(p) /\ InLock(p)'
    BY <1>0, <1>6 DEF CreateSetval1, Goto, InLock, TypeOK
  <2> QED
    BY <1>6, <2>1, LockSetval DEF CreateSetval1, PCs
<1>7. CASE CreateEnd(p)
  <2>1. InLock(p) /\ ~InLock(p)'
    BY <1>0, <1>7, OpArrayType, SemopEffect DEF CreateEnd, InLock, PCs
  <2> QED
    BY <1>0, <1>7, <2>1, OpArrayType, OpArrayEffect, LockSemop DEF CreateEnd, PCs
<1>8. CASE OpenDec(p)
  <2>1. ~InLock(p) /\ ~InLock(p)'
    BY <1>0, <1>8, OpArrayType, SemopEffect DEF OpenDec, InLock, PCs
  <2> QED
    BY <1>0, <1>8, <2>1, OpArrayType, OpArrayEffect, LockSemop DEF OpenDec, PCs
<1>9. CASE OpDo(p)
  <2>1. amt[p] \in Int
    BY <1>0 DEF TypeOK
  <2>2. ~InLock(p) /\ ~InLock(p)'
    BY <1>0, <1>9, <2>1, OpArrayType, SemopEffect DEF OpDo, InLock, PCs
  <2> QED
    BY <1>9, <2>1, <2>2, OpArrayType, OpArrayEffect, LockSemop DEF OpDo, PCs
<1>10. CASE CloseLock(p)
  <2>1. ~InLock(p) /\ InLock(p)'
    BY <1>0, <1>10, OpArrayType, SemopEffect DEF CloseLock, InLock, PCs
  <2> QED
    BY <1>0, <1>10, <2>1, OpArrayType, OpArrayEffect, LockSemop DEF CloseLock, PCs
<1>11. CASE CloseGetval(p)
  <2>1. InLock(p) /\ InLock(p)'
    BY <1>0, <1>11 DEF CloseGetval, Goto, InLock, TypeOK
  <2> QED
    BY <1>11, <2>1, LockGoto DEF CloseGetval, PCs
<1>12. CASE CloseDump(p)
  BY <1>12, LockDie DEF CloseDump
<1>13. CASE CloseRm(p)
  BY <1>13, LockRemoved DEF CloseRm
<1>14. CASE CloseUnlock(p)
  <2>1. id'[p] = "none" /\ \A q \in Proc \ {p} : id'[q] = id[q]
    BY <1>0, <1>14 DEF CloseUnlock, TypeOK
  <2>2. InLock(p) /\ ~InLock(p)'
    BY <1>0, <1>14, <2>1, OpArrayType, SemopEffect DEF CloseUnlock, InLock, PCs
  <2> QED
    BY <1>0, <1>14, <2>1, <2>2, OpArrayType, OpArrayEffect, LockSemop DEF CloseUnlock, PCs
<1>15. CASE SysError(p)
  BY <1>15, LockDie DEF SysError
<1>16. CASE Sleep(p)
  <2>1. UNCHANGED <<alive, sem, adj, id, pc>>
    BY <1>16 DEF Sleep, Blocks
  <2>2. (\A q \in Proc : InLock(q)' <=> InLock(q)) /\ IdKnown'
    BY <2>1 DEF InLock, IdKnown, LockInv
  <2> QED
    BY <2>1, <2>2, LockKept
<1> QED
  BY <1>1, <1>2, <1>3, <1>4, <1>5, <1>6, <1>7, <1>8, <1>9, <1>10, <1>11, <1>12,
     <1>13, <1>14, <1>15, <1>16 DEF InCall, Create, Close

(* So do the steps of the client's program.                                *)
LEMMA ClientLock ==
    ASSUME LockInv, NEW p \in Proc, Client(p)
    PROVE  LockPart' /\ IdKnown'
<1>0. TypeOK
  BY DEF LockInv
<1>1. CASE CreateCall(p)
  <2>1. ~InLock(p) /\ ~InLock(p)' /\ id[p] = "none"
    BY <1>0, <1>1 DEF CreateCall, Goto, InLock, TypeOK, LockInv, IdKnown
  <2> QED
    BY <1>1, <2>1, LockGoto DEF CreateCall, PCs
<1>2. CASE OpenCall(p)
  <2>1. /\ pc[p] = "idle" /\ alive /\ UNCHANGED <<alive, sem, adj>>
        /\ pc'[p] = "o_dec"
        /\ \A q \in Proc \ {p} : pc'[q] = pc[q] /\ id'[q] = id[q]
    BY <1>0, <1>2 DEF OpenCall, Goto, TypeOK
  <2>2. \A q \in Proc : InLock(q)' <=> InLock(q)
    BY <2>1 DEF InLock
  <2>3. IdKnown'
    BY <2>1 DEF IdKnown, LockInv
  <2> QED
    BY <2>1, <2>2, <2>3, LockKept
<1>3. CASE OpCall(p)
  <2>1. ~InLock(p) /\ ~InLock(p)'
    BY <1>0, <1>3 DEF OpCall, Goto, InLock, TypeOK
  <2> QED
    BY <1>3, <2>1, LockGoto DEF OpCall, PCs
<1>4. CASE OpZero(p)
  BY <1>4, LockDie DEF OpZero
<1>5. CASE CloseCall(p)
  <2>1. ~InLock(p) /\ ~InLock(p)'
    BY <1>0, <1>5 DEF CloseCall, Goto, InLock, TypeOK
  <2> QED
    BY <1>5, <2>1, LockGoto DEF CloseCall, PCs
<1>6. CASE RmCall(p)
  BY <1>6, LockRemoved DEF RmCall
<1>7. CASE RmError(p)
  BY <1>7, LockDie DEF RmError
<1> QED
  BY <1>1, <1>2, <1>3, <1>4, <1>5, <1>6, <1>7 DEF Client

LEMMA NextLockInv == LockInv /\ [Next]_vars => LockInv'
<1> SUFFICES ASSUME LockInv, [Next]_vars PROVE LockInv'
  OBVIOUS
<1>1. TypeOK'
  BY NextTypeOK DEF LockInv
<1>2. ASSUME NEW p \in Proc, Exit(p) PROVE LockPart' /\ IdKnown'
  BY <1>2, LockDie DEF Exit
<1>3. ASSUME NEW p \in Proc, Restart(p) PROVE LockPart' /\ IdKnown'
  <2>1. ~InLock(p) /\ ~InLock(p)' /\ id[p] = "none"
    BY <1>3 DEF Restart, Goto, InLock, TypeOK, LockInv, IdKnown
  <2> QED
    BY <1>3, <2>1, LockGoto DEF Restart, PCs
<1>4. CASE UNCHANGED vars
  <2>1. (\A q \in Proc : InLock(q)' <=> InLock(q)) /\ IdKnown'
    BY <1>4 DEF vars, InLock, IdKnown, LockInv
  <2>2. LockPart'
    BY <1>4, <2>1, LockKept DEF vars
  <2> QED
    BY <1>1, <2>1, <2>2 DEF LockInv, LockPart
<1> QED
  BY <1>1, <1>2, <1>3, <1>4, InCallLock, ClientLock DEF Next, LockInv, LockPart

(* The kernel's bookkeeping behind the lock, its value and the adjust      *)
(* values of the processes, always fits who is between semop() and release.*)
THEOREM LockState == Spec => []LockInv
<1>1. Init => LockInv
  BY InitLockInv
<1>2. LockInv /\ [Next]_vars => LockInv'
  BY NextLockInv
<1> QED
  BY <1>1, <1>2, PTL DEF Spec

(* The lock works for any number of processes, whichever of them create,   *)
(* open, close, remove or exit, and however large the counter starts.      *)
THEOREM Exclusion == Spec => []LockExclusion
<1>1. Init => LockInv
  BY InitLockInv
<1>2. LockInv /\ [Next]_vars => LockInv'
  BY NextLockInv
<1>3. LockInv => LockExclusion
  BY DEF LockInv
<1> QED
  BY <1>1, <1>2, <1>3, PTL DEF Spec

-----------------------------------------------------------------------------
(* The process counter, for fewer processes than its initial value.        *)

Attached == {p \in Proc : Counted(p)}

InSetval(p) == id[p] = "live" /\ pc[p] \in {"c_setval0", "c_setval1"}

LEMMA AttachedSize ==
    /\ IsFiniteSet(Attached) /\ Cardinality(Attached) \in Nat
    /\ Cardinality(Attached) <= Cardinality(Proc) /\ Cardinality(Proc) \in Nat
    /\ Cardinality(Attached) = 0 <=> Attached = {}
<1>1. Attached \in SUBSET Proc
  BY DEF Attached
<1> QED
  BY <1>1, SemaphAssumption, FS_Subset, FS_CardinalityType, FS_EmptySet

(* The counter as the invariant describes it, in terms of Attached.        *)
CountOf(c, n) == IF c = 0 THEN n = 0 ELSE c + n = BIGCOUNT

LEMMA CounterExactDef == CounterExact <=> CountOf(sem[Count], Cardinality(Attached))
BY DEF CounterExact, CountOf, Attached

(* A step that attaches and detaches nobody, and leaves member 1 alone.    *)
LEMMA CountKept ==
    ASSUME CountInv, sem'[Count] = sem[Count],
           \A q \in Proc : adj'[q][Count] = adj[q][Count],
           \A q \in Proc : Counted(q)' <=> Counted(q),
           \A q \in Proc : InSetval(q)' => InSetval(q) \/ sem[Count] = 0
    PROVE  CountInv'
<1>1. Attached' = Attached
  BY DEF Attached
<1>2. CountUndo'
  BY DEF CountInv, CountUndo
<1>3. CounterExact'
  BY <1>1, CounterExactDef DEF CountInv, CountOf, CounterExact, Attached
<1>4. Uninitialized'
  BY DEF CountInv, Uninitialized, InSetval
<1> QED
  BY <1>2, <1>3, <1>4 DEF CountInv

(* p attaches: op_endcreate or op_open takes one from member 1.            *)
LEMMA CountAttach ==
    ASSUME CountInv, TypeOK, Cardinality(Proc) < BIGCOUNT,
           NEW p \in Proc, ~Counted(p), Counted(p)', ~InSetval(p)',
           sem'[Count] = sem[Count] - 1, sem'[Count] \in Nat,
           adj'[p][Count] = adj[p][Count] + 1,
           \A q \in Proc \ {p} : adj'[q][Count] = adj[q][Count],
           \A q \in Proc \ {p} : Counted(q)' <=> Counted(q),
           \A q \in Proc \ {p} : InSetval(q)' <=> InSetval(q)
    PROVE  CountInv'
<1>0. BIGCOUNT \in Nat /\ sem[Count] \in Nat
  BY SemaphAssumption DEF TypeOK, Member, Count
<1>1. Attached' = Attached \cup {p} /\ p \notin Attached
  BY DEF Attached
<1>2. Cardinality(Attached') = Cardinality(Attached) + 1
  BY <1>1, AttachedSize, FS_AddElement
<1>3. Cardinality(Attached') <= Cardinality(Proc)
  <2>1. Attached' \in SUBSET Proc
    BY DEF Attached
  <2> QED
    BY <2>1, SemaphAssumption, FS_Subset
<1>4. sem[Count] # 0 /\ sem[Count] + Cardinality(Attached) = BIGCOUNT
  BY <1>0, CounterExactDef DEF CountInv, CountOf
<1>5. sem'[Count] # 0 /\ sem'[Count] + Cardinality(Attached') = BIGCOUNT
  BY <1>0, <1>2, <1>3, <1>4, AttachedSize
<1>6. CounterExact'
  BY <1>5 DEF CounterExact, Attached
<1>7. adj[p][Count] = 0 /\ CountUndo'
  BY DEF CountInv, CountUndo
<1>8. Uninitialized'
  BY <1>4 DEF CountInv, Uninitialized, InSetval
<1> QED
  BY <1>6, <1>7, <1>8 DEF CountInv

(* p detaches: op_close, or the kernel when p exits, gives it back.        *)
LEMMA CountDetach ==
    ASSUME CountInv, TypeOK,
           NEW p \in Proc, Counted(p), ~Counted(p)', ~InSetval(p)',
           sem'[Count] = sem[Count] + 1, adj'[p][Count] = 0,
           \A q \in Proc \ {p} : adj'[q][Count] = adj[q][Count],
           \A q \in Proc \ {p} : Counted(q)' <=> Counted(q),
           \A q \in Proc \ {p} : InSetval(q)' <=> InSetval(q)
    PROVE  CountInv'
<1>0. BIGCOUNT \in Nat /\ sem[Count] \in Nat
  BY SemaphAssumption DEF TypeOK, Member, Count
<1>1. Attached' = Attached \ {p} /\ p \in Attached
  BY DEF Attached
<1>2. Cardinality(Attached') = Cardinality(Attached) - 1 /\ Cardinality(Attached) # 0
  BY <1>1, AttachedSize, FS_RemoveElement
<1>3. sem[Count] # 0 /\ sem[Count] + Cardinality(Attached) = BIGCOUNT
  BY <1>0, <1>2, CounterExactDef DEF CountInv, CountOf
<1>4. sem'[Count] # 0 /\ sem'[Count] + Cardinality(Attached') = BIGCOUNT
  BY <1>0, <1>2, <1>3, AttachedSize
<1>5. CounterExact'
  BY <1>4 DEF CounterExact, Attached
<1>6. CountUndo'
  BY DEF CountInv, CountUndo
<1>7. Uninitialized'
  BY <1>3 DEF CountInv, Uninitialized, InSetval
<1> QED
  BY <1>5, <1>6, <1>7 DEF CountInv

(* No process is attached after a step that empties or initializes the set.*)
LEMMA CountReset ==
    ASSUME \A q \in Proc : ~Counted(q)' /\ adj'[q][Count] = 0,
           sem'[Count] \in {0, BIGCOUNT}, sem'[Count] = 0 \/ \A q \in Proc : ~InSetval(q)'
    PROVE  CountInv'
<1>1. Attached' = {}
  BY DEF Attached
<1>2. Cardinality(Attached') = 0
  BY <1>1, FS_EmptySet
<1>3. BIGCOUNT \in Nat \ {0}
  BY SemaphAssumption
<1>4. CounterExact'
  BY <1>2, <1>3 DEF CounterExact, Attached
<1>5. CountUndo' /\ Uninitialized'
  BY DEF CountUndo, Uninitialized, InSetval
<1> QED
  BY <1>4, <1>5 DEF CountInv

LEMMA InitCountInv == Init => CountUndo /\ CounterExact /\ Uninitialized
<1> SUFFICES ASSUME Init PROVE CountUndo /\ CounterExact /\ Uninitialized
  OBVIOUS
<1>1. Zeros[Count] = 0
  BY DEF Zeros, Member, Count
<1>2. \A p \in Proc : ~Counted(p) /\ adj[p][Count] = 0 /\ id[p] = "none"
  BY <1>1 DEF Init, Counted
<1>3. Attached = {}
  BY <1>2 DEF Attached
<1>4. Cardinality(Attached) = 0 /\ sem[Count] = 0
  BY <1>1, <1>3, FS_EmptySet DEF Init
<1> QED
  BY <1>2, <1>4 DEF CountUndo, CounterExact, Attached, Uninitialized

(* The set is removed.                                                     *)
LEMMA CountRemoved ==
    ASSUME TypeOK, NEW p \in Proc, Rmid(p)
    PROVE  CountInv'
<1>1. /\ \A q \in Proc : id'[q] # "live"
      /\ sem' = Zeros /\ adj' = [q \in Proc |-> Zeros]
  BY RmidEffect
<1>2. Zeros[Count] = 0
  BY DEF Zeros, Member, Count
<1>3. \A q \in Proc : ~Counted(q)' /\ ~InSetval(q)'
  BY <1>1 DEF Counted, InSetval
<1> QED
  BY <1>1, <1>2, <1>3, CountReset

(* A process exits: the kernel detaches it.                                *)
LEMMA CountDie ==
    ASSUME CountInv, TypeOK, NEW p \in Proc, Die(p)
    PROVE  CountInv'
<1>1. /\ \A m \in Member : sem'[m] = IF sem[m] + adj[p][m] < 0 THEN 0
                                     ELSE sem[m] + adj[p][m]
      /\ adj'[p] = Zeros /\ id'[p] = "none"
      /\ \A q \in Proc \ {p} : adj'[q] = adj[q] /\ id'[q] = id[q] /\ pc'[q] = pc[q]
  BY DieEffect
<1>2. Count \in Member /\ Zeros[Count] = 0
  BY DEF Zeros, Member, Count
<1>3. sem[Count] \in Nat
  BY <1>2 DEF TypeOK
<1>4. /\ ~Counted(p)' /\ ~InSetval(p)'
      /\ \A q \in Proc \ {p} : (Counted(q)' <=> Counted(q)) /\ (InSetval(q)' <=> InSetval(q))
  BY <1>1 DEF Counted, InSetval
<1>5. CASE Counted(p)
  <2>1. sem'[Count] = sem[Count] + 1
    BY <1>1, <1>2, <1>3, <1>5 DEF CountInv, CountUndo
  <2> QED
    BY <1>1, <1>2, <1>4, <1>5, <2>1, CountDetach
<1>6. CASE ~Counted(p)
  <2>1. sem'[Count] = sem[Count] /\ adj[p][Count] = 0
    BY <1>1, <1>2, <1>3, <1>6 DEF CountInv, CountUndo
  <2> QED
    BY <1>1, <1>2, <1>4, <1>6, <2>1, CountKept
<1> QED
  BY <1>5, <1>6

(* A step of p that is neither an attachment nor a detachment.             *)
LEMMA CountGoto ==
    ASSUME CountInv, TypeOK, NEW p \in Proc, NEW to \in PCs, Goto(p, to),
           UNCHANGED <<sem, adj, id>>,
           Counted(p)' <=> Counted(p),
           InSetval(p)' => InSetval(p) \/ sem[Count] = 0
    PROVE  CountInv'
<1>1. \A q \in Proc \ {p} : pc'[q] = pc[q]
  BY DEF Goto, TypeOK
<1>2. \A q \in Proc : (Counted(q)' <=> Counted(q)) /\ (InSetval(q)' => InSetval(q) \/ sem[Count] = 0)
  BY <1>1 DEF Counted, InSetval
<1> QED
  BY <1>2, CountKept

(* A semop() on an existing set.                                           *)
LEMMA CountSemop ==
    ASSUME CountInv, TypeOK, Cardinality(Proc) < BIGCOUNT,
           NEW p \in Proc, NEW op \in OpArray, NEW from, NEW to \in PCs,
           Semop(p, op, from, to), op.undo = Member,
           \A q \in Proc \ {p} : id'[q] = id[q],
           to \notin {"c_setval0", "c_setval1"},
           \/ op.delta[Count] = -1 /\ ~Counted(p) /\ Counted(p)'
           \/ op.delta[Count] = 1 /\ Counted(p) /\ ~Counted(p)'
           \/ op.delta[Count] = 0 /\ (Counted(p)' <=> Counted(p))
    PROVE  CountInv'
<1>1. Count \in Member
  BY DEF Member, Count
<1>2. /\ sem'[Count] = sem[Count] + op.delta[Count]
      /\ adj'[p][Count] = adj[p][Count] - op.delta[Count]
      /\ \A q \in Proc \ {p} : adj'[q] = adj[q]
      /\ pc'[p] = to /\ \A q \in Proc \ {p} : pc'[q] = pc[q]
      /\ sem'[Count] \in Nat
  BY <1>1, SemopEffect
<1>3. /\ ~InSetval(p)'
      /\ \A q \in Proc \ {p} : (Counted(q)' <=> Counted(q)) /\ (InSetval(q)' <=> InSetval(q))
  BY <1>2 DEF Counted, InSetval
<1>4. sem[Count] \in Nat /\ adj[p][Count] \in Int
  BY <1>1 DEF TypeOK
<1>5. ASSUME op.delta[Count] = -1, ~Counted(p), Counted(p)'
      PROVE  CountInv'
  <2>1. sem'[Count] = sem[Count] - 1 /\ adj'[p][Count] = adj[p][Count] + 1
    BY <1>2, <1>4, <1>5
  <2> QED
    BY <1>2, <1>3, <1>5, <2>1, CountAttach
<1>6. ASSUME op.delta[Count] = 1, Counted(p), ~Counted(p)'
      PROVE  CountInv'
  <2>1. adj[p][Count] = 1
    BY <1>6 DEF CountInv, CountUndo
  <2>2. sem'[Count] = sem[Count] + 1 /\ adj'[p][Count] = 0
    BY <1>2, <1>4, <1>6, <2>1
  <2> QED
    BY <1>2, <1>3, <1>6, <2>2, CountDetach
<1>7. ASSUME op.delta[Count] = 0, Counted(p)' <=> Counted(p)
      PROVE  CountInv'
  <2>1. sem'[Count] = sem[Count] /\ adj'[p][Count] = adj[p][Count]
    BY <1>2, <1>4, <1>7
  <2> QED
    BY <1>2, <1>3, <1>7, <2>1, CountKept
<1> QED
  BY <1>5, <1>6, <1>7

(* The two SETVAL calls: whoever makes them is alone in the lock, and the  *)
(* counter is still 0, so nobody is attached.                              *)
LEMMA CountSetval ==
    ASSUME LockInv, CountInv, NEW p \in Proc, InSetval(p),
           NEW to \in PCs, Goto(p, to), UNCHANGED <<alive, id>>, to \notin {"open", "op", "x_lock"},
           \/ Setval(Value, InitVal)
           \/ Setval(Count, BIGCOUNT) /\ to = "c_end"
    PROVE  CountInv'
<1>1. sem[Count] = 0 /\ TypeOK
  BY DEF CountInv, Uninitialized, InSetval, LockInv
<1>2. Attached = {}
  BY <1>1, AttachedSize, CounterExactDef DEF CountInv, CountOf
<1>3. pc'[p] = to /\ \A q \in Proc \ {p} : pc'[q] = pc[q]
  BY <1>1 DEF Goto, TypeOK
<1>4. \A q \in Proc : ~Counted(q)'
  BY <1>2, <1>3 DEF Attached, Counted
<1>5. \A q \in Proc \ {p} : ~InSetval(q)
  BY DEF LockInv, LockExclusion, InLock, InSetval
<1>6. \A q \in Proc \ {p} : ~InSetval(q)'
  BY <1>3, <1>5 DEF InSetval
<1>7. CASE Setval(Value, InitVal)
  <2>1. sem'[Count] = 0 /\ \A q \in Proc : adj'[q][Count] = adj[q][Count]
    BY <1>1, <1>7 DEF Setval, TypeOK, Member, Value, Count
  <2>2. \A q \in Proc : adj'[q][Count] = 0
    BY <1>2, <2>1 DEF CountInv, CountUndo, Attached
  <2> QED
    BY <1>4, <2>1, <2>2, CountReset
<1>8. CASE Setval(Count, BIGCOUNT) /\ to = "c_end"
  <2>1. sem'[Count] = BIGCOUNT /\ \A q \in Proc : adj'[q][Count] = 0
    BY <1>1, <1>8 DEF Setval, TypeOK, Member, Count
  <2>2. ~InSetval(p)'
    BY <1>3, <1>8 DEF InSetval
  <2> QED
    BY <1>4, <1>6, <2>1, <2>2, CountReset
<1> QED
  BY <1>7, <1>8

(* The steps inside a library call keep the counter exact.                 *)
LEMMA InCallCount ==
    ASSUME LockInv, CountInv, Cardinality(Proc) < BIGCOUNT, NEW p \in Proc, InCall(p)
    PROVE  CountInv'
<1>0. 0 \in Int /\ TypeOK
  BY DEF LockInv
<1>1. CASE CreateGet(p)
  <2>1. pc[p] = "c_get" /\ UNCHANGED <<sem, adj>> /\ pc'[p] \in {"c_lock", "idle"}
        /\ \A q \in Proc \ {p} : pc'[q] = pc[q] /\ id'[q] = id[q]
    BY <1>0, <1>1 DEF CreateGet, Goto, TypeOK
  <2>2. \A q \in Proc : (Counted(q)' <=> Counted(q)) /\ (InSetval(q)' <=> InSetval(q))
    BY <2>1 DEF Counted, InSetval
  <2> QED
    BY <2>1, <2>2, CountKept
<1>2. CASE CreateLock(p)
  <2>1. ~Counted(p) /\ ~Counted(p)'
    BY <1>0, <1>2, OpArrayType, SemopEffect DEF CreateLock, Counted, PCs
  <2> QED
    BY <1>0, <1>2, <2>1, OpArrayType, OpArrayEffect, CountSemop DEF CreateLock, PCs
<1>3. CASE CreateAgain(p)
  <2>1. pc[p] = "c_lock" /\ UNCHANGED <<sem, adj>> /\ pc'[p] = "c_get"
        /\ \A q \in Proc \ {p} : pc'[q] = pc[q] /\ id'[q] = id[q]
    BY <1>0, <1>3 DEF CreateAgain, Goto, TypeOK
  <2>2. \A q \in Proc : (Counted(q)' <=> Counted(q)) /\ (InSetval(q)' <=> InSetval(q))
    BY <2>1 DEF Counted, InSetval
  <2> QED
    BY <2>1, <2>2, CountKept
<1>4. CASE CreateGetval(p)
  <2>1. ~Counted(p) /\ ~Counted(p)' /\ (InSetval(p)' => sem[Count] = 0)
    BY <1>0, <1>4 DEF CreateGetval, Goto, Counted, InSetval, TypeOK
  <2> QED
    BY <1>0, <1>4, <2>1, CountGoto DEF CreateGetval, PCs
<1>5. CASE CreateSetval0(p)
  BY <1>5, CountSetval DEF CreateSetval0, InSetval, PCs
<1>6. CASE CreateSetval1(p)
  BY <1>6, CountSetval DEF CreateSetval1, InSetval, PCs
<1>7. CASE CreateEnd(p)
  <2>1. ~Counted(p) /\ Counted(p)'
    BY <1>0, <1>7, OpArrayType, SemopEffect DEF CreateEnd, Counted, PCs
  <2> QED
    BY <1>0, <1>7, <2>1, OpArrayType, OpArrayEffect, CountSemop DEF CreateEnd, PCs
<1>8. CASE OpenDec(p)
  <2>1. ~Counted(p) /\ Counted(p)'
    BY <1>0, <1>8, OpArrayType, SemopEffect DEF OpenDec, Counted, PCs
  <2> QED
    BY <1>0, <1>8, <2>1, OpArrayType, OpArrayEffect, CountSemop DEF OpenDec, PCs
<1>9. CASE OpDo(p)
  <2>1. amt[p] \in Int
    BY <1>0 DEF TypeOK
  <2>2. Counted(p) /\ Counted(p)'
    BY <1>0, <1>9, <2>1, OpArrayType, SemopEffect DEF OpDo, Counted, PCs
  <2> QED
    BY <1>0, <1>9, <2>1, <2>2, OpArrayType, OpArrayEffect, CountSemop DEF OpDo, PCs
<1>10. CASE CloseLock(p)
  <2>1. Counted(p) /\ ~Counted(p)'
    BY <1>0, <1>10, OpArrayType, SemopEffect DEF CloseLock, Counted, PCs
  <2> QED
    BY <1>0, <1>10, <2>1, OpArrayType, OpArrayEffect, CountSemop DEF CloseLock, PCs
<1>11. CASE CloseGetval(p)
  <2>1. ~Counted(p) /\ ~Counted(p)' /\ ~InSetval(p)'
    BY <1>0, <1>11 DEF CloseGetval, Goto, Counted, InSetval, TypeOK
  <2> QED
    BY <1>0, <1>11, <2>1, CountGoto DEF CloseGetval, PCs
<1>12. CASE CloseDump(p)
  BY <1>0, <1>12, CountDie DEF CloseDump
<1>13. CASE CloseRm(p)
  BY <1>0, <1>13, CountRemoved DEF CloseRm
<1>14. CASE CloseUnlock(p)
  <2>1. id'[p] = "none" /\ \A q \in Proc \ {p} : id'[q] = id[q]
    BY <1>0, <1>14 DEF CloseUnlock, TypeOK
  <2>2. ~Counted(p) /\ ~Counted(p)'
    BY <1>0, <1>14, <2>1, OpArrayType, SemopEffect DEF CloseUnlock, Counted, PCs
  <2> QED
    BY <1>0, <1>14, <2>1, <2>2, OpArrayType, OpArrayEffect, CountSemop DEF CloseUnlock, PCs
<1>15. CASE SysError(p)
  BY <1>0, <1>15, CountDie DEF SysError
<1>16. CASE Sleep(p)
  <2>1. UNCHANGED <<alive, sem, adj, id, pc>>
    BY <1>16 DEF Sleep, Blocks
  <2>2. \A q \in Proc : (Counted(q)' <=> Counted(q)) /\ (InSetval(q)' <=> InSetval(q))
    BY <2>1 DEF Counted, InSetval
  <2> QED
    BY <2>1, <2>2, CountKept
<1> QED
  BY <1>1, <1>2, <1>3, <1>4, <1>5, <1>6, <1>7, <1>8, <1>9, <1>10, <1>11, <1>12,
     <1>13, <1>14, <1>15, <1>16 DEF InCall, Create, Close

LEMMA ClientCount ==
    ASSUME LockInv, CountInv, NEW p \in Proc, Client(p)
    PROVE  CountInv'
<1>0. TypeOK
  BY DEF LockInv
<1>1. CASE CreateCall(p)
  <2>1. ~Counted(p) /\ ~Counted(p)' /\ ~InSetval(p)'
    BY <1>0, <1>1 DEF CreateCall, Goto, Counted, InSetval, TypeOK
  <2> QED
    BY <1>0, <1>1, <2>1, CountGoto DEF CreateCall, PCs
<1>2. CASE OpenCall(p)
  <2>1. pc[p] = "idle" /\ UNCHANGED <<sem, adj>> /\ pc'[p] = "o_dec"
        /\ \A q \in Proc \ {p} : pc'[q] = pc[q] /\ id'[q] = id[q]
    BY <1>0, <1>2 DEF OpenCall, Goto, TypeOK
  <2>2. \A q \in Proc : (Counted(q)' <=> Counted(q)) /\ (InSetval(q)' <=> InSetval(q))
    BY <2>1 DEF Counted, InSetval
  <2> QED
    BY <2>1, <2>2, CountKept
<1>3. CASE OpCall(p)
  <2>1. (Counted(p) <=> Counted(p)') /\ ~InSetval(p)'
    BY <1>0, <1>3 DEF OpCall, Goto, Counted, InSetval, TypeOK
  <2> QED
    BY <1>0, <1>3, <2>1, CountGoto DEF OpCall, PCs
<1>4. CASE OpZero(p)
  BY <1>0, <1>4, CountDie DEF OpZero
<1>5. CASE CloseCall(p)
  <2>1. (Counted(p) <=> Counted(p)') /\ ~InSetval(p)'
    BY <1>0, <1>5 DEF CloseCall, Goto, Counted, InSetval, TypeOK
  <2> QED
    BY <1>0, <1>5, <2>1, CountGoto DEF CloseCall, PCs
<1>6. CASE RmCall(p)
  BY <1>0, <1>6, CountRemoved DEF RmCall
<1>7. CASE RmError(p)
  BY <1>0, <1>7, CountDie DEF RmError
<1> QED
  BY <1>1, <1>2, <1>3, <1>4, <1>5, <1>6, <1>7 DEF Client

LEMMA NextCountInv ==
    ASSUME Cardinality(Proc) < BIGCOUNT
    PROVE  LockInv /\ CountInv /\ [Next]_vars => CountInv'
<1> SUFFICES ASSUME LockInv, CountInv, [Next]_vars PROVE CountInv'
  OBVIOUS
<1>0. TypeOK
  BY DEF LockInv
<1>1. ASSUME NEW p \in Proc, Exit(p) PROVE CountInv'
  BY <1>0, <1>1, CountDie DEF Exit
<1>2. ASSUME NEW p \in Proc, Restart(p) PROVE CountInv'
  <2>1. ~Counted(p) /\ ~Counted(p)' /\ ~InSetval(p)'
    BY <1>0, <1>2 DEF Restart, Goto, Counted, InSetval, TypeOK
  <2> QED
    BY <1>0, <1>2, <2>1, CountGoto DEF Restart, PCs
<1>3. CASE UNCHANGED vars
  <2>1. \A q \in Proc : (Counted(q)' <=> Counted(q)) /\ (InSetval(q)' <=> InSetval(q))
    BY <1>3 DEF vars, Counted, InSetval
  <2> QED
    BY <1>3, <2>1, CountKept DEF vars
<1> QED
  BY <1>1, <1>2, <1>3, InCallCount, ClientCount DEF Next

(* The process counter is exact, whatever exits and removals happen, as    *)
(* long as there are fewer processes than BIGCOUNT.                        *)
THEOREM Counter ==
    ASSUME Cardinality(Proc) < BIGCOUNT
    PROVE  Spec => []CounterExact
<1>1. Init => LockInv /\ CountInv
  BY InitLockInv, InitCountInv DEF CountInv
<1>2. LockInv /\ CountInv /\ [Next]_vars => (LockInv /\ CountInv)'
  BY NextLockInv, NextCountInv
<1>3. LockInv /\ CountInv => CounterExact
  BY DEF CountInv
<1> QED
  BY <1>1, <1>2, <1>3, PTL DEF Spec

(* Then a set is never initialized under a process that uses it.           *)
THEOREM Initialization ==
    ASSUME Cardinality(Proc) < BIGCOUNT
    PROVE  Spec => []InitializesUnused
<1>1. Init => LockInv /\ CountInv
  BY InitLockInv, InitCountInv DEF CountInv
<1>2. LockInv /\ CountInv /\ [Next]_vars => (LockInv /\ CountInv)'
  BY NextLockInv, NextCountInv
<1>3. LockInv /\ CountInv => InitializesUnused
  <2> SUFFICES ASSUME LockInv, CountInv, NEW p \in Proc, NEW q \in Proc, InSetval(p)
               PROVE  ~Counted(q)
    BY DEF InitializesUnused, InSetval
  <2>1. Attached = {}
    BY AttachedSize, CounterExactDef DEF CountInv, CountOf, Uninitialized, InSetval
  <2> QED
    BY <2>1 DEF Attached
<1> QED
  BY <1>1, <1>2, <1>3, PTL DEF Spec

-----------------------------------------------------------------------------
(* The handles, when every process attaches with sem_create() and nobody   *)
(* calls sem_rm(): then the lock covers every attachment, and the process  *)
(* that is about to remove the set knows that nobody uses it.              *)

Removing == \A p, q \in Proc : id[p] = "live" /\ pc[p] = "x_rm" => ~Counted(q)

HandleInv == HandleStays /\ Removing /\ \A p \in Proc : pc[p] # "o_dec"

(* A step of p that neither attaches it nor decides to remove the set.     *)
LEMMA HandleKept ==
    ASSUME HandleInv, NEW p \in Proc,
           \A q \in Proc \ {p} : pc'[q] = pc[q] /\ id'[q] = id[q],
           pc'[p] \notin {"o_dec", "x_rm"},
           HasHandle(p)' => HasHandle(p) /\ id'[p] = id[p]
    PROVE  HandleInv'
<1>1. \A q \in Proc : Counted(q)' => Counted(q)
  BY DEF HandleInv, HandleStays, Counted, HasHandle
<1>2. Removing'
  BY <1>1 DEF HandleInv, Removing
<1>3. HandleStays'
  BY DEF HandleInv, HandleStays, HasHandle
<1> QED
  BY <1>2, <1>3 DEF HandleInv

LEMMA HandleDie ==
    ASSUME HandleInv, TypeOK, NEW p \in Proc, Die(p)
    PROVE  HandleInv'
<1>1. /\ pc'[p] = "dead"
      /\ \A q \in Proc \ {p} : id'[q] = id[q] /\ pc'[q] = pc[q]
  BY DieEffect
<1> QED
  BY <1>1, HandleKept DEF HasHandle

LEMMA InCallHandle ==
    ASSUME LockInv, CountInv, HandleInv, NEW p \in Proc, InCall(p)
    PROVE  HandleInv'
<1>0. 0 \in Int /\ TypeOK
  BY DEF LockInv
<1>1. CASE CreateGet(p)
  <2>1. pc'[p] \in {"c_lock", "idle"}
        /\ \A q \in Proc \ {p} : pc'[q] = pc[q] /\ id'[q] = id[q]
    BY <1>0, <1>1 DEF CreateGet, Goto, TypeOK
  <2> QED
    BY <2>1, HandleKept DEF HasHandle
<1>2. CASE CreateLock(p)
  <2>1. pc'[p] = "c_getval" /\ \A q \in Proc \ {p} : pc'[q] = pc[q] /\ id'[q] = id[q]
    BY <1>0, <1>2, CallMoves DEF Moves
  <2> QED
    BY <2>1, HandleKept DEF HasHandle
<1>3. CASE CreateAgain(p)
  <2>1. pc'[p] = "c_get" /\ \A q \in Proc \ {p} : pc'[q] = pc[q] /\ id'[q] = id[q]
    BY <1>0, <1>3 DEF CreateAgain, Goto, TypeOK
  <2> QED
    BY <2>1, HandleKept DEF HasHandle
<1>4. CASE CreateGetval(p)
  <2>1. pc'[p] \in {"c_setval0", "c_end"}
        /\ \A q \in Proc \ {p} : pc'[q] = pc[q] /\ id'[q] = id[q]
    BY <1>0, <1>4 DEF CreateGetval, Goto, TypeOK
  <2> QED
    BY <2>1, HandleKept DEF HasHandle
<1>5. CASE CreateSetval0(p)
  <2>1. pc'[p] = "c_setval1" /\ \A q \in Proc \ {p} : pc'[q] = pc[q] /\ id'[q] = id[q]
    BY <1>0, <1>5 DEF CreateSetval0, Goto, TypeOK
  <2> QED
    BY <2>1, HandleKept DEF HasHandle
<1>6. CASE CreateSetval1(p)
  <2>1. pc'[p] = "c_end" /\ \A q \in Proc \ {p} : pc'[q] = pc[q] /\ id'[q] = id[q]
    BY <1>0, <1>6 DEF CreateSetval1, Goto, TypeOK
  <2> QED
    BY <2>1, HandleKept DEF HasHandle
<1>7. CASE CreateEnd(p)
  <2>1. /\ pc[p] = "c_end" /\ id[p] = "live" /\ id' = id /\ pc'[p] = "open"
        /\ \A q \in Proc \ {p} : pc'[q] = pc[q]
    BY <1>0, <1>7, CallMoves DEF Moves
  <2>2. \A q \in Proc : ~(id[q] = "live" /\ pc[q] = "x_rm")
    BY <2>1 DEF LockInv, LockExclusion, InLock
  <2>3. Removing'
    BY <2>1, <2>2 DEF Removing
  <2>4. HandleStays'
    BY <2>1 DEF HandleInv, HandleStays, HasHandle
  <2> QED
    BY <2>1, <2>3, <2>4 DEF HandleInv
<1>8. CASE OpenDec(p)
  BY <1>8 DEF OpenDec, Semop, HandleInv
<1>9. CASE OpDo(p)
  <2>1. amt[p] \in Int
    BY <1>0 DEF TypeOK
  <2>2. /\ pc[p] = "op" /\ id' = id /\ pc'[p] = "open"
        /\ \A q \in Proc \ {p} : pc'[q] = pc[q]
    BY <1>0, <1>9, CallMoves DEF Moves
  <2> QED
    BY <2>2, HandleKept DEF HasHandle
<1>10. CASE CloseLock(p)
  <2>1. pc'[p] = "x_getval" /\ \A q \in Proc \ {p} : pc'[q] = pc[q] /\ id'[q] = id[q]
    BY <1>0, <1>10, CallMoves DEF Moves
  <2> QED
    BY <2>1, HandleKept DEF HasHandle
<1>11. CASE CloseGetval(p)
  <2>1. /\ pc'[p] = (IF sem[Count] = BIGCOUNT THEN "x_rm" ELSE "x_unlock") /\ id' = id
        /\ \A q \in Proc \ {p} : pc'[q] = pc[q]
    BY <1>0, <1>11 DEF CloseGetval, Goto, TypeOK
  <2>2. CASE sem[Count] = BIGCOUNT
    <3>1. BIGCOUNT \in Nat \ {0}
      BY SemaphAssumption
    <3>2. Attached = {}
      BY <2>2, <3>1, AttachedSize, CounterExactDef DEF CountInv, CountOf
    <3>3. \A q \in Proc : ~Counted(q)'
      BY <2>1, <3>2 DEF Attached, Counted
    <3>4. HandleStays' /\ \A q \in Proc : pc'[q] # "o_dec"
      BY <2>1 DEF HandleInv, HandleStays, HasHandle
    <3> QED
      BY <3>3, <3>4 DEF HandleInv, Removing
  <2>3. CASE sem[Count] # BIGCOUNT
    BY <2>1, <2>3, HandleKept DEF HasHandle
  <2> QED
    BY <2>2, <2>3
<1>12. CASE CloseDump(p)
  BY <1>0, <1>12, HandleDie DEF CloseDump
<1>13. CASE CloseRm(p)
  <2>1. \A q \in Proc : ~Counted(q)
    BY <1>13 DEF CloseRm, HandleInv, Removing
  <2>2. \A q \in Proc : ~HasHandle(q)
    BY <2>1 DEF HandleInv, HandleStays, HasHandle, Counted
  <2>3. pc'[p] = "idle" /\ \A q \in Proc \ {p} : pc'[q] = pc[q]
    BY <1>0, <1>13 DEF CloseRm, Goto, TypeOK
  <2>4. \A q \in Proc : id'[q] # "live"
    BY <1>0, <1>13, RmidEffect DEF CloseRm
  <2>5. HandleStays' /\ \A q \in Proc : pc'[q] # "o_dec"
    BY <2>2, <2>3 DEF HandleInv, HandleStays, HasHandle
  <2> QED
    BY <2>4, <2>5 DEF HandleInv, Removing
<1>14. CASE CloseUnlock(p)
  <2>1. \A q \in Proc \ {p} : id'[q] = id[q]
    BY <1>0, <1>14 DEF CloseUnlock, TypeOK
  <2>2. pc'[p] = "idle" /\ \A q \in Proc \ {p} : pc'[q] = pc[q]
    BY <1>0, <1>14, CallMoves DEF Moves
  <2> QED
    BY <2>1, <2>2, HandleKept DEF HasHandle
<1>15. CASE SysError(p)
  BY <1>0, <1>15, HandleDie DEF SysError
<1>16. CASE Sleep(p)
  BY <1>16 DEF Sleep, Blocks, HandleInv, HandleStays, Removing, HasHandle, Counted
<1> QED
  BY <1>1, <1>2, <1>3, <1>4, <1>5, <1>6, <1>7, <1>8, <1>9, <1>10, <1>11, <1>12,
     <1>13, <1>14, <1>15, <1>16 DEF InCall, Create, Close

LEMMA ClientHandle ==
    ASSUME Openers = {}, Servers = {}, TypeOK, HandleInv, NEW p \in Proc, Client(p)
    PROVE  HandleInv'
<1>1. CASE CreateCall(p)
  <2>1. pc'[p] = "c_get" /\ \A q \in Proc \ {p} : pc'[q] = pc[q] /\ id'[q] = id[q]
    BY <1>1 DEF CreateCall, Goto, TypeOK
  <2> QED
    BY <2>1, HandleKept DEF HasHandle
<1>2. CASE OpCall(p)
  <2>1. pc[p] = "open" /\ id' = id /\ pc'[p] = "op" /\ \A q \in Proc \ {p} : pc'[q] = pc[q]
    BY <1>2 DEF OpCall, Goto, TypeOK
  <2> QED
    BY <2>1, HandleKept DEF HasHandle
<1>3. CASE CloseCall(p)
  <2>1. pc[p] = "open" /\ id' = id /\ pc'[p] = "x_lock" /\ \A q \in Proc \ {p} : pc'[q] = pc[q]
    BY <1>3 DEF CloseCall, Goto, TypeOK
  <2> QED
    BY <2>1, HandleKept DEF HasHandle
<1>4. CASE OpZero(p)
  BY <1>4, HandleDie DEF OpZero
<1>5. ~OpenCall(p) /\ ~RmCall(p) /\ ~RmError(p)
  BY DEF OpenCall, RmCall, RmError
<1> QED
  BY <1>1, <1>2, <1>3, <1>4, <1>5 DEF Client

LEMMA NextHandleInv ==
    ASSUME Openers = {}, Servers = {}
    PROVE  LockInv /\ CountInv /\ HandleInv /\ [Next]_vars => HandleInv'
<1> SUFFICES ASSUME LockInv, CountInv, HandleInv, [Next]_vars PROVE HandleInv'
  OBVIOUS
<1>0. TypeOK
  BY DEF LockInv
<1>1. ASSUME NEW p \in Proc, Exit(p) PROVE HandleInv'
  BY <1>0, <1>1, HandleDie DEF Exit
<1>2. ASSUME NEW p \in Proc, Restart(p) PROVE HandleInv'
  <2>1. pc'[p] = "idle" /\ \A q \in Proc \ {p} : pc'[q] = pc[q] /\ id'[q] = id[q]
    BY <1>0, <1>2 DEF Restart, Goto, TypeOK
  <2> QED
    BY <2>1, HandleKept DEF HasHandle
<1>3. CASE UNCHANGED vars
  BY <1>3 DEF vars, HandleInv, HandleStays, Removing, HasHandle, Counted
<1> QED
  BY <1>0, <1>1, <1>2, <1>3, InCallHandle, ClientHandle DEF Next

(* Without sem_open() and sem_rm(), no process ever finds the set removed  *)
(* behind the ID it was given, whatever the others do and however they die.*)
THEOREM Handles ==
    ASSUME Cardinality(Proc) < BIGCOUNT, Openers = {}, Servers = {}
    PROVE  Spec => []HandleStays
<1>1. Init => LockInv /\ CountInv /\ HandleInv
  <2>1. Init => HandleInv
    BY DEF Init, HandleInv, HandleStays, Removing, HasHandle
  <2> QED
    BY <2>1, InitLockInv, InitCountInv DEF CountInv
<1>2. LockInv /\ CountInv /\ HandleInv /\ [Next]_vars => (LockInv /\ CountInv /\ HandleInv)'
  BY NextLockInv, NextCountInv, NextHandleInv
<1>3. HandleInv => HandleStays
  BY DEF HandleInv
<1> QED
  BY <1>1, <1>2, <1>3, PTL DEF Spec

-----------------------------------------------------------------------------
(* No set is left behind when every process detaches by itself: who found  *)
(* in sem_close() that the counter is not BIGCOUNT leaves another attached *)
(* process behind, which cannot detach while the lock is taken.            *)

LeakInv ==
    /\ NoLeak
    /\ \A p \in Proc : id[p] = "live" /\ pc[p] = "x_getval" => sem[Count] > 0
    /\ \A p \in Proc : id[p] = "live" /\ pc[p] = "x_unlock" => \E q \in Proc : Counted(q)

(* A step of p that neither detaches it nor takes or tests the counter.    *)
LEMMA LeakKept ==
    ASSUME LeakInv, NEW p \in Proc,
           \A q \in Proc \ {p} : pc'[q] = pc[q] /\ id'[q] = id[q],
           pc'[p] \notin {"x_getval", "x_unlock"},
           id'[p] = "live" \/ (alive' = alive /\ (id'[p] = id[p] \/ id[p] # "live")),
           Counted(p) => Counted(p)',
           \A q \in Proc \ {p} : id[q] = "live" /\ pc[q] = "x_getval" => sem'[Count] > 0
    PROVE  LeakInv'
<1>1. NoLeak'
  BY DEF LeakInv, NoLeak
<1>2. \A q \in Proc : Counted(q) => Counted(q)'
  BY DEF Counted
<1>3. \A q \in Proc : id'[q] = "live" /\ pc'[q] = "x_getval" => sem'[Count] > 0
  OBVIOUS
<1>4. \A q \in Proc : id'[q] = "live" /\ pc'[q] = "x_unlock" => \E r \in Proc : Counted(r)'
  BY <1>2 DEF LeakInv
<1> QED
  BY <1>1, <1>3, <1>4 DEF LeakInv

(* A process that dies of a stale ID was no user of the set.               *)
LEMMA LeakDie ==
    ASSUME LeakInv, TypeOK, CountInv, NEW p \in Proc, id[p] = "stale", Die(p)
    PROVE  LeakInv'
<1>1. /\ pc'[p] = "dead" /\ id'[p] = "none" /\ alive' = alive
      /\ \A q \in Proc \ {p} : id'[q] = id[q] /\ pc'[q] = pc[q]
      /\ \A m \in Member : sem'[m] = IF sem[m] + adj[p][m] < 0 THEN 0 ELSE sem[m] + adj[p][m]
  BY DieEffect
<1>2. ~Counted(p) /\ adj[p][Count] = 0
  BY DEF CountInv, CountUndo, Counted
<1>3. sem'[Count] = sem[Count]
  <2>1. sem[Count] \in Nat /\ Count \in Member
    BY DEF TypeOK, Member, Count
  <2> QED
    BY <1>1, <1>2, <2>1
<1> QED
  BY <1>1, <1>2, <1>3, LeakKept DEF LeakInv

(* The steps inside a library call keep the invariant.                     *)
LEMMA InCallLeak ==
    ASSUME Cardinality(Proc) < BIGCOUNT, LockInv, CountInv, CountInv', LeakInv, NEW p \in Proc, InCall(p)
    PROVE  LeakInv'
<1>0. /\ TypeOK /\ IdKnown /\ LockExclusion /\ sem[Count] \in Nat /\ BIGCOUNT \in Nat
      /\ Count \in Member /\ Lock \in Member
  BY SemaphAssumption DEF LockInv, TypeOK, Member, Count, Lock
<1>1. CASE CreateGet(p)
  <2>1. /\ pc'[p] \in {"c_lock", "idle"} /\ UNCHANGED sem /\ ~Counted(p)
        /\ \A q \in Proc \ {p} : pc'[q] = pc[q] /\ id'[q] = id[q]
        /\ id'[p] = "live" \/ (alive' = alive /\ id'[p] = id[p])
    BY <1>0, <1>1 DEF CreateGet, Goto, TypeOK, Counted
  <2> QED
    BY <2>1, LeakKept DEF LeakInv
<1>2. CASE CreateLock(p)
  <2>1. /\ pc[p] = "c_lock" /\ pc'[p] = "c_getval" /\ UNCHANGED <<alive, id>> /\ sem'[Count] = sem[Count] + 0
        /\ \A q \in Proc \ {p} : pc'[q] = pc[q]
    BY <1>0, <1>2, CallMoves DEF Moves
  <2>2. ~Counted(p) /\ sem'[Count] = sem[Count]
    BY <1>0, <2>1 DEF Counted
  <2> QED
    BY <2>1, <2>2, LeakKept DEF LeakInv
<1>3. CASE CreateAgain(p)
  <2>1. /\ pc'[p] = "c_get" /\ id[p] # "live" /\ UNCHANGED <<alive, sem>> /\ ~Counted(p)
        /\ \A q \in Proc \ {p} : pc'[q] = pc[q] /\ id'[q] = id[q]
    BY <1>0, <1>3 DEF CreateAgain, Goto, TypeOK, Counted
  <2> QED
    BY <2>1, LeakKept DEF LeakInv
<1>4. CASE CreateGetval(p)
  <2>1. /\ pc'[p] \in {"c_setval0", "c_end"} /\ UNCHANGED <<alive, sem, id>> /\ ~Counted(p)
        /\ \A q \in Proc \ {p} : pc'[q] = pc[q]
    BY <1>0, <1>4 DEF CreateGetval, Goto, TypeOK, Counted
  <2> QED
    BY <2>1, LeakKept DEF LeakInv
<1>5. CASE CreateSetval0(p)
  <2>1. /\ pc'[p] = "c_setval1" /\ UNCHANGED <<alive, id>> /\ sem'[Count] = sem[Count] /\ ~Counted(p)
        /\ \A q \in Proc \ {p} : pc'[q] = pc[q]
    BY <1>0, <1>5 DEF CreateSetval0, Setval, Goto, TypeOK, Counted, Member, Value, Count
  <2> QED
    BY <2>1, LeakKept DEF LeakInv
<1>6. CASE CreateSetval1(p)
  <2>1. /\ pc'[p] = "c_end" /\ UNCHANGED <<alive, id>> /\ sem'[Count] = BIGCOUNT /\ ~Counted(p)
        /\ \A q \in Proc \ {p} : pc'[q] = pc[q]
    BY <1>0, <1>6 DEF CreateSetval1, Setval, Goto, TypeOK, Counted, Member, Count
  <2>2. sem'[Count] > 0
    BY <2>1, SemaphAssumption
  <2> QED
    BY <2>1, <2>2, LeakKept DEF LeakInv
<1>7. CASE CreateEnd(p)
  <2>1. /\ pc[p] = "c_end" /\ id[p] = "live" /\ UNCHANGED <<alive, id>> /\ pc'[p] = "open"
        /\ \A q \in Proc \ {p} : pc'[q] = pc[q]
    BY <1>0, <1>7, CallMoves DEF Moves
  <2>2. \A q \in Proc : ~(id[q] = "live" /\ pc[q] = "x_getval")
    BY <1>0, <2>1 DEF LockExclusion, InLock
  <2>3. Counted(p)'
    BY <2>1 DEF Counted
  <2> QED
    BY <2>1, <2>2, <2>3, LeakKept
<1>8. CASE OpenDec(p)
  <2>1. /\ pc[p] = "o_dec" /\ id[p] = "live" /\ UNCHANGED <<alive, id>> /\ pc'[p] = "open"
        /\ sem' \in [Member -> Nat] /\ \A q \in Proc \ {p} : pc'[q] = pc[q]
    BY <1>0, <1>8, CallMoves DEF Moves
  <2>2. Counted(p)'
    BY <2>1 DEF Counted
  <2>3. sem'[Count] # 0
    <3>1. CountOf(sem[Count], Cardinality(Attached))' /\ (Cardinality(Attached) = 0 <=> Attached = {})'
      BY AttachedSize, CounterExactDef, PTL DEF CountInv
    <3> QED
      BY <2>2, <3>1 DEF CountOf, Attached
  <2>4. sem'[Count] > 0
    BY <1>0, <2>1, <2>3
  <2> QED
    BY <2>1, <2>2, <2>4, LeakKept
<1>9. CASE OpDo(p)
  <2>1. amt[p] \in Int
    BY <1>0 DEF TypeOK
  <2>2. /\ pc[p] = "op" /\ UNCHANGED <<alive, id>> /\ pc'[p] = "open" /\ sem'[Count] = sem[Count] + 0
        /\ \A q \in Proc \ {p} : pc'[q] = pc[q]
    BY <1>0, <1>9, CallMoves DEF Moves
  <2>3. (Counted(p) => Counted(p)') /\ sem'[Count] = sem[Count]
    BY <1>0, <2>2 DEF Counted
  <2> QED
    BY <2>2, <2>3, LeakKept DEF LeakInv
<1>10. CASE CloseLock(p)
  <2>1. /\ id[p] = "live" /\ pc'[p] = "x_getval" /\ UNCHANGED <<alive, id>> /\ sem'[Count] = sem[Count] + 1
        /\ sem[Lock] = 0 /\ \A q \in Proc \ {p} : pc'[q] = pc[q]
    BY <1>0, <1>10, CallMoves DEF Moves
  <2>2. \A q \in Proc : ~InLock(q)
    BY <2>1 DEF LockInv, LockValue
  <2>3. sem'[Count] > 0
    BY <1>0, <2>1
  <2>4. \A q \in Proc : ~(id'[q] = "live" /\ pc'[q] = "x_unlock")
    BY <2>1, <2>2 DEF InLock
  <2>5. NoLeak'
    BY <2>1 DEF NoLeak
  <2> QED
    BY <2>3, <2>4, <2>5 DEF LeakInv
<1>11. CASE CloseGetval(p)
  <2>1. /\ id[p] = "live" /\ pc[p] = "x_getval" /\ UNCHANGED <<alive, id, sem>>
        /\ pc'[p] = (IF sem[Count] = BIGCOUNT THEN "x_rm" ELSE "x_unlock")
        /\ \A q \in Proc \ {p} : pc'[q] = pc[q]
    BY <1>0, <1>11 DEF CloseGetval, Goto, TypeOK
  <2>2. CASE sem[Count] = BIGCOUNT
    BY <2>1, <2>2, LeakKept DEF LeakInv, Counted
  <2>3. CASE sem[Count] # BIGCOUNT
    <3>1. sem[Count] > 0
      BY <2>1 DEF LeakInv
    <3>2. Attached # {}
      <4>1. CountOf(sem[Count], Cardinality(Attached))
        BY CounterExactDef DEF CountInv
      <4> QED
        BY <1>0, <2>3, <3>1, <4>1, AttachedSize DEF CountOf
    <3>3. PICK q \in Proc : Counted(q)
      BY <3>2 DEF Attached
    <3>4. q # p /\ Counted(q)'
      BY <2>1, <3>3 DEF Counted
    <3>5. NoLeak'
      BY <2>1 DEF NoLeak
    <3>6. \A r \in Proc : id'[r] = "live" /\ pc'[r] = "x_getval" => sem'[Count] > 0
      BY <2>1, <3>1
    <3> QED
      BY <3>4, <3>5, <3>6 DEF LeakInv
  <2> QED
    BY <2>2, <2>3
<1>12. ~CloseDump(p)
  <2>1. CountOf(sem[Count], Cardinality(Attached))
    BY CounterExactDef DEF CountInv
  <2>2. sem[Count] <= BIGCOUNT
    BY <1>0, <2>1, AttachedSize DEF CountOf
  <2> QED
    BY <1>0, <2>2 DEF CloseDump
<1>13. CASE CloseRm(p)
  <2>1. alive' = FALSE /\ \A q \in Proc : id'[q] # "live"
    BY <1>0, <1>13, RmidEffect DEF CloseRm
  <2> QED
    BY <2>1 DEF LeakInv, NoLeak
<1>14. CASE CloseUnlock(p)
  <2>1. id[p] = "live" /\ pc[p] = "x_unlock" /\ \A q \in Proc \ {p} : id'[q] = id[q]
    BY <1>0, <1>14 DEF CloseUnlock, Semop, TypeOK
  <2>2. id'[p] = "none" /\ pc'[p] = "idle" /\ \A q \in Proc \ {p} : pc'[q] = pc[q]
    BY <1>0, <1>14, CallMoves DEF Moves, CloseUnlock, TypeOK
  <2>3. PICK q \in Proc : Counted(q)
    BY <2>1 DEF LeakInv
  <2>4. q # p /\ id'[q] = "live"
    BY <2>1, <2>3 DEF Counted
  <2>5. \A r \in Proc \ {p} : ~InLock(r)
    BY <1>0, <2>1 DEF LockExclusion, InLock
  <2>6. \A r \in Proc : ~(id'[r] = "live" /\ pc'[r] \in {"x_getval", "x_unlock"})
    BY <2>1, <2>2, <2>5 DEF InLock
  <2>7. NoLeak'
    BY <2>4 DEF NoLeak
  <2> QED
    BY <2>6, <2>7 DEF LeakInv
<1>15. CASE SysError(p)
  BY <1>0, <1>15, LeakDie DEF SysError
<1>16. CASE Sleep(p)
  BY <1>16 DEF Sleep, Blocks, LeakInv, NoLeak, Counted
<1> QED
  BY <1>1, <1>2, <1>3, <1>4, <1>5, <1>6, <1>7, <1>8, <1>9, <1>10, <1>11, <1>12,
     <1>13, <1>14, <1>15, <1>16 DEF InCall, Create, Close

(* So do the steps of the client's program.                                *)
LEMMA ClientLeak ==
    ASSUME 0 \notin Amounts, LockInv, CountInv, LeakInv, NEW p \in Proc, Client(p)
    PROVE  LeakInv'
<1>0. TypeOK /\ IdKnown
  BY DEF LockInv
<1>1. CASE CreateCall(p)
  <2>1. /\ pc'[p] = "c_get" /\ UNCHANGED <<alive, id, sem>> /\ ~Counted(p)
        /\ \A q \in Proc \ {p} : pc'[q] = pc[q]
    BY <1>0, <1>1 DEF CreateCall, Goto, TypeOK, Counted
  <2> QED
    BY <2>1, LeakKept DEF LeakInv
<1>2. CASE OpenCall(p)
  <2>1. /\ pc'[p] = "o_dec" /\ id'[p] = "live" /\ UNCHANGED sem /\ ~Counted(p)
        /\ \A q \in Proc \ {p} : pc'[q] = pc[q] /\ id'[q] = id[q]
    BY <1>0, <1>2 DEF OpenCall, Goto, TypeOK, Counted
  <2> QED
    BY <2>1, LeakKept DEF LeakInv
<1>3. CASE OpCall(p)
  <2>1. /\ pc'[p] = "op" /\ UNCHANGED <<alive, id, sem>> /\ \A q \in Proc \ {p} : pc'[q] = pc[q]
    BY <1>0, <1>3 DEF OpCall, Goto, TypeOK
  <2>2. Counted(p) => Counted(p)'
    BY <2>1 DEF Counted
  <2> QED
    BY <2>1, <2>2, LeakKept DEF LeakInv
<1>4. CASE CloseCall(p)
  <2>1. /\ pc'[p] = "x_lock" /\ UNCHANGED <<alive, id, sem>> /\ \A q \in Proc \ {p} : pc'[q] = pc[q]
    BY <1>0, <1>4 DEF CloseCall, Goto, TypeOK
  <2>2. Counted(p) => Counted(p)'
    BY <2>1 DEF Counted
  <2> QED
    BY <2>1, <2>2, LeakKept DEF LeakInv
<1>5. CASE RmCall(p)
  <2>1. alive' = FALSE /\ \A q \in Proc : id'[q] # "live"
    BY <1>0, <1>5, RmidEffect DEF RmCall
  <2> QED
    BY <2>1 DEF LeakInv, NoLeak
<1>6. CASE RmError(p)
  BY <1>0, <1>6, LeakDie DEF RmError
<1>7. ~OpZero(p)
  BY DEF OpZero
<1> QED
  BY <1>1, <1>2, <1>3, <1>4, <1>5, <1>6, <1>7 DEF Client

(* If no process exits before its sem_close(), a set that exists is in use:*)
(* the last sem_close() removes it, sem_open() beside it or not.           *)
THEOREM LastCloseRemoves ==
    ASSUME Cardinality(Proc) < BIGCOUNT, ~MayExit, 0 \notin Amounts
    PROVE  Spec => []NoLeak
<1>1. Init => LockInv /\ CountInv /\ LeakInv
  <2>1. Init => LeakInv
    BY DEF Init, LeakInv, NoLeak
  <2> QED
    BY <2>1, InitLockInv, InitCountInv DEF CountInv
<1>2. LockInv /\ CountInv /\ LeakInv /\ [Next]_vars => (LockInv /\ CountInv /\ LeakInv)'
  <2> SUFFICES ASSUME LockInv, CountInv, LeakInv, [Next]_vars
               PROVE  (LockInv /\ CountInv /\ LeakInv)'
    OBVIOUS
  <2>1. LockInv' /\ CountInv'
    BY NextLockInv, NextCountInv
  <2>2. ASSUME NEW p \in Proc, Restart(p) PROVE LeakInv'
    <3>1. /\ pc'[p] = "idle" /\ UNCHANGED <<alive, id, sem>> /\ ~Counted(p)
          /\ \A q \in Proc \ {p} : pc'[q] = pc[q]
      BY <2>2 DEF Restart, Goto, TypeOK, Counted, LockInv
    <3> QED
      BY <3>1, LeakKept DEF LeakInv
  <2>3. \A p \in Proc : ~Exit(p)
    BY DEF Exit
  <2>4. ASSUME UNCHANGED vars PROVE LeakInv'
    BY <2>4 DEF vars, LeakInv, NoLeak, Counted
  <2>5. LeakInv'
    BY <2>1, <2>2, <2>3, <2>4, InCallLeak, ClientLeak DEF Next
  <2> QED
    BY <2>1, <2>5
<1>3. LeakInv => NoLeak
  BY DEF LeakInv
<1> QED
  BY <1>1, <1>2, <1>3, PTL DEF Spec
-----------------------------------------------------------------------------
(* The sum over all processes of what they hold, as the abstract           *)
(* specification takes it (SumFunction): element by element, in the order  *)
(* in which CHOOSE picks them.                                             *)

Pick(s) == CHOOSE x \in s : TRUE

IsSum(h, D, g) == g = [s \in D |-> IF s = {} THEN 0 ELSE h[Pick(s)] + g[s \ {Pick(s)}]]

PartSums(h, T) == CHOOSE g : IsSum(h, SUBSET T, g)

Total(h) == Abstract!SumFunction(h)

(* The sum by the definition of the community modules.                     *)
LEMMA TotalDef == \A h : Total(h) = PartSums(h, DOMAIN h)[DOMAIN h]
<1>1. \A h : Abstract!SumFunction(h) = Abstract!SumFunctionOnSet(h, DOMAIN h)
  BY Zenon DEF Abstract!SumFunction
<1>2. \A h, T : Abstract!SumFunctionOnSet(h, T) = PartSums(h, T)[T]
  BY DEF Abstract!SumFunctionOnSet, Abstract!FoldFunctionOnSet, Abstract!MapThenFoldSet,
         PartSums, IsSum, Pick
<1> QED
  BY <1>1, <1>2 DEF Total

LEMMA PickIn == \A s : s # {} => Pick(s) \in s
BY DEF Pick

(* A set of numbers that has 0 and each successor of its members is Nat.   *)
LEMMA NatSet ==
    ASSUME NEW S, 0 \in S, \A n \in Nat : n \in S => n + 1 \in S
    PROVE  Nat \subseteq S
<1> SUFFICES ASSUME Nat \ S # {} PROVE FALSE
  OBVIOUS
<1>1. PICK x \in Nat \ S : \A y \in Nat \ S : <<y, x>> \notin OpToRel(<, Nat)
  <2>1. Nat \ S \subseteq Nat /\ Nat \ S # {}
    OBVIOUS
  <2> QED
    BY <2>1, NatLessThanWellFounded, WFMin
<1>2. x - 1 \in Nat /\ x - 1 < x /\ x - 1 + 1 = x
  <2>1. x \in Nat /\ x # 0
    BY <1>1
  <2> QED
    BY <2>1
<1>3. x - 1 \notin S
  BY <1>1, <1>2
<1>4. <<x - 1, x>> \in OpToRel(<, Nat)
  <2> DEFINE y == x - 1
  <2>1. y \in Nat /\ x \in Nat /\ y < x
    BY <1>1, <1>2
  <2> HIDE DEF y
  <2>2. <<y, x>> \in Nat \X Nat /\ <<y, x>>[1] < <<y, x>>[2]
    BY <2>1
  <2>3. <<y, x>> \in OpToRel(<, Nat)
    BY <2>2, Zenon DEF OpToRel
  <2> QED
    BY <2>3 DEF y
<1> QED
  BY <1>1, <1>2, <1>3, <1>4

(* The parts of T with at most n elements.                                 *)
Parts(T, n) == {s \in SUBSET T : Cardinality(s) <= n}

LEMMA PartsNone ==
    ASSUME NEW T, IsFiniteSet(T), NEW s \in Parts(T, 0)
    PROVE  s = {}
<1>1. IsFiniteSet(s) /\ Cardinality(s) <= 0
  BY FS_Subset DEF Parts
<1>2. Cardinality(s) = 0
  BY <1>1, FS_CardinalityType
<1> QED
  BY <1>1, <1>2, FS_EmptySet

LEMMA PartsLess ==
    ASSUME NEW T, IsFiniteSet(T), NEW n \in Nat, NEW s \in Parts(T, n + 1), s # {}
    PROVE  s \ {Pick(s)} \in Parts(T, n)
<1>1. IsFiniteSet(s) /\ Cardinality(s) <= n + 1 /\ s \in SUBSET T
  BY FS_Subset DEF Parts
<1>2. Cardinality(s \ {Pick(s)}) = Cardinality(s) - 1 /\ Cardinality(s) \in Nat
  BY <1>1, FS_RemoveElement, PickIn, FS_CardinalityType
<1> QED
  BY <1>1, <1>2 DEF Parts

LEMMA PartsAll ==
    ASSUME NEW T, IsFiniteSet(T)
    PROVE  Cardinality(T) \in Nat /\ Parts(T, Cardinality(T)) = SUBSET T
BY FS_Subset, FS_CardinalityType DEF Parts

(* The recursion that defines the sum has a solution.                      *)
LEMMA SumsExist ==
    ASSUME NEW T, IsFiniteSet(T), NEW h
    PROVE  \E g : IsSum(h, SUBSET T, g)
<1> DEFINE S == {n \in Nat : \E g : IsSum(h, Parts(T, n), g)}
<1>1. 0 \in S
  <2> DEFINE g == [s \in Parts(T, 0) |-> 0]
  <2>1. IsSum(h, Parts(T, 0), g)
    BY PartsNone DEF IsSum
  <2> QED
    BY <2>1
<1>2. ASSUME NEW n \in Nat, n \in S PROVE n + 1 \in S
  <2>1. PICK g : IsSum(h, Parts(T, n), g)
    BY <1>2
  <2> DEFINE f == [s \in Parts(T, n + 1) |-> IF s = {} THEN 0 ELSE h[Pick(s)] + g[s \ {Pick(s)}]]
             e == [s \in Parts(T, n + 1) |-> IF s = {} THEN 0 ELSE h[Pick(s)] + f[s \ {Pick(s)}]]
  <2>2. ASSUME NEW s \in Parts(T, n) PROVE s \in Parts(T, n + 1) /\ f[s] = g[s]
    <3>1. s \in Parts(T, n + 1)
      <4>1. s \in SUBSET T /\ Cardinality(s) <= n /\ Cardinality(s) \in Nat
        BY FS_Subset, FS_CardinalityType DEF Parts
      <4>2. Cardinality(s) <= n + 1
        BY <4>1
      <4> QED
        BY <4>1, <4>2 DEF Parts
    <3>2. g[s] = IF s = {} THEN 0 ELSE h[Pick(s)] + g[s \ {Pick(s)}]
      BY <2>1 DEF IsSum
    <3> QED
      BY <3>1, <3>2
  <2>3. ASSUME NEW s \in Parts(T, n + 1), s # {} PROVE f[s \ {Pick(s)}] = g[s \ {Pick(s)}]
    BY <2>2, <2>3, PartsLess
  <2>4. f = e
    BY <2>3
  <2>5. IsSum(h, Parts(T, n + 1), f)
    BY <2>4 DEF IsSum
  <2> QED
    BY <2>5
<1> HIDE DEF S
<1>3. Cardinality(T) \in S
  BY <1>1, <1>2, NatSet, PartsAll
<1> QED
  BY <1>3, PartsAll DEF S

LEMMA SumStep ==
    ASSUME NEW T, IsFiniteSet(T), NEW h, NEW s \in SUBSET T
    PROVE  PartSums(h, T)[s] = IF s = {} THEN 0 ELSE h[Pick(s)] + PartSums(h, T)[s \ {Pick(s)}]
<1>1. IsSum(h, SUBSET T, PartSums(h, T))
  BY SumsExist DEF PartSums
<1> QED
  BY <1>1 DEF IsSum

(* A set of parts of a finite T that has {}, and has s whenever it has s   *)
(* without the element that is picked from it, has all parts of T.         *)
LEMMA PartsInduction ==
    ASSUME NEW T, IsFiniteSet(T), NEW U, {} \in U,
           \A s \in SUBSET T : s # {} /\ s \ {Pick(s)} \in U => s \in U
    PROVE  SUBSET T \subseteq U
<1> DEFINE S == {n \in Nat : Parts(T, n) \subseteq U}
<1>1. 0 \in S
  BY PartsNone
<1>2. ASSUME NEW n \in Nat, n \in S PROVE n + 1 \in S
  <2>1. ASSUME NEW s \in Parts(T, n + 1) PROVE s \in U
    BY <1>2, PartsLess DEF Parts
  <2> QED
    BY <2>1
<1> HIDE DEF S
<1>3. Cardinality(T) \in S
  BY <1>1, <1>2, NatSet, PartsAll
<1> QED
  BY <1>3, PartsAll DEF S

(* Nobody holds anything: the sum is 0.                                    *)
LEMMA TotalZero ==
    ASSUME NEW h \in [Proc -> Int], \A p \in Proc : h[p] = 0
    PROVE  Total(h) = 0
<1> DEFINE F == PartSums(h, Proc)
           U == {s \in SUBSET Proc : F[s] = 0}
<1>1. IsFiniteSet(Proc) /\ DOMAIN h = Proc
  BY SemaphAssumption
<1>2. \A s \in SUBSET Proc : F[s] = IF s = {} THEN 0 ELSE h[Pick(s)] + F[s \ {Pick(s)}]
  <2>1. h \in [Proc -> Int]
    OBVIOUS
  <2> QED
    BY ONLY <1>1, <2>1, SumStep
<1> HIDE DEF F
<1>3. {} \in U
  BY <1>2
<1>4. ASSUME NEW s \in SUBSET Proc, s # {}, s \ {Pick(s)} \in U PROVE s \in U
  <2>1. h[Pick(s)] = 0
    BY <1>4, PickIn
  <2> QED
    BY <1>2, <1>4, <2>1
<1>5. SUBSET Proc \subseteq U
  <2> HIDE DEF U
  <2> QED
    BY <1>1, <1>3, <1>4, PartsInduction
<1>6. F[Proc] = 0
  BY <1>5
<1> QED
  BY <1>1, <1>6, TotalDef DEF F

(* One process changes what it holds by d: so does the sum.                *)
LEMMA TotalChange ==
    ASSUME NEW h \in [Proc -> Int], NEW k \in [Proc -> Int], NEW p \in Proc,
           \A q \in Proc \ {p} : k[q] = h[q]
    PROVE  Total(h) \in Int /\ Total(k) = Total(h) + (k[p] - h[p])
<1> DEFINE F == PartSums(h, Proc)
           G == PartSums(k, Proc)
           d == k[p] - h[p]
           U == {s \in SUBSET Proc : F[s] \in Int /\ G[s] = F[s] + IF p \in s THEN d ELSE 0}
<1>1. IsFiniteSet(Proc) /\ DOMAIN h = Proc /\ DOMAIN k = Proc
  BY SemaphAssumption
<1>2. \A s \in SUBSET Proc : F[s] = IF s = {} THEN 0 ELSE h[Pick(s)] + F[s \ {Pick(s)}]
  BY <1>1, SumStep
<1>3. \A s \in SUBSET Proc : G[s] = IF s = {} THEN 0 ELSE k[Pick(s)] + G[s \ {Pick(s)}]
  BY <1>1, SumStep
<1>4. d \in Int /\ k[p] = h[p] + d /\ h[p] \in Int
  OBVIOUS
<1> HIDE DEF F, G, d
<1>5. {} \in U
  <2>1. F[{}] = 0 /\ G[{}] = 0
    BY <1>2, <1>3
  <2>2. F[{}] \in Int /\ G[{}] = F[{}] + IF p \in {} THEN d ELSE 0
    BY <2>1
  <2> QED
    BY <2>2
<1>6. ASSUME NEW s \in SUBSET Proc, s # {}, s \ {Pick(s)} \in U PROVE s \in U
  <2> DEFINE x == Pick(s)
             r == s \ {x}
  <2>1. x \in Proc /\ h[x] \in Int /\ x \in s
    BY <1>6, PickIn
  <2>2. F[r] \in Int /\ G[r] = F[r] + IF p \in r THEN d ELSE 0
    BY <1>6
  <2>3. F[s] = h[x] + F[r] /\ G[s] = k[x] + G[r]
    BY <1>2, <1>3, <1>6
  <2> HIDE DEF x
  <2>4. CASE x = p
    BY <1>4, <2>1, <2>2, <2>3, <2>4
  <2>5. CASE x # p
    <3>1. k[x] = h[x] /\ (p \in s <=> p \in r)
      BY <2>1, <2>5
    <3> QED
      BY <1>4, <2>1, <2>2, <2>3, <3>1
  <2> QED
    BY <2>4, <2>5
<1>7. SUBSET Proc \subseteq U
  <2> HIDE DEF U
  <2> QED
    BY <1>1, <1>5, <1>6, PartsInduction
<1>8. F[Proc] \in Int /\ G[Proc] = F[Proc] + d
  BY <1>7
<1> QED
  BY <1>1, <1>8, TotalDef DEF F, G, d

-----------------------------------------------------------------------------
(* What the kernel would give back for a process is what it took, and once *)
(* the set is initialized its value is what nobody holds.                  *)

UnitsUndo == \A p \in Proc : adj[p][Value] = held[p]

Units == \A p \in Proc :
    /\ held[p] >= 0
    /\ held[p] # 0 => pc[p] \in {"open", "op"}
    /\ pc[p] = "op" => amt[p] \in Amounts /\ amt[p] <= held[p]

Setting == \E p \in Proc : id[p] = "live" /\ pc[p] = "c_setval1"

UnitsLeft == sem[Count] # 0 \/ Setting => sem[Value] + Total(held) = InitVal

UnitsInv == UnitsUndo /\ Units /\ UnitsLeft

(* A step of p that takes and gives back nothing, and initializes nothing. *)
LEMMA UnitsKept ==
    ASSUME UnitsInv, NEW p \in Proc, UNCHANGED <<held, amt>>,
           \A q \in Proc \ {p} : pc'[q] = pc[q],
           \A q \in Proc : adj'[q][Value] = adj[q][Value],
           sem'[Value] = sem[Value],
           held[p] = 0 \/ pc'[p] \in {"open", "op"},
           pc'[p] = "op" => pc[p] = "op",
           sem'[Count] # 0 \/ Setting' => sem[Count] # 0 \/ Setting
    PROVE  UnitsInv'
<1>1. UnitsUndo'
  BY DEF UnitsInv, UnitsUndo
<1>2. Units'
  BY DEF UnitsInv, Units
<1>3. UnitsLeft'
  BY DEF UnitsInv, UnitsLeft
<1> QED
  BY <1>1, <1>2, <1>3 DEF UnitsInv

(* The same of a step that leaves the kernel's set alone.                  *)
LEMMA UnitsGoto ==
    ASSUME UnitsInv, NEW p \in Proc, UNCHANGED <<sem, adj, amt, held>>,
           \A q \in Proc \ {p} : pc'[q] = pc[q] /\ id'[q] = id[q],
           pc'[p] \notin {"c_setval1", "op"},
           held[p] = 0 \/ pc'[p] = "open"
    PROVE  UnitsInv'
<1>1. Setting' => Setting
  BY DEF Setting
<1> QED
  BY <1>1, UnitsKept

(* The same of a semop() other than that of sem_op().                      *)
LEMMA UnitsSemop ==
    ASSUME UnitsInv, TypeOK, NEW p \in Proc, NEW from, NEW to, NEW c,
           Moves(p, from, to, 0, c), UNCHANGED <<amt, held>>,
           \A q \in Proc \ {p} : id'[q] = id[q],
           to \notin {"c_setval1", "op"},
           held[p] = 0,
           sem'[Count] # 0 => sem[Count] # 0
    PROVE  UnitsInv'
<1>1. /\ sem'[Value] = sem[Value] + 0 /\ adj'[p][Value] = adj[p][Value] - 0
      /\ \A q \in Proc \ {p} : adj'[q] = adj[q] /\ pc'[q] = pc[q]
      /\ pc'[p] = to
  BY DEF Moves
<1>2. sem'[Value] = sem[Value] /\ adj'[p][Value] = adj[p][Value]
  BY <1>1 DEF TypeOK, Member, Value
<1>3. Setting' => Setting
  BY <1>1 DEF Setting
<1> QED
  BY <1>1, <1>2, <1>3, UnitsKept

(* An attached process shows in the counter.                               *)
LEMMA UserCounted ==
    ASSUME CountInv, NEW p \in Proc, Counted(p)
    PROVE  sem[Count] # 0
<1>1. p \in Attached
  BY DEF Attached
<1>2. Cardinality(Attached) # 0
  BY <1>1, AttachedSize
<1> QED
  BY <1>2, CounterExactDef DEF CountInv, CountOf

(* A process exits: the kernel gives back what it held.                    *)
LEMMA UnitsDie ==
    ASSUME UnitsInv, TypeOK, CountInv, NEW p \in Proc, Die(p)
    PROVE  UnitsInv'
<1>1. /\ \A m \in Member : sem'[m] = IF sem[m] + adj[p][m] < 0 THEN 0 ELSE sem[m] + adj[p][m]
      /\ adj'[p] = Zeros /\ id'[p] = "none" /\ pc'[p] = "dead"
      /\ \A q \in Proc \ {p} : adj'[q] = adj[q] /\ id'[q] = id[q] /\ pc'[q] = pc[q]
  BY DieEffect
<1>2. /\ held' \in [Proc -> Int] /\ held'[p] = 0 /\ \A q \in Proc \ {p} : held'[q] = held[q]
      /\ \A q \in Proc \ {p} : amt'[q] = amt[q]
  BY DEF Die, TypeOK
<1>3. Value \in Member /\ Count \in Member /\ Zeros[Value] = 0
  BY DEF Zeros, Member, Value, Count
<1>4. sem[Value] \in Nat /\ sem[Count] \in Nat /\ held \in [Proc -> Int] /\ held[p] \in Int
  BY <1>3 DEF TypeOK
<1>5. adj[p][Value] = held[p] /\ held[p] >= 0
  BY DEF UnitsInv, UnitsUndo, Units
<1>6. sem'[Value] = sem[Value] + held[p]
  BY <1>1, <1>3, <1>4, <1>5
<1>7. Total(held) \in Int /\ Total(held') = Total(held) + (0 - held[p])
  BY <1>2, <1>4, TotalChange
<1>8. UnitsUndo'
  BY <1>1, <1>2, <1>3 DEF UnitsInv, UnitsUndo
<1>9. Units'
  BY <1>1, <1>2 DEF UnitsInv, Units
<1>10. Setting' => Setting
  BY <1>1 DEF Setting
<1>11. sem'[Count] # 0 => sem[Count] # 0
  <2>1. CASE Counted(p)
    BY <2>1, UserCounted
  <2>2. CASE ~Counted(p)
    <3>1. adj[p][Count] = 0
      BY <2>2 DEF CountInv, CountUndo
    <3> QED
      BY <1>1, <1>3, <1>4, <3>1
  <2> QED
    BY <2>1, <2>2
<1>12. UnitsLeft'
  <2> SUFFICES ASSUME sem'[Count] # 0 \/ Setting' PROVE sem'[Value] + Total(held') = InitVal
    BY DEF UnitsLeft, Total
  <2>1. sem[Value] + Total(held) = InitVal
    BY <1>10, <1>11 DEF UnitsInv, UnitsLeft
  <2> QED
    BY <1>4, <1>6, <1>7, <2>1
<1> QED
  BY <1>8, <1>9, <1>12 DEF UnitsInv

(* SETVAL finds a set without users: nobody holds anything of it.          *)
LEMMA NobodyHolds ==
    ASSUME UnitsInv, HandleInv, CountInv, NEW p \in Proc, InSetval(p)
    PROVE  \A q \in Proc : held[q] = 0
<1>1. \A q \in Proc : ~Counted(q)
  BY UserCounted DEF CountInv, Uninitialized, InSetval
<1> QED
  BY <1>1 DEF UnitsInv, Units, HandleInv, HandleStays, HasHandle, Counted

(* The steps inside a library call keep the account.                       *)
LEMMA InCallUnits ==
    ASSUME LockInv, CountInv, HandleInv, HandleInv', UnitsInv, NEW p \in Proc, InCall(p)
    PROVE  UnitsInv'
<1>0. /\ TypeOK /\ sem[Count] \in Nat /\ BIGCOUNT \in Nat \ {0} /\ InitVal \in Nat
      /\ Count \in Member /\ Value \in Member /\ Count # Value
      /\ sem \in [Member -> Nat] /\ held \in [Proc -> Int]
  BY SemaphAssumption DEF LockInv, TypeOK, Member, Count, Value
<1>i. \A q \in Proc : pc[q] \notin {"open", "op"} => held[q] = 0
  BY DEF UnitsInv, Units
<1>1. CASE CreateGet(p)
  <2>1. /\ pc[p] = "c_get" /\ pc'[p] \in {"c_lock", "idle"} /\ UNCHANGED <<sem, adj, amt, held>>
        /\ \A q \in Proc \ {p} : pc'[q] = pc[q] /\ id'[q] = id[q]
    BY <1>0, <1>1 DEF CreateGet, Goto, TypeOK
  <2> QED
    BY <1>i, <2>1, UnitsGoto
<1>2. CASE CreateLock(p)
  <2>1. Moves(p, "c_lock", "c_getval", 0, 0) /\ UNCHANGED <<id, amt, held>>
    BY <1>0, <1>2, CallMoves DEF CreateLock
  <2>2. held[p] = 0 /\ sem'[Count] = sem[Count] + 0
    BY <1>i, <2>1 DEF Moves
  <2> QED
    BY <1>0, <2>1, <2>2, UnitsSemop
<1>3. CASE CreateAgain(p)
  <2>1. /\ pc[p] = "c_lock" /\ pc'[p] = "c_get" /\ UNCHANGED <<sem, adj, amt, held>>
        /\ \A q \in Proc \ {p} : pc'[q] = pc[q] /\ id'[q] = id[q]
    BY <1>0, <1>3 DEF CreateAgain, Goto, TypeOK
  <2> QED
    BY <1>i, <2>1, UnitsGoto
<1>4. CASE CreateGetval(p)
  <2>1. /\ pc[p] = "c_getval" /\ pc'[p] \in {"c_setval0", "c_end"} /\ UNCHANGED <<sem, adj, amt, held>>
        /\ \A q \in Proc \ {p} : pc'[q] = pc[q] /\ id'[q] = id[q]
    BY <1>0, <1>4 DEF CreateGetval, Goto, TypeOK
  <2> QED
    BY <1>i, <2>1, UnitsGoto
<1>5. CASE CreateSetval0(p)
  <2>1. /\ pc[p] = "c_setval0" /\ id[p] = "live" /\ UNCHANGED <<id, amt, held>>
        /\ pc'[p] = "c_setval1" /\ \A q \in Proc \ {p} : pc'[q] = pc[q]
    BY <1>0, <1>5 DEF CreateSetval0, Goto, TypeOK
  <2>2. sem'[Value] = InitVal /\ \A q \in Proc : adj'[q][Value] = 0
    BY <1>0, <1>5 DEF CreateSetval0, Setval, TypeOK
  <2>3. \A q \in Proc : held[q] = 0
    BY <2>1, NobodyHolds DEF InSetval
  <2>4. Total(held) = 0
    BY <1>0, <2>3, TotalZero
  <2>5. UnitsUndo'
    BY <2>1, <2>2, <2>3 DEF UnitsUndo
  <2>6. Units'
    BY <2>1, <2>3 DEF UnitsInv, Units
  <2>7. UnitsLeft'
    BY <1>0, <2>1, <2>2, <2>4 DEF UnitsLeft, Total
  <2> QED
    BY <2>5, <2>6, <2>7 DEF UnitsInv
<1>6. CASE CreateSetval1(p)
  <2>1. /\ pc[p] = "c_setval1" /\ id[p] = "live" /\ UNCHANGED <<id, amt, held>>
        /\ pc'[p] = "c_end" /\ \A q \in Proc \ {p} : pc'[q] = pc[q]
    BY <1>0, <1>6 DEF CreateSetval1, Goto, TypeOK
  <2>2. sem'[Value] = sem[Value] /\ \A q \in Proc : adj'[q][Value] = adj[q][Value]
    BY <1>0, <1>6 DEF CreateSetval1, Setval, TypeOK
  <2>3. Setting
    BY <2>1 DEF Setting
  <2> QED
    BY <1>i, <2>1, <2>2, <2>3, UnitsKept
<1>7. CASE CreateEnd(p)
  <2>1. Moves(p, "c_end", "open", 0, -1) /\ UNCHANGED <<id, amt, held>>
    BY <1>0, <1>7, CallMoves DEF CreateEnd
  <2>2. held[p] = 0 /\ sem'[Count] = sem[Count] + (-1) /\ sem'[Count] \in Nat
    BY <1>0, <1>i, <2>1 DEF Moves
  <2>3. sem[Count] # 0
    BY <1>0, <2>2
  <2> QED
    BY <1>0, <2>1, <2>2, <2>3, UnitsSemop
<1>8. ~OpenDec(p)
  BY DEF OpenDec, Semop, HandleInv
<1>9. CASE OpDo(p)
  <2> DEFINE a == amt[p]
  <2>1. a \in Int /\ held[p] \in Int /\ sem[Value] \in Nat
    BY <1>0 DEF TypeOK
  <2>2. Moves(p, "op", "open", a, 0) /\ id' = id
    BY <1>0, <1>9, CallMoves
  <2>3. /\ pc[p] = "op" /\ pc'[p] = "open"
        /\ \A q \in Proc \ {p} : pc'[q] = pc[q] /\ adj'[q] = adj[q]
        /\ sem'[Value] = sem[Value] + a /\ sem'[Count] = sem[Count] + 0
        /\ adj'[p][Value] = adj[p][Value] - a
    BY <2>2 DEF Moves
  <2>4. /\ held' \in [Proc -> Int] /\ held'[p] = held[p] - a
        /\ \A q \in Proc \ {p} : held'[q] = held[q] /\ amt'[q] = amt[q]
    BY <1>0, <1>9, <2>1 DEF OpDo, TypeOK
  <2>5. held[p] >= 0 /\ a <= held[p]
    BY <2>3 DEF UnitsInv, Units
  <2> HIDE DEF a
  <2>6. Total(held) \in Int /\ Total(held') = Total(held) + (held'[p] - held[p])
    BY <1>0, <2>4, TotalChange
  <2>7. UnitsUndo'
    BY <2>3, <2>4 DEF UnitsInv, UnitsUndo
  <2>8. held'[p] >= 0
    BY <2>1, <2>4, <2>5
  <2>9. Units'
    BY <2>3, <2>4, <2>8 DEF UnitsInv, Units
  <2>10. UnitsLeft'
    <3> SUFFICES ASSUME sem'[Count] # 0 \/ Setting' PROVE sem'[Value] + Total(held') = InitVal
      BY DEF UnitsLeft, Total
    <3>1. Setting' => Setting
      BY <2>2, <2>3 DEF Setting
    <3>2. sem[Value] + Total(held) = InitVal
      BY <1>0, <2>3, <3>1 DEF UnitsInv, UnitsLeft
    <3> QED
      BY <1>0, <2>1, <2>3, <2>4, <2>6, <3>2
  <2> QED
    BY <2>7, <2>9, <2>10 DEF UnitsInv
<1>10. CASE CloseLock(p)
  <2>1. Moves(p, "x_lock", "x_getval", 0, 1) /\ UNCHANGED <<id, amt, held>>
    BY <1>0, <1>10, CallMoves DEF CloseLock
  <2>2. pc[p] = "x_lock" /\ Counted(p)
    BY <2>1 DEF Counted, Moves
  <2>3. held[p] = 0 /\ sem[Count] # 0
    BY <1>i, <2>2, UserCounted
  <2> QED
    BY <1>0, <2>1, <2>3, UnitsSemop
<1>11. CASE CloseGetval(p)
  <2>1. /\ pc[p] = "x_getval" /\ pc'[p] \in {"x_rm", "x_unlock"} /\ UNCHANGED <<sem, adj, amt, held>>
        /\ \A q \in Proc \ {p} : pc'[q] = pc[q] /\ id'[q] = id[q]
    BY <1>0, <1>11 DEF CloseGetval, Goto, TypeOK
  <2> QED
    BY <1>i, <2>1, UnitsGoto
<1>12. CASE CloseDump(p)
  BY <1>0, <1>12, UnitsDie DEF CloseDump
<1>13. CASE CloseRm(p)
  <2>1. /\ pc[p] = "x_rm" /\ UNCHANGED <<amt, held>> /\ pc'[p] = "idle"
        /\ \A q \in Proc \ {p} : pc'[q] = pc[q]
    BY <1>0, <1>13 DEF CloseRm, Goto, TypeOK
  <2>2. sem' = Zeros /\ adj' = [q \in Proc |-> Zeros] /\ \A q \in Proc : id'[q] # "live"
    BY <1>0, <1>13, RmidEffect DEF CloseRm
  <2>3. Zeros[Value] = 0 /\ Zeros[Count] = 0
    BY <1>0 DEF Zeros
  <2>4. \A q \in Proc : held[q] = 0
    <3> SUFFICES ASSUME NEW q \in Proc PROVE pc[q] \notin {"open", "op"}
      BY <1>i
    <3>1. ~HasHandle(q)'
      BY <2>2 DEF HandleInv, HandleStays
    <3> QED
      BY <2>1, <3>1 DEF HasHandle
  <2>5. UnitsUndo'
    BY <2>1, <2>2, <2>3, <2>4 DEF UnitsUndo
  <2>6. Units'
    BY <2>1, <2>4 DEF UnitsInv, Units
  <2>7. ~Setting' /\ sem'[Count] = 0
    BY <2>2, <2>3 DEF Setting
  <2> QED
    BY <2>5, <2>6, <2>7 DEF UnitsInv, UnitsLeft
<1>14. CASE CloseUnlock(p)
  <2>1. Moves(p, "x_unlock", "idle", 0, 0) /\ UNCHANGED <<amt, held>> /\ \A q \in Proc \ {p} : id'[q] = id[q]
    BY <1>0, <1>14, CallMoves DEF CloseUnlock, TypeOK
  <2>2. held[p] = 0 /\ sem'[Count] = sem[Count] + 0
    BY <1>i, <2>1 DEF Moves
  <2> QED
    BY <1>0, <2>1, <2>2, UnitsSemop
<1>15. CASE SysError(p)
  BY <1>0, <1>15, UnitsDie DEF SysError
<1>16. CASE Sleep(p)
  <2>1. UNCHANGED <<sem, adj, id, pc, amt, held>>
    BY <1>16 DEF Sleep, Blocks
  <2> QED
    BY <2>1 DEF UnitsInv, UnitsUndo, Units, UnitsLeft, Setting, Total
<1> QED
  BY <1>1, <1>2, <1>3, <1>4, <1>5, <1>6, <1>7, <1>8, <1>9, <1>10, <1>11, <1>12,
     <1>13, <1>14, <1>15, <1>16 DEF InCall, Create, Close

(* So do the steps of the client's program, which takes only what          *)
(* Amounts has and gives back only what it took.                           *)
LEMMA ClientUnits ==
    ASSUME Openers = {}, Servers = {}, TypeOK, CountInv, UnitsInv, NEW p \in Proc, Client(p)
    PROVE  UnitsInv'
<1>i. \A q \in Proc : pc[q] \notin {"open", "op"} => held[q] = 0
  BY DEF UnitsInv, Units
<1>1. CASE CreateCall(p)
  <2>1. /\ pc[p] = "idle" /\ pc'[p] = "c_get" /\ UNCHANGED <<sem, adj, amt, held>>
        /\ \A q \in Proc \ {p} : pc'[q] = pc[q] /\ id'[q] = id[q]
    BY <1>1 DEF CreateCall, Goto, TypeOK
  <2> QED
    BY <1>i, <2>1, UnitsGoto
<1>2. CASE OpCall(p)
  <2>1. /\ pc[p] = "open" /\ UNCHANGED <<sem, adj, id, held>>
        /\ pc'[p] = "op" /\ \A q \in Proc \ {p} : pc'[q] = pc[q]
    BY <1>2 DEF OpCall, Goto, TypeOK
  <2>2. held[p] \in Int /\ held[p] >= 0
    BY DEF TypeOK, UnitsInv, Units
  <2>3. PICK v \in Amounts \ {0} : /\ IF v < 0 THEN held[p] = 0 ELSE v <= held[p]
                                   /\ amt' = [amt EXCEPT ![p] = v]
    BY <1>2 DEF OpCall
  <2>4. amt'[p] = v /\ \A q \in Proc \ {p} : amt'[q] = amt[q]
    BY <2>3 DEF TypeOK
  <2>5. v <= held[p]
    BY <2>2, <2>3, SemaphAssumption
  <2>6. Units'
    BY <2>1, <2>3, <2>4, <2>5 DEF UnitsInv, Units
  <2>7. Setting' => Setting
    BY <2>1 DEF Setting
  <2>8. UnitsUndo' /\ UnitsLeft'
    BY <2>1, <2>7 DEF UnitsInv, UnitsUndo, UnitsLeft, Total
  <2> QED
    BY <2>6, <2>8 DEF UnitsInv
<1>3. CASE CloseCall(p)
  <2>1. /\ held[p] = 0 /\ pc'[p] = "x_lock" /\ UNCHANGED <<sem, adj, amt, held>>
        /\ \A q \in Proc \ {p} : pc'[q] = pc[q] /\ id'[q] = id[q]
    BY <1>3 DEF CloseCall, Goto, TypeOK
  <2> QED
    BY <2>1, UnitsGoto
<1>4. CASE OpZero(p)
  BY <1>4, UnitsDie DEF OpZero
<1>5. ~OpenCall(p) /\ ~RmCall(p) /\ ~RmError(p)
  BY DEF OpenCall, RmCall, RmError
<1> QED
  BY <1>1, <1>2, <1>3, <1>4, <1>5 DEF Client

LEMMA NextUnits ==
    ASSUME Openers = {}, Servers = {}
    PROVE  LockInv /\ CountInv /\ HandleInv /\ HandleInv' /\ UnitsInv /\ [Next]_vars => UnitsInv'
<1> SUFFICES ASSUME LockInv, CountInv, HandleInv, HandleInv', UnitsInv, [Next]_vars PROVE UnitsInv'
  OBVIOUS
<1>0. TypeOK
  BY DEF LockInv
<1>1. ASSUME NEW p \in Proc, Exit(p) PROVE UnitsInv'
  BY <1>0, <1>1, UnitsDie DEF Exit
<1>2. ASSUME NEW p \in Proc, Restart(p) PROVE UnitsInv'
  <2>1. /\ pc[p] = "dead" /\ pc'[p] = "idle" /\ UNCHANGED <<sem, adj, amt, held>>
        /\ \A q \in Proc \ {p} : pc'[q] = pc[q] /\ id'[q] = id[q]
    BY <1>0, <1>2 DEF Restart, Goto, TypeOK
  <2>2. held[p] = 0
    BY <2>1 DEF UnitsInv, Units
  <2> QED
    BY <2>1, <2>2, UnitsGoto
<1>3. CASE UNCHANGED vars
  BY <1>3 DEF vars, UnitsInv, UnitsUndo, Units, UnitsLeft, Setting, Total
<1> QED
  BY <1>0, <1>1, <1>2, <1>3, InCallUnits, ClientUnits DEF Next

LEMMA InitUnits == Init => UnitsInv
<1> SUFFICES ASSUME Init PROVE UnitsInv
  OBVIOUS
<1>1. /\ \A p \in Proc : held[p] = 0 /\ adj[p] = Zeros /\ pc[p] = "idle"
      /\ Zeros[Value] = 0 /\ sem[Count] = 0
  BY DEF Init, Zeros, Member, Value, Count
<1> QED
  BY <1>1 DEF UnitsInv, UnitsUndo, Units, UnitsLeft, Setting

-----------------------------------------------------------------------------
(* The library implements the counting semaphore.  The abstract users are  *)
(* the processes that have an ID; most calls are invisible.                *)

Users == {p \in Proc : HasHandle(p)}

(* A step that gives an ID to nobody, takes it from nobody, and leaves     *)
(* what is held alone, changes nothing of the abstract semaphore.          *)
LEMMA Stutters ==
    ASSUME TypeOK, NEW p \in Proc, held' = held, \A q \in Proc \ {p} : pc'[q] = pc[q],
           HasHandle(p)' <=> HasHandle(p)
    PROVE  [Abstract!Next]_(Abstract!vars)
<1>1. \A q \in Proc : HasHandle(q)' <=> HasHandle(q)
  BY DEF HasHandle
<1>2. UNCHANGED Abstract!vars
  BY <1>1 DEF Abstract!vars
<1> QED
  BY <1>2

(* The exit of a process gives back what it held.                          *)
LEMMA DieAbstract ==
    ASSUME TypeOK, NEW p \in Proc, Die(p)
    PROVE  Abstract!Next
<1>1. pc'[p] = "dead" /\ \A q \in Proc \ {p} : pc'[q] = pc[q]
  BY DieEffect
<1>2. ~HasHandle(p)' /\ \A q \in Proc \ {p} : HasHandle(q)' <=> HasHandle(q)
  BY <1>1 DEF HasHandle
<1>3. Users' = Users \ {p}
  BY <1>2 DEF Users
<1>4. held' = [held EXCEPT ![p] = 0]
  BY DEF Die
<1>5. Abstract!Exit(p)
  BY <1>3, <1>4 DEF Abstract!Exit, Users
<1> QED
  BY <1>5 DEF Abstract!Next

(* Every step inside a library call is a step of the abstract semaphore:   *)
(* the last semop() of sem_create() attaches, the first one of sem_close() *)
(* detaches, that of sem_op() takes or gives back.                         *)
LEMMA InCallAbstract ==
    ASSUME LockInv, CountInv, HandleInv, UnitsInv, NEW p \in Proc, InCall(p)
    PROVE  [Abstract!Next]_(Abstract!vars)
<1>0. TypeOK
  BY DEF LockInv
<1>i. \A q \in Proc : pc[q] \notin {"open", "op"} => held[q] = 0
  BY DEF UnitsInv, Units
<1>1. CASE CreateGet(p) \/ CreateAgain(p) \/ CreateGetval(p) \/ CreateSetval0(p) \/ CreateSetval1(p)
           \/ CloseGetval(p) \/ CloseRm(p)
  <2>1. ~HasHandle(p) /\ ~HasHandle(p)' /\ held' = held /\ \A q \in Proc \ {p} : pc'[q] = pc[q]
    BY <1>0, <1>1 DEF CreateGet, CreateAgain, CreateGetval, CreateSetval0, CreateSetval1, CloseGetval,
                      CloseRm, Goto, HasHandle, TypeOK
  <2> QED
    BY <1>0, <2>1, Stutters
<1>2. CASE CreateLock(p) \/ CloseUnlock(p)
  <2>1. held' = held /\ (Moves(p, "c_lock", "c_getval", 0, 0) \/ Moves(p, "x_unlock", "idle", 0, 0))
    BY <1>0, <1>2, CallMoves DEF CreateLock, CloseUnlock
  <2>2. ~HasHandle(p) /\ ~HasHandle(p)' /\ \A q \in Proc \ {p} : pc'[q] = pc[q]
    BY <2>1 DEF Moves, HasHandle
  <2> QED
    BY <1>0, <2>1, <2>2, Stutters
<1>3. CASE CreateEnd(p)
  <2>1. held' = held /\ Moves(p, "c_end", "open", 0, -1)
    BY <1>0, <1>3, CallMoves DEF CreateEnd
  <2>2. ~HasHandle(p) /\ HasHandle(p)' /\ \A q \in Proc \ {p} : HasHandle(q)' <=> HasHandle(q)
    BY <2>1 DEF Moves, HasHandle
  <2>3. p \notin Users /\ Users' = Users \cup {p}
    BY <2>2 DEF Users
  <2>4. Abstract!Attach(p)
    BY <2>1, <2>3 DEF Abstract!Attach, Users
  <2> QED
    BY <2>4 DEF Abstract!Next
<1>4. ~OpenDec(p)
  BY DEF OpenDec, Semop, HandleInv
<1>5. CASE OpDo(p)
  <2> DEFINE a == amt[p]
  <2>1. a \in Int /\ held[p] \in Int /\ sem[Value] \in Nat /\ InitVal \in Nat /\ held \in [Proc -> Int]
    BY <1>0, SemaphAssumption DEF TypeOK, Member, Value
  <2>2. Moves(p, "op", "open", a, 0) /\ held' = [held EXCEPT ![p] = @ - a]
    BY <1>0, <1>5, CallMoves DEF OpDo
  <2>3. /\ pc[p] = "op" /\ id[p] = "live" /\ sem'[Value] = sem[Value] + a /\ sem'[Value] \in Nat
    BY <2>2 DEF Moves, Member, Value
  <2>4. a \in Amounts /\ a <= held[p]
    BY <2>3 DEF UnitsInv, Units
  <2>5. sem[Value] + Total(held) = InitVal
    <3>1. Counted(p)
      BY <2>3 DEF Counted
    <3> QED
      BY <3>1, UserCounted DEF UnitsInv, UnitsLeft
  <2> HIDE DEF a
  <2>6. Total(held) \in Int
    BY <2>1, TotalChange
  <2>7. Total(held) - a <= InitVal /\ held[p] - a >= 0
    BY <2>1, <2>3, <2>4, <2>5, <2>6
  <2>8. HasHandle(p) /\ \A q \in Proc : HasHandle(q)' <=> HasHandle(q)
    BY <2>2 DEF Moves, HasHandle
  <2>9. p \in Users /\ Users' = Users
    BY <2>8 DEF Users
  <2>10. Abstract!Op(p, a)
    BY <2>2, <2>7, <2>9 DEF Abstract!Op, Users, Total
  <2> QED
    BY <2>4, <2>10 DEF Abstract!Next
<1>6. CASE CloseLock(p)
  <2>1. held' = held /\ Moves(p, "x_lock", "x_getval", 0, 1)
    BY <1>0, <1>6, CallMoves DEF CloseLock
  <2>2. HasHandle(p) /\ ~HasHandle(p)' /\ \A q \in Proc \ {p} : HasHandle(q)' <=> HasHandle(q)
    BY <2>1 DEF Moves, HasHandle
  <2>3. p \in Users /\ Users' = Users \ {p}
    BY <2>2 DEF Users
  <2>4. held[p] = 0
    BY <1>i, <2>1 DEF Moves
  <2>5. Abstract!Detach(p)
    BY <2>1, <2>3, <2>4 DEF Abstract!Detach, Users
  <2> QED
    BY <2>5 DEF Abstract!Next
<1>7. CASE CloseDump(p) \/ SysError(p)
  BY <1>0, <1>7, DieAbstract DEF CloseDump, SysError
<1>8. CASE Sleep(p)
  <2>1. pc' = pc /\ held' = held
    BY <1>8 DEF Sleep, Blocks
  <2> QED
    BY <1>0, <2>1, Stutters DEF HasHandle
<1> QED
  BY <1>1, <1>2, <1>3, <1>4, <1>5, <1>6, <1>7, <1>8 DEF InCall, Create, Close

(* And every step of a client.                                             *)
LEMMA ClientAbstract ==
    ASSUME Openers = {}, Servers = {}, TypeOK, NEW p \in Proc, Client(p)
    PROVE  [Abstract!Next]_(Abstract!vars)
<1>1. CASE CreateCall(p) \/ OpCall(p) \/ CloseCall(p)
  <2>1. held' = held /\ (\A q \in Proc \ {p} : pc'[q] = pc[q]) /\ (HasHandle(p)' <=> HasHandle(p))
    BY <1>1 DEF CreateCall, OpCall, CloseCall, Goto, HasHandle, TypeOK
  <2> QED
    BY <2>1, Stutters
<1>2. CASE OpZero(p)
  BY <1>2, DieAbstract DEF OpZero
<1>3. ~OpenCall(p) /\ ~RmCall(p) /\ ~RmError(p)
  BY DEF OpenCall, RmCall, RmError
<1> QED
  BY <1>1, <1>2, <1>3 DEF Client

LEMMA NextAbstract ==
    ASSUME Openers = {}, Servers = {}
    PROVE  LockInv /\ CountInv /\ HandleInv /\ UnitsInv /\ [Next]_vars => [Abstract!Next]_(Abstract!vars)
<1> SUFFICES ASSUME LockInv, CountInv, HandleInv, UnitsInv, [Next]_vars
             PROVE  [Abstract!Next]_(Abstract!vars)
  OBVIOUS
<1>0. TypeOK
  BY DEF LockInv
<1>1. ASSUME NEW p \in Proc, Exit(p) PROVE [Abstract!Next]_(Abstract!vars)
  BY <1>0, <1>1, DieAbstract DEF Exit
<1>2. ASSUME NEW p \in Proc, Restart(p) PROVE [Abstract!Next]_(Abstract!vars)
  <2>1. held' = held /\ (\A q \in Proc \ {p} : pc'[q] = pc[q]) /\ ~HasHandle(p)' /\ ~HasHandle(p)
    BY <1>0, <1>2 DEF Restart, Goto, HasHandle, TypeOK
  <2> QED
    BY <1>0, <2>1, Stutters
<1>3. CASE UNCHANGED vars
  BY <1>3 DEF vars, Abstract!vars, HasHandle
<1> QED
  BY <1>0, <1>1, <1>2, <1>3, InCallAbstract, ClientAbstract DEF Next

(* Processes that use sem_create(), sem_op() and sem_close() see one       *)
(* counting semaphore: the set that is made, removed and made anew, the    *)
(* counter, the lock and the deaths inside a call are invisible.           *)
THEOREM Implementation ==
    ASSUME Cardinality(Proc) < BIGCOUNT, Openers = {}, Servers = {}
    PROVE  Spec => ImplementsSemaphore
<1> DEFINE I == LockInv /\ CountInv /\ HandleInv /\ UnitsInv
<1>1. Init => I
  <2>1. Init => HandleInv
    BY DEF Init, HandleInv, HandleStays, Removing, HasHandle
  <2> QED
    BY <2>1, InitLockInv, InitCountInv, InitUnits DEF CountInv
<1>2. I /\ [Next]_vars => I'
  BY NextLockInv, NextCountInv, NextHandleInv, NextUnits
<1>3. I /\ [Next]_vars => [Abstract!Next]_(Abstract!vars)
  BY NextAbstract
<1>4. Init => Abstract!Init
  BY DEF Init, Abstract!Init, HasHandle
<1> QED
  BY <1>1, <1>2, <1>3, <1>4, PTL DEF Spec, ImplementsSemaphore, Abstract!Spec
=============================================================================
