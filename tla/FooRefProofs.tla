---------------------------- MODULE FooRefProofs ----------------------------
(***************************************************************************)
(* Proofs about FooRef: for any finite set of threads, the object of       *)
(* ch11_pthread_mutex.c is freed when its last reference is given up, and  *)
(* not touched afterwards.                                                 *)
(***************************************************************************)
EXTENDS FooRef, FiniteSetTheorems, TLAPS

(* Finite, because the threads are.                                        *)
LEMMA Finite ==
    ASSUME FooTypes
    PROVE  IsFiniteSet(refs) /\ IsFiniteSet(Between)
BY ThreadAssumption, FS_Subset DEF FooTypes, Between

(* Initially main() has the one reference foo_alloc() counts.              *)
LEMMA InitInv == FooInit => FooInv
<1>. SUFFICES ASSUME FooInit PROVE FooInv  OBVIOUS
<1>1. FooTypes /\ MutexInv /\ HoldInv /\ FreeInv /\ NotLeaked
  BY ThreadAssumption DEF FooInit, FooTypes, MutexInv, Inside, HoldInv, FreeInv, Last, NotLeaked
<1>2. CountInv
  <2>1. Between = {}  BY DEF FooInit, Between
  <2>2. Cardinality(Between) = 0  BY <2>1, FS_EmptySet
  <2>3. Cardinality(refs) = 1  BY FS_Singleton DEF FooInit
  <2>. QED  BY <2>2, <2>3 DEF FooInit, CountInv
<1>. QED  BY <1>1, <1>2 DEF FooInv

(* Every step keeps the types; that f_count stays a natural number needs   *)
(* the thread that decrements it to be counted.                            *)
LEMMA TypesStep ==
    ASSUME FooInv, NEW t \in Thread, FooStep(t)
    PROVE  FooTypes'
<1>. USE DEF FooInv, FooTypes, At, Lock, Unlock
<1>1. CASE \E u \in Thread : HoldLock(t, u)  BY <1>1 DEF HoldLock
<1>2. CASE HoldRead(t) \/ HoldWrite(t)  BY <1>2 DEF HoldRead, HoldWrite
<1>3. CASE HoldUnlock(t)  BY <1>3 DEF HoldUnlock
<1>4. CASE ReleLock(t) \/ ReleRead(t) \/ ReleUnlock(t)  BY <1>4 DEF ReleLock, ReleRead, ReleUnlock
<1>5. CASE ReleWrite(t)
  <2>1. seen[t] = f_count  BY <1>5 DEF ReleWrite, CountInv
  <2>2. t \in Between  BY <1>5 DEF ReleWrite, Between
  <2>3. Cardinality(Between) # 0 /\ Cardinality(Between) \in Nat /\ Cardinality(refs) \in Nat
    BY <2>2, Finite, FS_EmptySet, FS_CardinalityType
  <2>4. f_count - 1 \in Nat  BY <2>3 DEF CountInv
  <2>. QED  BY <1>5, <2>1, <2>4 DEF ReleWrite
<1>6. CASE LastUnlock(t) \/ LastDestroy(t) \/ LastFree(t)
  BY <1>6 DEF LastUnlock, LastDestroy, LastFree
<1>. QED  BY <1>1, <1>2, <1>3, <1>4, <1>5, <1>6 DEF FooStep

(* The mutex belongs to the one thread that is between lock and unlock.    *)
LEMMA MutexStep ==
    ASSUME FooInv, NEW t \in Thread, FooStep(t)
    PROVE  MutexInv'
<1>. USE DEF FooInv, FooTypes, MutexInv, Inside, At, Lock, Unlock
<1>1. CASE \E u \in Thread : HoldLock(t, u)  BY <1>1 DEF HoldLock
<1>2. CASE HoldRead(t) \/ HoldWrite(t)  BY <1>2 DEF HoldRead, HoldWrite
<1>3. CASE HoldUnlock(t)  BY <1>3 DEF HoldUnlock
<1>4. CASE ReleLock(t)  BY <1>4 DEF ReleLock
<1>5. CASE ReleRead(t) \/ ReleWrite(t)  BY <1>5 DEF ReleRead, ReleWrite
<1>6. CASE ReleUnlock(t) \/ LastUnlock(t)  BY <1>6 DEF ReleUnlock, LastUnlock
<1>7. CASE LastDestroy(t) \/ LastFree(t)  BY <1>7 DEF LastDestroy, LastFree
<1>. QED  BY <1>1, <1>2, <1>3, <1>4, <1>5, <1>6, <1>7 DEF FooStep

(* f_count counts the references, also those on their way.                 *)
LEMMA CountStep ==
    ASSUME FooInv, NEW t \in Thread, FooStep(t)
    PROVE  CountInv'
<1>. USE DEF FooInv, FooTypes, MutexInv, CountInv, Inside, At, Lock, Unlock
<1>0. /\ IsFiniteSet(refs) /\ IsFiniteSet(Between)
      /\ Cardinality(refs) \in Nat /\ Cardinality(Between) \in Nat
  BY Finite, FS_CardinalityType
<1>1. CASE \E u \in Thread : HoldLock(t, u)
  <2>1. Between' = Between  BY <1>1 DEF HoldLock, Between
  <2>. QED  BY <1>1, <2>1 DEF HoldLock
<1>2. CASE HoldRead(t)
  <2>1. Between' = Between  BY <1>2 DEF HoldRead, Between
  <2>. QED  BY <1>2, <2>1 DEF HoldRead
<1>3. CASE HoldWrite(t)
  <2>1. Between' = Between \cup {t} /\ t \notin Between  BY <1>3 DEF HoldWrite, Between
  <2>2. Cardinality(Between') = Cardinality(Between) + 1  BY <1>0, <2>1, FS_AddElement
  <2>3. f_count' = f_count + 1  BY <1>3 DEF HoldWrite
  <2>4. \A u \in Thread : thr'[u] \notin {"hold_inc", "rele_dec"}  BY <1>3 DEF HoldWrite
  <2>. QED  BY <1>0, <1>3, <2>2, <2>3, <2>4 DEF HoldWrite
<1>4. CASE HoldUnlock(t)
  <2>1. Between' = Between \ {t} /\ t \in Between  BY <1>4 DEF HoldUnlock, Between
  <2>2. Cardinality(Between') = Cardinality(Between) - 1  BY <1>0, <2>1, FS_RemoveElement
  <2>3. refs' = refs \cup {given[t]} /\ given[t] \notin refs  BY <1>4 DEF HoldUnlock, HoldInv
  <2>4. Cardinality(refs') = Cardinality(refs) + 1  BY <1>0, <2>3, FS_AddElement
  <2>5. \A u \in Thread : thr'[u] \notin {"hold_inc", "rele_dec"}  BY <1>4 DEF HoldUnlock
  <2>. QED  BY <1>0, <1>4, <2>2, <2>4, <2>5 DEF HoldUnlock
<1>5. CASE ReleLock(t)
  <2>1. Between' = Between \cup {t} /\ t \notin Between  BY <1>5 DEF ReleLock, Between
  <2>2. Cardinality(Between') = Cardinality(Between) + 1  BY <1>0, <2>1, FS_AddElement
  <2>3. refs' = refs \ {t} /\ t \in refs  BY <1>5 DEF ReleLock
  <2>4. Cardinality(refs') = Cardinality(refs) - 1  BY <1>0, <2>3, FS_RemoveElement
  <2>5. \A u \in Thread : thr'[u] \notin {"hold_inc", "rele_dec"}  BY <1>5 DEF ReleLock
  <2>. QED  BY <1>0, <1>5, <2>2, <2>4, <2>5 DEF ReleLock
<1>6. CASE ReleRead(t)
  <2>1. Between' = Between  BY <1>6 DEF ReleRead, Between
  <2>. QED  BY <1>6, <2>1 DEF ReleRead
<1>7. CASE ReleWrite(t)
  <2>1. Between' = Between \ {t} /\ t \in Between  BY <1>7 DEF ReleWrite, Between
  <2>2. Cardinality(Between') = Cardinality(Between) - 1  BY <1>0, <2>1, FS_RemoveElement
  <2>3. f_count' = f_count - 1  BY <1>7 DEF ReleWrite
  <2>4. \A u \in Thread : thr'[u] \notin {"hold_inc", "rele_dec"}  BY <1>7 DEF ReleWrite
  <2>. QED  BY <1>0, <1>7, <2>2, <2>3, <2>4 DEF ReleWrite
<1>8. CASE ReleUnlock(t) \/ LastUnlock(t)
  <2>1. Between' = Between  BY <1>8 DEF ReleUnlock, LastUnlock, Between
  <2>. QED  BY <1>8, <2>1 DEF ReleUnlock, LastUnlock
<1>9. CASE LastDestroy(t) \/ LastFree(t)
  <2>1. Between' = Between  BY <1>9 DEF LastDestroy, LastFree, Between
  <2>. QED  BY <1>9, <2>1 DEF LastDestroy, LastFree
<1>. QED  BY <1>1, <1>2, <1>3, <1>4, <1>5, <1>6, <1>7, <1>8, <1>9 DEF FooStep

(* The decrement that leaves f_count at 0 leaves no reference, and any     *)
(* other leaves one.                                                       *)
LEMMA Decrement ==
    ASSUME FooInv, NEW t \in Thread, ReleWrite(t)
    PROVE  (f_count' = 0) <=> (refs = {})
<1>1. Between = {t}
  BY DEF FooInv, FooTypes, MutexInv, Inside, Between, ReleWrite
<1>2. Cardinality(Between) = 1  BY <1>1, FS_Singleton
<1>3. f_count' = Cardinality(refs)
  BY <1>2, Finite, FS_CardinalityType DEF FooInv, CountInv, ReleWrite
<1>. QED  BY <1>3, Finite, FS_EmptySet DEF FooInv

(* Who is inside foo_hold() has a reference, for a thread that has none.   *)
LEMMA HoldStep ==
    ASSUME FooInv, NEW t \in Thread, FooStep(t)
    PROVE  HoldInv'
<1>. USE DEF FooInv, FooTypes, MutexInv, HoldInv, Inside, At, Lock, Unlock
<1>1. CASE \E u \in Thread : HoldLock(t, u)  BY <1>1 DEF HoldLock
<1>2. CASE HoldRead(t) \/ HoldWrite(t)  BY <1>2 DEF HoldRead, HoldWrite
<1>3. CASE HoldUnlock(t)  BY <1>3 DEF HoldUnlock
<1>4. CASE ReleLock(t)  BY <1>4 DEF ReleLock
<1>5. CASE ReleRead(t)  BY <1>5 DEF ReleRead
<1>6. CASE ReleWrite(t)  BY <1>6, Decrement DEF ReleWrite
<1>7. CASE ReleUnlock(t) \/ LastUnlock(t)  BY <1>7 DEF ReleUnlock, LastUnlock
<1>8. CASE LastDestroy(t) \/ LastFree(t)  BY <1>8 DEF LastDestroy, LastFree
<1>. QED  BY <1>1, <1>2, <1>3, <1>4, <1>5, <1>6, <1>7, <1>8 DEF FooStep

(* The thread that found f_count at 0 is alone with the object.            *)
LEMMA FreeStep ==
    ASSUME FooInv, NEW t \in Thread, FooStep(t)
    PROVE  FreeInv' /\ NotLeaked'
<1>. USE DEF FooInv, FooTypes, MutexInv, HoldInv, FreeInv, Last, NotLeaked, Inside, At, Lock, Unlock
<1>1. CASE \E u \in Thread : HoldLock(t, u)  BY <1>1 DEF HoldLock
<1>2. CASE HoldRead(t)  BY <1>2 DEF HoldRead
<1>3. CASE HoldWrite(t)  BY <1>3 DEF HoldWrite
<1>4. CASE HoldUnlock(t)  BY <1>4 DEF HoldUnlock
<1>5. CASE ReleLock(t)  BY <1>5 DEF ReleLock
<1>6. CASE ReleRead(t)  BY <1>6 DEF ReleRead
<1>7. CASE ReleWrite(t)
  <2>1. (f_count' = 0) <=> (refs = {})  BY <1>7, Decrement
  <2>2. /\ thr' = [thr EXCEPT ![t] = IF f_count' = 0 THEN "rele_last" ELSE "rele_done"]
        /\ thr[t] = "rele_dec" /\ UNCHANGED <<mem, refs>>
    BY <1>7 DEF ReleWrite
  <2>3. \A u \in Thread : thr[u] \notin {"rele_last", "free"}
    BY <2>2
  <2>4. \A u \in Thread \ {t} : thr[u] = "outside"
    BY <2>2, <2>3
  <2>. QED  BY <2>1, <2>2, <2>3, <2>4
<1>8. CASE ReleUnlock(t)  BY <1>8 DEF ReleUnlock
<1>9. CASE LastUnlock(t)  BY <1>9 DEF LastUnlock
<1>10. CASE LastDestroy(t)  BY <1>10 DEF LastDestroy
<1>11. CASE LastFree(t)  BY <1>11 DEF LastFree
<1>. QED  BY <1>1, <1>2, <1>3, <1>4, <1>5, <1>6, <1>7, <1>8, <1>9, <1>10, <1>11 DEF FooStep

(* FooInv is an invariant of the reference count.                          *)
THEOREM Invariant == FooSpec => []FooInv
<1>1. FooInv /\ [FooNext]_fooVars => FooInv'
  <2>. SUFFICES ASSUME FooInv, [FooNext]_fooVars PROVE FooInv'  OBVIOUS
  <2>1. CASE UNCHANGED fooVars
    BY <2>1 DEF fooVars, FooInv, FooTypes, MutexInv, CountInv, HoldInv, FreeInv, Last, NotLeaked, Inside, Between
  <2>2. ASSUME NEW t \in Thread, FooStep(t) PROVE FooInv'
    BY <2>2, TypesStep, MutexStep, CountStep, HoldStep, FreeStep DEF FooInv
  <2>. QED  BY <2>1, <2>2 DEF FooNext
<1>. QED  BY <1>1, InitInv, PTL DEF FooSpec

(* Nobody touches the object once its mutex is destroyed.                  *)
THEOREM UseAfterFree == FooSpec => []NoUseAfterFree
<1>1. FooInv => NoUseAfterFree
  BY DEF FooInv, FooTypes, MutexInv, FreeInv, Last, Inside, NoUseAfterFree
<1>. QED  BY <1>1, Invariant, PTL

(* The object is freed when nobody has a reference any more.               *)
THEOREM Leak == FooSpec => []NotLeaked
<1>1. FooInv => NotLeaked  BY DEF FooInv
<1>. QED  BY <1>1, Invariant, PTL
=============================================================================
