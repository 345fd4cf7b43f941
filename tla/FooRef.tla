------------------------------- MODULE FooRef -------------------------------
(***************************************************************************)
(* The reference count of ch11_pthread_mutex.c: foo_alloc(), foo_hold()    *)
(* and foo_rele(), used by threads each of which has at most one reference *)
(* and gives another thread one by calling foo_hold() for it.              *)
(***************************************************************************)
EXTENDS Integers, FiniteSets

CONSTANTS Thread, Allocator   \* the thread that calls foo_alloc()

ASSUME ThreadAssumption == IsFiniteSet(Thread) /\ Allocator \in Thread

VARIABLES
    f_count, f_lock,   \* the object's fields; f_lock holds the owner, if any
    mem,               \* "allocated", "destroyed" (its mutex), "freed"
    refs,              \* the threads that have a reference
    given,             \* the thread for which foo_hold() takes the reference
    seen,              \* what f_count++ or --f_count has read
    thr                \* where each thread is

fooVars == <<f_count, f_lock, mem, refs, given, seen, thr>>

FooInit ==
    /\ f_count = 1 /\ f_lock = {}
    /\ mem = "allocated"
    /\ refs = {Allocator}
    /\ given = [t \in Thread |-> t]
    /\ seen = [t \in Thread |-> 0]
    /\ thr = [t \in Thread |-> "outside"]

-----------------------------------------------------------------------------
Lock(t) == f_lock = {} /\ f_lock' = {t}
Unlock == f_lock' = {}
At(t, place) == thr' = [thr EXCEPT ![t] = place]

(* foo_hold(fp), by a thread with a reference, for one without.            *)
Fault_HoldLock(t, u) ==
    /\ thr[t] = "outside" /\ t \in refs /\ u \notin refs
    /\ given' = [given EXCEPT ![t] = u]
    /\ At(t, "hold")
    /\ UNCHANGED <<f_lock, f_count, mem, refs, seen>>
HoldLock(t, u) ==
    /\ thr[t] = "outside" /\ t \in refs /\ u \notin refs
    /\ Lock(t)
    /\ given' = [given EXCEPT ![t] = u]
    /\ At(t, "hold")
    /\ UNCHANGED <<f_count, mem, refs, seen>>

(* fp->f_count++ reads and writes.                                         *)
HoldRead(t) ==
    /\ thr[t] = "hold"
    /\ seen' = [seen EXCEPT ![t] = f_count]
    /\ At(t, "hold_inc")
    /\ UNCHANGED <<f_count, f_lock, mem, refs, given>>

HoldWrite(t) ==
    /\ thr[t] = "hold_inc"
    /\ f_count' = seen[t] + 1
    /\ At(t, "hold_done")
    /\ UNCHANGED <<f_lock, mem, refs, given, seen>>

(* Back from foo_hold(), the thread hands the reference over.              *)
HoldUnlock(t) ==
    /\ thr[t] = "hold_done"
    /\ Unlock
    /\ refs' = refs \cup {given[t]}
    /\ At(t, "outside")
    /\ UNCHANGED <<f_count, mem, given, seen>>

(* foo_rele(fp): the thread gives up its reference.                        *)
ReleLock(t) ==
    /\ thr[t] = "outside" /\ t \in refs
    /\ Lock(t)
    /\ refs' = refs \ {t}
    /\ At(t, "rele")
    /\ UNCHANGED <<f_count, mem, given, seen>>

ReleRead(t) ==
    /\ thr[t] = "rele"
    /\ seen' = [seen EXCEPT ![t] = f_count]
    /\ At(t, "rele_dec")
    /\ UNCHANGED <<f_count, f_lock, mem, refs, given>>

Fault_ReleWrite(t) ==
    /\ thr[t] = "rele_dec"
    /\ f_count' = seen[t] - 1
    /\ At(t, IF seen[t] = 0 THEN "rele_last" ELSE "rele_done")
    /\ UNCHANGED <<f_lock, mem, refs, given, seen>>
ReleWrite(t) ==
    /\ thr[t] = "rele_dec"
    /\ f_count' = seen[t] - 1
    /\ At(t, IF f_count' = 0 THEN "rele_last" ELSE "rele_done")
    /\ UNCHANGED <<f_lock, mem, refs, given, seen>>

ReleUnlock(t) ==
    /\ thr[t] = "rele_done"
    /\ Unlock
    /\ At(t, "outside")
    /\ UNCHANGED <<f_count, mem, refs, given, seen>>

(* The last reference: unlock, destroy the mutex, free.                    *)
LastUnlock(t) ==
    /\ thr[t] = "rele_last"
    /\ Unlock
    /\ At(t, "free")
    /\ UNCHANGED <<f_count, mem, refs, given, seen>>

LastDestroy(t) ==
    /\ thr[t] = "free" /\ mem = "allocated"
    /\ mem' = "destroyed"
    /\ UNCHANGED <<f_count, f_lock, refs, given, seen, thr>>

LastFree(t) ==
    /\ thr[t] = "free" /\ mem = "destroyed"
    /\ mem' = "freed"
    /\ At(t, "outside")
    /\ UNCHANGED <<f_count, f_lock, refs, given, seen>>

FooStep(t) == \/ \E u \in Thread : HoldLock(t, u)
              \/ HoldRead(t) \/ HoldWrite(t) \/ HoldUnlock(t)
              \/ ReleLock(t) \/ ReleRead(t) \/ ReleWrite(t) \/ ReleUnlock(t)
              \/ LastUnlock(t) \/ LastDestroy(t) \/ LastFree(t)

FooNext == \E t \in Thread : FooStep(t)

FooSpec == FooInit /\ [][FooNext]_fooVars

-----------------------------------------------------------------------------
(* Properties.                                                             *)

(* Once foo_rele() has destroyed the mutex no other thread has a reference *)
(* or is inside foo_hold() or foo_rele(): nobody touches the freed object. *)
NoUseAfterFree ==
    mem # "allocated" => /\ refs = {} /\ f_lock = {}
                         /\ \A t \in Thread : thr[t] \in {"outside", "free"}

(* The object does not outlive its last reference: f_count reached 0.      *)
NotLeaked ==
    (refs = {} /\ \A t \in Thread : thr[t] = "outside") => mem = "freed"

(* For the proofs: who has the mutex, and what f_count counts.             *)
FooTypes ==
    /\ f_count \in Nat /\ f_lock \subseteq Thread
    /\ mem \in {"allocated", "destroyed", "freed"}
    /\ refs \subseteq Thread /\ given \in [Thread -> Thread]
    /\ seen \in [Thread -> Nat]
    /\ thr \in [Thread -> {"outside", "hold", "hold_inc", "hold_done",
                          "rele", "rele_dec", "rele_done", "rele_last", "free"}]

Inside(t) == thr[t] \notin {"outside", "free"}

MutexInv ==
    /\ f_lock = {t \in Thread : Inside(t)}
    /\ \A t, u \in f_lock : t = u

(* A reference being handed over, or given up, is counted but nobody's.    *)
Between == {t \in Thread : thr[t] \in {"hold_done", "rele", "rele_dec"}}

CountInv ==
    /\ f_count = Cardinality(refs) + Cardinality(Between)
    /\ \A t \in Thread : thr[t] \in {"hold_inc", "rele_dec"} => seen[t] = f_count

HoldInv ==
    \A t \in Thread :
        /\ thr[t] \in {"hold", "hold_inc", "hold_done"} => t \in refs /\ given[t] \notin refs
        /\ thr[t] = "rele_done" => refs # {}

(* After the last reference there is one thread left in foo_rele().        *)
Last(t) == thr[t] \in {"rele_last", "free"}

FreeInv ==
    /\ \A t \in Thread : Last(t) => refs = {} /\ \A u \in Thread \ {t} : thr[u] = "outside"
    /\ mem = "destroyed" => \E t \in Thread : thr[t] = "free"
    /\ mem = "freed" => refs = {} /\ \A t \in Thread : thr[t] = "outside"

FooInv == FooTypes /\ MutexInv /\ CountInv /\ HoldInv /\ FreeInv /\ NotLeaked
=============================================================================
