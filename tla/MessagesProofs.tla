--------------------------- MODULE MessagesProofs ---------------------------
(***************************************************************************)
(* Proofs about the programs of MCMessages that pass messages, for every   *)
(* value of the constants.                                                 *)
(***************************************************************************)
EXTENDS MCMessages, SequenceTheorems, TLAPS

-----------------------------------------------------------------------------
(* The daemon.  What an instance still has to do is the end of `main' of   *)
(* some length, so that its place in the program is that length.           *)
CallNames == {"getrlimit", "fork", "setsid", "ignore SIGHUP", "chdir", "close", "null", "open", "lock",
              "truncate", "write", "default SIGHUP", "block", "thread", "exit"}
Rest(n) == SubSeq(D!main, 17 - n, 16)

LEMMA MainCalls ==
    /\ D!main \in Seq(CallNames) /\ Len(D!main) = 16
    /\ D!main[1] = "getrlimit" /\ D!main[2] = "fork" /\ D!main[3] = "setsid" /\ D!main[4] = "ignore SIGHUP"
    /\ D!main[5] = "fork" /\ D!main[6] = "chdir" /\ D!main[7] = "close" /\ D!main[8] = "null"
    /\ D!main[9] = "open" /\ D!main[10] = "lock" /\ D!main[11] = "truncate" /\ D!main[12] = "write"
    /\ D!main[13] = "default SIGHUP" /\ D!main[14] = "block" /\ D!main[15] = "thread" /\ D!main[16] = "exit"
<1>1. /\ D!daemonize \in Seq(CallNames) /\ Len(D!daemonize) = 8
      /\ D!already_running \in Seq(CallNames) /\ Len(D!already_running) = 4
      /\ D!serve \in Seq(CallNames) /\ Len(D!serve) = 4
  BY DEF D!daemonize, D!already_running, D!serve, CallNames
<1>. DEFINE da == D!daemonize \o D!already_running
<1>2. /\ da \in Seq(CallNames) /\ Len(da) = Len(D!daemonize) + Len(D!already_running)
      /\ \A i \in 1 .. Len(D!daemonize) + Len(D!already_running) :
            da[i] = IF i <= Len(D!daemonize) THEN D!daemonize[i] ELSE D!already_running[i - Len(D!daemonize)]
  BY <1>1, ConcatProperties
<1>3. D!main = da \o D!serve  BY DEF D!main
<1>. HIDE DEF da
<1>4. /\ D!main \in Seq(CallNames) /\ Len(D!main) = Len(da) + Len(D!serve)
      /\ \A i \in 1 .. Len(da) + Len(D!serve) :
            D!main[i] = IF i <= Len(da) THEN da[i] ELSE D!serve[i - Len(da)]
  <2>0. da \in Seq(CallNames) /\ D!serve \in Seq(CallNames)  BY <1>1, <1>2
  <2>1. /\ da \o D!serve \in Seq(CallNames) /\ Len(da \o D!serve) = Len(da) + Len(D!serve)
        /\ \A i \in 1 .. Len(da) + Len(D!serve) :
              (da \o D!serve)[i] = IF i <= Len(da) THEN da[i] ELSE D!serve[i - Len(da)]
    BY <2>0, ConcatProperties
  <2>. QED  BY <1>3, <2>1
<1>5. Len(da) = 12 /\ Len(D!main) = 16  BY <1>1, <1>2, <1>4
<1>6. \A i \in 1 .. 16 : D!main[i] = IF i <= 8 THEN D!daemonize[i]
                                    ELSE IF i <= 12 THEN D!already_running[i - 8] ELSE D!serve[i - 12]
  BY <1>1, <1>2, <1>4, <1>5
<1>7. /\ D!main[1] = D!daemonize[1] /\ D!main[2] = D!daemonize[2] /\ D!main[3] = D!daemonize[3]
      /\ D!main[4] = D!daemonize[4] /\ D!main[5] = D!daemonize[5] /\ D!main[6] = D!daemonize[6]
      /\ D!main[7] = D!daemonize[7] /\ D!main[8] = D!daemonize[8]
      /\ D!main[9] = D!already_running[1] /\ D!main[10] = D!already_running[2]
      /\ D!main[11] = D!already_running[3] /\ D!main[12] = D!already_running[4]
      /\ D!main[13] = D!serve[1] /\ D!main[14] = D!serve[2] /\ D!main[15] = D!serve[3] /\ D!main[16] = D!serve[4]
  BY <1>6
<1>. QED  BY <1>4, <1>5, <1>7 DEF D!daemonize, D!already_running, D!serve

(* Which call is where in `main'.                                          *)
LEMMA MainIndex ==
    ASSUME NEW m \in 1 .. 16
    PROVE  /\ D!main[m] = "lock" => m = 10
           /\ D!main[m] = "truncate" => m = 11
           /\ D!main[m] = "write" => m = 12
           /\ D!main[m] = "fork" => m \in {2, 5}
           /\ D!main[m] = "close" => m = 7
           /\ D!main[m] \in {"getrlimit", "chdir", "null", "open", "setsid", "ignore SIGHUP"} => m < 10
           /\ D!main[m] \in {"default SIGHUP", "block", "thread"} => m \in 13 .. 15
<1>1. \/ m = 1 \/ m = 2 \/ m = 3 \/ m = 4 \/ m = 5 \/ m = 6 \/ m = 7 \/ m = 8
      \/ m = 9 \/ m = 10 \/ m = 11 \/ m = 12 \/ m = 13 \/ m = 14 \/ m = 15 \/ m = 16
  OBVIOUS
<1>. DEFINE f == D!main
<1>2. /\ f[1] = "getrlimit" /\ f[2] = "fork" /\ f[3] = "setsid" /\ f[4] = "ignore SIGHUP"
      /\ f[5] = "fork" /\ f[6] = "chdir" /\ f[7] = "close" /\ f[8] = "null"
      /\ f[9] = "open" /\ f[10] = "lock" /\ f[11] = "truncate" /\ f[12] = "write"
      /\ f[13] = "default SIGHUP" /\ f[14] = "block" /\ f[15] = "thread" /\ f[16] = "exit"
  BY MainCalls
<1>. HIDE DEF f
<1>3. /\ f[m] = "lock" => m = 10
      /\ f[m] = "truncate" => m = 11
      /\ f[m] = "write" => m = 12
      /\ f[m] = "fork" => m \in {2, 5}
      /\ f[m] = "close" => m = 7
  BY <1>1, <1>2
<1>4. /\ f[m] = "getrlimit" => m = 1
      /\ f[m] = "chdir" => m = 6
      /\ f[m] = "null" => m = 8
      /\ f[m] = "open" => m = 9
      /\ f[m] = "setsid" => m = 3
      /\ f[m] = "ignore SIGHUP" => m = 4
  BY <1>1, <1>2
<1>5. /\ f[m] = "default SIGHUP" => m = 13
      /\ f[m] = "block" => m = 14
      /\ f[m] = "thread" => m = 15
  BY <1>1, <1>2
<1>6. ASSUME f[m] \in {"getrlimit", "chdir", "null", "open", "setsid", "ignore SIGHUP"} PROVE m < 10
  <2>1. m \in {1, 6, 8, 9, 3, 4}  BY <1>4, <1>6, Zenon
  <2>. QED  BY <2>1
<1>7. ASSUME f[m] \in {"default SIGHUP", "block", "thread"} PROVE m \in 13 .. 15
  <2>1. m \in {13, 14, 15}  BY <1>5, <1>7, Zenon
  <2>. QED  BY <2>1
<1>. QED  BY <1>3, <1>6, <1>7, Zenon DEF f

(* What is left at a place.                                                *)
LEMMA RestOfMain ==
    ASSUME NEW n \in 0 .. 16
    PROVE  /\ Rest(n) \in Seq(CallNames) /\ Len(Rest(n)) = n
           /\ n > 0 => Head(Rest(n)) = D!main[17 - n] /\ Tail(Rest(n)) = Rest(n - 1)
<1>0. D!main \in Seq(CallNames) /\ Len(D!main) = 16  BY MainCalls
<1>1. \A i \in 17 - n .. 16 : D!main[i] \in CallNames
  <2>. TAKE i \in 17 - n .. 16
  <2>. i \in 1 .. Len(D!main)  BY <1>0
  <2>. QED  BY <1>0, ElementOfSeq
<1>2. Rest(n) \in Seq(CallNames) /\ Len(Rest(n)) = IF 17 - n <= 16 THEN 16 - (17 - n) + 1 ELSE 0
  BY <1>1, SubSeqProperties DEF Rest
<1>3. n > 0 => Head(Rest(n)) = D!main[17 - n] /\ Tail(Rest(n)) = Rest(n - 1)
  <2>. SUFFICES ASSUME n > 0 PROVE Head(Rest(n)) = D!main[17 - n] /\ Tail(Rest(n)) = Rest(n - 1)  OBVIOUS
  <2>1. 17 - n \in 1 .. Len(D!main) /\ 16 \in 17 - n .. Len(D!main) /\ (17 - n) + 1 = 17 - (n - 1)  BY <1>0
  <2>. QED  BY <1>0, <2>1, HeadTailOfSubSeq DEF Rest
<1>. QED  BY <1>2, <1>3

(* The inductive invariant: an instance that is behind "lock" (six calls   *)
(* or fewer are left) is the process that holds the lock, a lock has such  *)
(* a holder, and an instance behind "write" finds its pid in the file.     *)
Place(i) == Len(left[i])
Locked(i) == Place(i) \in 1 .. 6
DaemonTypes == /\ left \in [Instance -> {Rest(n) : n \in 0 .. 16}]
               /\ pid \in [Instance -> Instance \X Nat] /\ \A i \in Instance : pid[i][1] = i
HolderInv == /\ \A i \in Instance : Locked(i) => lock = pid[i]
             /\ lock # D!Nobody => \E i \in Instance : Locked(i) /\ lock = pid[i]
ContentInv == \A i \in Instance : Place(i) \in 1 .. 4 => unwritten \/ content = pid[i]
DaemonInv == DaemonTypes /\ HolderInv /\ ContentInv

(* What the length of the rest says about the next call.                   *)
LEMMA DaemonPlace ==
    ASSUME DaemonTypes, NEW i \in Instance
    PROVE  /\ Place(i) \in 0 .. 16 /\ left[i] = Rest(Place(i))
           /\ D!Lives(i) <=> Place(i) > 0
           /\ D!Lives(i) => Head(left[i]) = D!main[17 - Place(i)] /\ Tail(left[i]) = Rest(Place(i) - 1)
<1>1. PICK n \in 0 .. 16 : left[i] = Rest(n)  BY DEF DaemonTypes
<1>2. Place(i) = n  BY <1>1, RestOfMain DEF Place
<1>3. D!Lives(i) <=> n > 0
  <2>1. Rest(n) \in Seq(CallNames) /\ Len(Rest(n)) = n  BY RestOfMain
  <2>2. Rest(n) # << >> <=> n > 0  BY <2>1
  <2>. QED  BY <1>1, <2>2 DEF D!Lives
<1>. QED  BY <1>1, <1>2, <1>3, RestOfMain

LEMMA DaemonCall ==
    ASSUME DaemonTypes, NEW i \in Instance
    PROVE  /\ D!At(i, "lock") => Place(i) = 7
           /\ D!At(i, "truncate") => Place(i) = 6
           /\ D!At(i, "write") => Place(i) = 5
           /\ D!At(i, "fork") => Place(i) \in {12, 15}
           /\ D!At(i, "close") => Place(i) = 10
           /\ \A op \in {"getrlimit", "chdir", "null", "open", "setsid", "ignore SIGHUP"} :
                 D!At(i, op) => Place(i) > 7
           /\ \A op \in {"default SIGHUP", "block", "thread"} : D!At(i, op) => Place(i) \in 2 .. 4
<1>1. CASE D!Lives(i)
  <2>. DEFINE m == 17 - Place(i)
              h == Head(left[i])
  <2>1. m \in 1 .. 16 /\ Place(i) = 17 - m /\ h = D!main[m]
    BY <1>1, DaemonPlace
  <2>2. \A op : D!At(i, op) => h = op
    BY DEF D!At
  <2>. HIDE DEF m, h
  <2>3. /\ h = "lock" => m = 10
        /\ h = "truncate" => m = 11
        /\ h = "write" => m = 12
        /\ h = "fork" => m \in {2, 5}
        /\ h = "close" => m = 7
        /\ h \in {"getrlimit", "chdir", "null", "open", "setsid", "ignore SIGHUP"} => m < 10
        /\ h \in {"default SIGHUP", "block", "thread"} => m \in 13 .. 15
    BY <2>1, MainIndex
  <2>4. /\ m = 10 => Place(i) = 7
        /\ m = 11 => Place(i) = 6
        /\ m = 12 => Place(i) = 5
        /\ m \in {2, 5} => Place(i) \in {12, 15}
        /\ m = 7 => Place(i) = 10
        /\ m < 10 => Place(i) > 7
        /\ m \in 13 .. 15 => Place(i) \in 2 .. 4
    BY <2>1
  <2>. QED  BY <2>2, <2>3, <2>4, Zenon
<1>2. CASE ~D!Lives(i)
  BY <1>2 DEF D!At
<1>. QED  BY <1>1, <1>2

(* The two ways on: the next call, or the end.                             *)
LEMMA DaemonMove ==
    ASSUME DaemonTypes, NEW i \in Instance, D!Lives(i), D!Done(i) \/ D!Ends(i)
    PROVE  /\ left' \in [Instance -> {Rest(n) : n \in 0 .. 16}]
           /\ Place(i)' = IF D!Done(i) THEN Place(i) - 1 ELSE 0
           /\ \A j \in Instance \ {i} : Place(j)' = Place(j)
<1>1. left \in [Instance -> {Rest(n) : n \in 0 .. 16}] /\ left[i] = Rest(Place(i)) /\ Place(i) \in 1 .. 16
      /\ Tail(left[i]) = Rest(Place(i) - 1)
  BY DaemonPlace DEF DaemonTypes
<1>2. Place(i) - 1 \in 0 .. 16 /\ Len(Rest(Place(i) - 1)) = Place(i) - 1
  <2>1. Place(i) - 1 \in 0 .. 16  BY <1>1
  <2>. QED  BY <2>1, RestOfMain
<1>3. << >> = Rest(0) /\ Len(<< >>) = 0
  <2>1. Rest(0) \in Seq(CallNames) /\ Len(Rest(0)) = 0  BY RestOfMain
  <2>. QED  BY <2>1
<1>4. CASE D!Done(i)
  <2>1. left' = [left EXCEPT ![i] = Rest(Place(i) - 1)]  BY <1>1, <1>4 DEF D!Done
  <2>2. left'[i] = Rest(Place(i) - 1) /\ \A j \in Instance \ {i} : left'[j] = left[j]  BY <1>1, <2>1
  <2>3. left' \in [Instance -> {Rest(n) : n \in 0 .. 16}]  BY <1>1, <1>2, <2>1
  <2>. QED  BY <1>2, <1>4, <2>2, <2>3 DEF Place
<1>5. CASE ~D!Done(i) /\ D!Ends(i)
  <2>1. left' = [left EXCEPT ![i] = Rest(0)]  BY <1>3, <1>5 DEF D!Ends
  <2>2. left'[i] = Rest(0) /\ \A j \in Instance \ {i} : left'[j] = left[j]  BY <1>1, <2>1
  <2>3. left' \in [Instance -> {Rest(n) : n \in 0 .. 16}]  BY <1>1, <2>1
  <2>4. Len(Rest(0)) = 0  BY <1>3
  <2>. QED  BY <1>5, <2>2, <2>3, <2>4 DEF Place
<1>. QED  BY <1>4, <1>5

(* The first instances' places and pids.                                   *)
LEMMA DaemonStart == D!DaemonInit => DaemonInv
<1>. SUFFICES ASSUME D!DaemonInit PROVE DaemonInv  OBVIOUS
<1>1. D!main = Rest(16)
  <2>1. D!main \in Seq(CallNames) /\ Len(D!main) = 16  BY MainCalls
  <2>. QED  BY <2>1, SubSeqFull DEF Rest
<1>2. Len(Rest(16)) = 16 /\ Rest(16) \in {Rest(n) : n \in 0 .. 16}  BY RestOfMain
<1>3. left = [i \in Instance |-> Rest(16)] /\ pid = [i \in Instance |-> <<i, 0>>] /\ lock = D!Nobody
  BY <1>1 DEF D!DaemonInit
<1>4. DaemonTypes  BY <1>2, <1>3 DEF DaemonTypes
<1>5. \A i \in Instance : Place(i) = 16  BY <1>2, <1>3 DEF Place
<1>. QED  BY <1>3, <1>4, <1>5 DEF DaemonInv, HolderInv, ContentInv, Locked

(* Two instances never have one pid, and no pid is Nobody.                 *)
LEMMA Pids ==
    ASSUME DaemonTypes, NEW i \in Instance
    PROVE  pid[i] # D!Nobody /\ \A j \in Instance : pid[j] = pid[i] => j = i
<1>1. pid[i] \in Instance \X Nat  BY DEF DaemonTypes
<1>2. PICK p \in Instance, k \in Nat : pid[i] = <<p, k>>  BY <1>1
<1>3. <<p, k>> # << >>  OBVIOUS
<1>. QED  BY <1>2, <1>3 DEF DaemonTypes, D!Nobody

(* A step of an instance that is not behind "lock", nor after the step:    *)
(* it had no lock to lose.                                                 *)
LEMMA DaemonAside ==
    ASSUME DaemonInv, NEW i \in Instance, D!Lives(i), D!Done(i) \/ D!Ends(i), ~Locked(i), ~Locked(i)',
           D!Unlocked(i) \/ UNCHANGED lock, UNCHANGED <<content, unwritten>>,
           UNCHANGED pid \/ \E k \in Nat : pid' = [pid EXCEPT ![i] = <<i, k>>]
    PROVE  DaemonInv'
<1>1. DaemonTypes /\ HolderInv /\ ContentInv  BY DEF DaemonInv
<1>2. /\ left' \in [Instance -> {Rest(n) : n \in 0 .. 16}]
      /\ \A j \in Instance \ {i} : Place(j)' = Place(j) /\ (Locked(j)' <=> Locked(j))
  BY <1>1, DaemonMove DEF Locked
<1>3. /\ pid' \in [Instance -> Instance \X Nat] /\ \A j \in Instance : pid'[j][1] = j
      /\ \A j \in Instance \ {i} : pid'[j] = pid[j]
  BY <1>1 DEF DaemonTypes
<1>4. UNCHANGED lock
  <2>1. lock # pid[i]
    <3>1. \A j \in Instance : pid[j] = pid[i] => j = i  BY <1>1, Pids
    <3>2. pid[i] # D!Nobody  BY <1>1, Pids
    <3>. QED  BY <1>1, <3>1, <3>2 DEF HolderInv
  <2>. QED  BY <2>1 DEF D!Unlocked
<1>5. HolderInv'  BY <1>1, <1>2, <1>3, <1>4 DEF HolderInv
<1>6. ContentInv'
  <2>1. Place(i)' \notin 1 .. 4  BY DEF Locked
  <2>. QED  BY <1>1, <1>2, <1>3, <2>1 DEF ContentInv
<1>. QED  BY <1>2, <1>3, <1>5, <1>6 DEF DaemonInv, DaemonTypes

(* An instance that ends gives its lock back.                              *)
LEMMA DaemonOver ==
    ASSUME DaemonInv, NEW i \in Instance, D!Lives(i), D!Ends(i), D!Unlocked(i),
           UNCHANGED <<pid, content, unwritten>>
    PROVE  DaemonInv'
<1>1. DaemonTypes /\ HolderInv /\ ContentInv  BY DEF DaemonInv
<1>2. /\ left' \in [Instance -> {Rest(n) : n \in 0 .. 16}]
      /\ \A j \in Instance \ {i} : Place(j)' = Place(j) /\ (Locked(j)' <=> Locked(j))
  BY <1>1, DaemonMove DEF Locked
<1>3. Place(i)' = 0 /\ ~Locked(i)'
  <2>1. left' = [left EXCEPT ![i] = << >>]  BY DEF D!Ends
  <2>2. left'[i] = << >>  BY <1>1, <2>1 DEF DaemonTypes
  <2>. QED  BY <2>2 DEF Place, Locked
<1>4. \A j \in Instance : pid[j] = pid[i] => j = i  BY <1>1, Pids
<1>5. HolderInv'
  <2>1. CASE lock = pid[i]  BY <1>1, <1>2, <1>3, <1>4, <2>1 DEF HolderInv, D!Unlocked
  <2>2. CASE lock # pid[i]  BY <1>1, <1>2, <1>3, <2>2 DEF HolderInv, D!Unlocked
  <2>. QED  BY <2>1, <2>2
<1>6. ContentInv'  BY <1>1, <1>2, <1>3 DEF ContentInv
<1>. QED  BY <1>1, <1>2, <1>5, <1>6 DEF DaemonInv, DaemonTypes

(* The holder of the lock goes on: no other instance is behind "lock", so  *)
(* that what it does to the file concerns none.                            *)
LEMMA DaemonOn ==
    ASSUME DaemonInv, NEW i \in Instance, D!Lives(i), D!Done(i), Place(i) \in 2 .. 6, UNCHANGED <<pid, lock>>,
           \/ Place(i) # 5 /\ UNCHANGED <<content, unwritten>>
           \/ Place(i) = 6
           \/ Place(i) = 5 /\ (unwritten' \/ content' = pid[i])
    PROVE  DaemonInv'
<1>1. DaemonTypes /\ HolderInv /\ ContentInv  BY DEF DaemonInv
<1>2. /\ left' \in [Instance -> {Rest(n) : n \in 0 .. 16}]
      /\ Place(i)' = Place(i) - 1
      /\ \A j \in Instance \ {i} : Place(j)' = Place(j) /\ (Locked(j)' <=> Locked(j))
  BY <1>1, DaemonMove DEF Locked
<1>3. Locked(i) /\ Locked(i)'  BY <1>2 DEF Locked
<1>4. \A j \in Instance : pid[j] = pid[i] => j = i  BY <1>1, Pids
<1>5. \A j \in Instance \ {i} : ~Locked(j)  BY <1>1, <1>3, <1>4 DEF HolderInv
<1>6. HolderInv'  BY <1>1, <1>2, <1>3 DEF HolderInv
<1>7. ContentInv'
  <2>1. \A j \in Instance \ {i} : Place(j)' \notin 1 .. 4  BY <1>2, <1>5 DEF Locked
  <2>2. Place(i)' \in 1 .. 4 => unwritten' \/ content' = pid[i]  BY <1>1, <1>2 DEF ContentInv
  <2>. QED  BY <2>1, <2>2 DEF ContentInv
<1>. QED  BY <1>1, <1>2, <1>6, <1>7 DEF DaemonInv, DaemonTypes

(* The lock is taken.                                                      *)
LEMMA DaemonLocks ==
    ASSUME DaemonInv, NEW i \in Instance, D!Lives(i), D!Done(i), Place(i) = 7, lock = D!Nobody, lock' = pid[i],
           UNCHANGED <<pid, content, unwritten>>
    PROVE  DaemonInv'
<1>1. DaemonTypes /\ HolderInv /\ ContentInv  BY DEF DaemonInv
<1>2. /\ left' \in [Instance -> {Rest(n) : n \in 0 .. 16}]
      /\ Place(i)' = Place(i) - 1
      /\ \A j \in Instance \ {i} : Place(j)' = Place(j) /\ (Locked(j)' <=> Locked(j))
  BY <1>1, DaemonMove DEF Locked
<1>3. Locked(i)' /\ Place(i)' \notin 1 .. 4  BY <1>2 DEF Locked
<1>4. \A j \in Instance : ~Locked(j)
  <2>1. \A j \in Instance : pid[j] # D!Nobody  BY <1>1, Pids
  <2>. QED  BY <1>1, <2>1 DEF HolderInv
<1>5. HolderInv'  BY <1>2, <1>3, <1>4 DEF HolderInv
<1>6. ContentInv'  BY <1>1, <1>2, <1>3 DEF ContentInv
<1>. QED  BY <1>1, <1>2, <1>5, <1>6 DEF DaemonInv, DaemonTypes

(* Every step of the daemon keeps the invariant.                           *)
LEMMA DaemonStep == DaemonInv /\ [D!DaemonNext]_daemonVars => DaemonInv'
<1>. SUFFICES ASSUME DaemonInv, [D!DaemonNext]_daemonVars PROVE DaemonInv'  OBVIOUS
<1>0. DaemonTypes /\ HolderInv /\ ContentInv  BY DEF DaemonInv
<1>1. CASE UNCHANGED daemonVars
  BY <1>0, <1>1 DEF daemonVars, DaemonInv, DaemonTypes, HolderInv, ContentInv, Locked, Place
<1>2. ASSUME NEW i \in Instance,
             \/ D!Call(i) \/ D!Setsid(i) \/ D!Fork(i) \/ D!CloseAll(i) \/ D!Lock(i) \/ D!Truncate(i)
             \/ D!Write(i) \/ D!Sighup(i) \/ D!Block(i) \/ D!Thread(i) \/ D!Exit(i)
             \/ D!thr_fn(i) \/ D!reread(i) \/ D!Signal(i)
      PROVE  DaemonInv'
  <2>1. ASSUME NEW op, D!At(i, op) PROVE D!Lives(i) /\ Place(i) \in 1 .. 16
    BY <1>0, <2>1, DaemonPlace DEF D!At
  <2>2. ASSUME D!Lives(i), D!Done(i), Place(i) > 7 PROVE ~Locked(i) /\ ~Locked(i)'
    BY <1>0, <2>2, DaemonMove, DaemonPlace DEF Locked
  <2>3. ASSUME D!Ends(i) PROVE ~Locked(i)'
    <3>1. left' = [left EXCEPT ![i] = << >>]  BY <2>3 DEF D!Ends
    <3>2. left'[i] = << >>  BY <1>0, <3>1 DEF DaemonTypes
    <3>. QED  BY <3>2 DEF Place, Locked
  <2>4. /\ D!At(i, "lock") => Place(i) = 7
        /\ D!At(i, "truncate") => Place(i) = 6
        /\ D!At(i, "write") => Place(i) = 5
        /\ D!At(i, "fork") => Place(i) \in {12, 15}
        /\ D!At(i, "close") => Place(i) = 10
    BY <1>0, DaemonCall
  <2>5. \A op \in {"getrlimit", "chdir", "null", "open", "setsid", "ignore SIGHUP"} :
           D!At(i, op) => Place(i) > 7
    BY <1>0, DaemonCall
  <2>6. \A op \in {"default SIGHUP", "block", "thread"} : D!At(i, op) => Place(i) \in 2 .. 4
    BY <1>0, DaemonCall
  <2>6a. Place(i) \in 2 .. 4 => Place(i) \in 2 .. 6 /\ Place(i) # 5
    OBVIOUS
  <2>7. CASE D!Call(i)
    <3>1. PICK op \in {"getrlimit", "chdir", "null", "open"} : D!At(i, op)  BY <2>7 DEF D!Call
    <3>2. D!Lives(i) /\ Place(i) > 7  BY <2>1, <2>5, <3>1
    <3>3. UNCHANGED <<pid, content, unwritten>>  BY <2>7 DEF D!Call
    <3>4. CASE D!Done(i) /\ UNCHANGED lock  BY <2>2, <3>2, <3>3, <3>4, DaemonAside
    <3>5. CASE D!Ends(i) /\ D!Unlocked(i)  BY <3>2, <3>3, <3>5, DaemonOver
    <3>. QED  BY <2>7, <3>4, <3>5 DEF D!Call
  <2>8. CASE D!Setsid(i)
    <3>1. D!At(i, "setsid") /\ D!Done(i) /\ UNCHANGED <<pid, lock, content, unwritten>>  BY <2>8 DEF D!Setsid
    <3>2. D!Lives(i) /\ Place(i) > 7  BY <2>1, <2>5, <3>1
    <3>. QED  BY <2>2, <3>1, <3>2, DaemonAside
  <2>9. CASE D!Fork(i)
    <3>1. D!At(i, "fork") /\ D!Unlocked(i) /\ UNCHANGED <<content, unwritten>>  BY <2>9 DEF D!Fork
    <3>2. D!Lives(i) /\ Place(i) > 7  BY <2>1, <2>4, <3>1
    <3>3. CASE D!Done(i) /\ pid' = [pid EXCEPT ![i] = <<i, @[2] + 1>>]
      <4>1. pid[i][2] + 1 \in Nat /\ pid' = [pid EXCEPT ![i] = <<i, pid[i][2] + 1>>]
        BY <1>0, <3>3 DEF DaemonTypes
      <4>. QED  BY <2>2, <3>1, <3>2, <3>3, <4>1, DaemonAside
    <3>4. CASE D!Ends(i) /\ UNCHANGED pid  BY <3>1, <3>2, <3>4, DaemonOver
    <3>. QED  BY <2>9, <3>3, <3>4 DEF D!Fork
  <2>10. CASE D!CloseAll(i)
    <3>1. D!At(i, "close") /\ D!Done(i) /\ D!Unlocked(i) /\ UNCHANGED <<pid, content, unwritten>>
      BY <2>10 DEF D!CloseAll
    <3>2. D!Lives(i) /\ Place(i) > 7  BY <2>1, <2>4, <3>1
    <3>. QED  BY <2>2, <3>1, <3>2, DaemonAside
  <2>11. CASE D!Lock(i)
    <3>1. D!At(i, "lock") /\ UNCHANGED <<pid, content, unwritten>>  BY <2>11 DEF D!Lock
    <3>2. D!Lives(i) /\ Place(i) = 7 /\ ~Locked(i)  BY <2>1, <2>4, <3>1 DEF Locked
    <3>3. CASE lock = D!Nobody /\ lock' = pid[i] /\ D!Done(i)  BY <3>1, <3>2, <3>3, DaemonLocks
    <3>4. CASE D!Ends(i) /\ UNCHANGED lock  BY <2>3, <3>1, <3>2, <3>4, DaemonAside
    <3>. QED  BY <2>11, <3>3, <3>4 DEF D!Lock
  <2>12. CASE D!Truncate(i)
    <3>1. D!At(i, "truncate") /\ D!Done(i) /\ UNCHANGED <<pid, lock>>  BY <2>12 DEF D!Truncate
    <3>2. D!Lives(i) /\ Place(i) = 6 /\ Place(i) \in 2 .. 6  BY <2>1, <2>4, <3>1
    <3>. QED  BY <3>1, <3>2, DaemonOn
  <2>13. CASE D!Write(i)
    <3>1. D!At(i, "write") /\ D!Done(i) /\ UNCHANGED <<pid, lock>> /\ (unwritten' \/ content' = pid[i])
      BY <2>13 DEF D!Write
    <3>2. D!Lives(i) /\ Place(i) = 5 /\ Place(i) \in 2 .. 6  BY <2>1, <2>4, <3>1
    <3>. QED  BY <3>1, <3>2, DaemonOn
  <2>14. CASE D!Sighup(i)
    <3>1. D!Done(i) /\ UNCHANGED <<pid, lock, content, unwritten>>  BY <2>14 DEF D!Sighup
    <3>2. CASE D!At(i, "ignore SIGHUP")
      <4>1. D!Lives(i) /\ Place(i) > 7  BY <2>1, <2>5, <3>2
      <4>. QED  BY <2>2, <3>1, <4>1, DaemonAside
    <3>3. CASE D!At(i, "default SIGHUP")
      <4>1. D!Lives(i) /\ Place(i) \in 2 .. 6 /\ Place(i) # 5  BY <2>1, <2>6, <2>6a, Zenon, <3>3
      <4>. QED  BY <3>1, <4>1, DaemonOn
    <3>. QED  BY <2>14, <3>2, <3>3 DEF D!Sighup
  <2>15. CASE D!Block(i)
    <3>1. D!At(i, "block") /\ D!Done(i) /\ UNCHANGED <<pid, lock, content, unwritten>>  BY <2>15 DEF D!Block
    <3>2. D!Lives(i) /\ Place(i) \in 2 .. 6 /\ Place(i) # 5  BY <2>1, <2>6, <2>6a, Zenon, <3>1
    <3>. QED  BY <3>1, <3>2, DaemonOn
  <2>16. CASE D!Thread(i)
    <3>1. D!At(i, "thread") /\ UNCHANGED <<pid, content, unwritten>>  BY <2>16 DEF D!Thread
    <3>2. D!Lives(i) /\ Place(i) \in 2 .. 6 /\ Place(i) # 5  BY <2>1, <2>6, <2>6a, Zenon, <3>1
    <3>3. CASE D!Done(i) /\ UNCHANGED lock  BY <3>1, <3>2, <3>3, DaemonOn
    <3>4. CASE D!Ends(i) /\ D!Unlocked(i)  BY <3>1, <3>2, <3>4, DaemonOver
    <3>. QED  BY <2>16, <3>3, <3>4 DEF D!Thread
  <2>17. CASE D!Exit(i)
    <3>1. D!At(i, "exit") /\ D!Ends(i) /\ D!Unlocked(i) /\ UNCHANGED <<pid, content, unwritten>>
      BY <2>17 DEF D!Exit
    <3>. QED  BY <2>1, <3>1, DaemonOver
  <2>18. ASSUME UNCHANGED <<left, pid, lock, content, unwritten>> PROVE DaemonInv'
    BY <1>0, <2>18 DEF DaemonInv, DaemonTypes, HolderInv, ContentInv, Locked, Place
  <2>19. CASE D!thr_fn(i)
    <3>1. D!Lives(i) /\ UNCHANGED <<pid, content, unwritten>>  BY <2>19 DEF D!thr_fn
    <3>2. (D!Ends(i) /\ D!Unlocked(i)) \/ UNCHANGED <<left, lock>>  BY <2>19 DEF D!thr_fn
    <3>. QED  BY <2>18, <3>1, <3>2, DaemonOver
  <2>20. CASE D!reread(i)  BY <2>18, <2>20 DEF D!reread
  <2>21. CASE D!Signal(i)
    <3>1. D!Lives(i) /\ UNCHANGED <<pid, content, unwritten>>  BY <2>21 DEF D!Signal
    <3>2. (D!Ends(i) /\ D!Unlocked(i)) \/ UNCHANGED <<left, lock>>  BY <2>21 DEF D!Signal
    <3>. QED  BY <2>18, <3>1, <3>2, DaemonOver
  <2>. QED
    BY <1>2, <2>7, <2>8, <2>9, <2>10, <2>11, <2>12, <2>13, <2>14, <2>15, <2>16, <2>17, <2>19, <2>20, <2>21
<1>. QED  BY <1>1, <1>2 DEF D!DaemonNext

(* What OneInstance says of the daemon follows.                            *)
LEMMA DaemonSingle == DaemonInv => OneInstance
<1>. SUFFICES ASSUME DaemonInv PROVE D!OneInstance  BY DEF OneInstance
<1>0. DaemonTypes /\ HolderInv /\ ContentInv  BY DEF DaemonInv
<1>1. \A i \in Instance : Locked(i) => D!Lives(i)  BY <1>0, DaemonPlace DEF Locked
<1>2. \A i \in Instance : D!Past(i) => Place(i) \in 1 .. 4 /\ Locked(i)
  <2>1. Len(D!serve) = 4  BY DEF D!serve
  <2>. SUFFICES ASSUME NEW i \in Instance, D!Past(i) PROVE Place(i) \in 1 .. 4 /\ Locked(i)  OBVIOUS
  <2>2. D!Lives(i) /\ Place(i) <= 4  BY <2>1 DEF D!Past, Place
  <2>3. Place(i) \in 0 .. 16 /\ Place(i) > 0  BY <1>0, <2>2, DaemonPlace
  <2>. QED  BY <2>2, <2>3 DEF Locked
<1>3. \A i, j \in Instance : pid[j] = pid[i] => j = i  BY <1>0, Pids
<1>. QED  BY <1>0, <1>1, <1>2, <1>3 DEF D!OneInstance, HolderInv, ContentInv

(* A step of the programs together is a step of the daemon or leaves it.   *)
LEMMA DaemonPart == [Next]_all => [D!DaemonNext]_daemonVars
<1>. SUFFICES ASSUME [Next]_all PROVE [D!DaemonNext]_daemonVars  OBVIOUS
<1>1. CASE UNCHANGED all  BY <1>1 DEF all, daemonVars
<1>2. CASE Next  BY <1>2 DEF Next, InPopen, InFd, InConn, InPing, InOld, InDaemon, InCo, daemonVars
<1>. QED  BY <1>1, <1>2

(* However many instances are started, killed or fail at any step, at most *)
(* one is past already_running() of ch13_daemon.c:26-42, it holds the lock *)
(* on the pid file, and the file has its pid unless truncating or writing  *)
(* it failed, for every set of instances.                                  *)
THEOREM SingleDaemon == Spec => []OneInstance
<1>1. Init => DaemonInv  BY DaemonStart DEF Init
<1>2. DaemonInv /\ [Next]_all => DaemonInv'  BY DaemonStep, DaemonPart
<1>3. DaemonInv => OneInstance  BY DaemonSingle
<1>. QED  BY <1>1, <1>2, <1>3, PTL DEF Spec
=============================================================================
