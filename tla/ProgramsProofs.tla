--------------------------- MODULE ProgramsProofs ---------------------------
(***************************************************************************)
(* Proofs about the programs of one process in MCPrograms, for every value *)
(* of the constants.                                                       *)
(***************************************************************************)
EXTENDS MCPrograms, SequenceTheorems, WellFoundedInduction, TLAPS

-----------------------------------------------------------------------------
(* Terminal modes.  Once the history says trouble nothing is claimed; else *)
(* the settings are those the state stands for.                            *)
InMode(fd, mode) == settings[fd] = [of |-> fd, changed |-> Tty!Wanted(mode)]
OnlyChanged(fd) ==
    /\ fd \in Terminals /\ save_termios = Tty!Original(fd)
    /\ InMode(fd, ttystate)
    /\ \A other \in Terminals \ {fd} : settings[other] = Tty!Original(other)
TtyInv ==
    /\ settings = [fd \in Terminals |-> settings[fd]]
    /\ trouble \in BOOLEAN /\ ttystate \in {"RESET", "CBREAK", "RAW"}
    /\ ~trouble /\ ttystate = "RESET" => \A fd \in Terminals : settings[fd] = Tty!Original(fd)
    /\ ~trouble /\ ttystate # "RESET" => OnlyChanged(ttysavefd)

(* What tcsetattr() can do (ttymodes.c:37): all, nothing or a part.        *)
Differ(was, new) == (was.changed \cup new.changed) \ (was.changed \cap new.changed)
Partly(was, new, part) == [was EXCEPT !.changed = (was.changed \cap new.changed) \cup part]
LEMMA Applied ==
    ASSUME NEW was, NEW new, NEW r \in Tty!tcsetattr(was, new)
    PROVE  \/ r.ok = TRUE /\ r.now = new
           \/ r.ok = FALSE /\ r.now = was
           \/ \E part \in SUBSET Differ(was, new) : r.ok = TRUE /\ r.now = Partly(was, new, part)
<1>1. \/ r = [ok |-> TRUE, now |-> new]
      \/ r = [ok |-> FALSE, now |-> was]
      \/ \E part \in SUBSET Differ(was, new) : r = [ok |-> TRUE, now |-> Partly(was, new, part)]
  BY Zenon DEF Tty!tcsetattr, Differ, Partly
<1>. QED  BY <1>1

LEMMA TtyStart == Tty!TtyInit => TtyInv
BY DEF Tty!TtyInit, TtyInv

(* tty_cbreak() and tty_raw(): what they leave is the whole mode or what   *)
(* was there.                                                              *)
LEMMA EnterStep ==
    ASSUME TtyInv, NEW fd \in Terminals, NEW mode \in {"CBREAK", "RAW"}, Tty!Enter(fd, mode)
    PROVE  TtyInv'
<1>. DEFINE new == [settings[fd] EXCEPT !.changed = @ \cup Tty!Wanted(mode)]
<1>1. ttystate = "RESET" /\ save_termios' = settings[fd]
  BY DEF Tty!Enter
<1>2. PICK r \in Tty!tcsetattr(settings[fd], new), readable \in BOOLEAN :
          \/ ~r.ok /\ UNCHANGED <<settings, ttystate, ttysavefd, trouble>>
          \/ /\ r.ok /\ readable /\ Tty!Wanted(mode) \subseteq r.now.changed
             /\ settings' = [settings EXCEPT ![fd] = r.now]
             /\ ttystate' = mode /\ ttysavefd' = fd /\ UNCHANGED trouble
          \/ /\ r.ok /\ ~(readable /\ Tty!Wanted(mode) \subseteq r.now.changed)
             /\ \E back \in Tty!tcsetattr(r.now, settings[fd]) :
                   /\ settings' = [settings EXCEPT ![fd] = back.now]
                   /\ trouble' = (trouble \/ back.now # settings[fd])
             /\ UNCHANGED <<ttystate, ttysavefd>>
  BY DEF Tty!Enter
<1>. HIDE DEF new
<1>3. CASE UNCHANGED <<settings, ttystate, ttysavefd, trouble>>
  BY <1>1, <1>3 DEF TtyInv
<1>4. CASE /\ r.ok /\ Tty!Wanted(mode) \subseteq r.now.changed
           /\ settings' = [settings EXCEPT ![fd] = r.now]
           /\ ttystate' = mode /\ ttysavefd' = fd /\ UNCHANGED trouble
  <2>1. settings' = [x \in Terminals |-> settings'[x]]
    BY <1>4 DEF TtyInv
  <2>2. ASSUME ~trouble PROVE OnlyChanged(fd)'
    <3>1. settings[fd] = Tty!Original(fd)
      BY <1>1, <2>2 DEF TtyInv
    <3>2. new = [of |-> fd, changed |-> Tty!Wanted(mode)]
      BY <3>1 DEF new, Tty!Original
    <3>3. r.now = [of |-> fd, changed |-> Tty!Wanted(mode)]
      <4>1. settings[fd].changed = {} /\ settings[fd].of = fd /\ new.changed = Tty!Wanted(mode)
        BY <3>1, <3>2 DEF Tty!Original
      <4>2. CASE r.now = new
        BY <3>2, <4>2
      <4>3. CASE r.now # new
        <5>1. PICK part \in SUBSET Differ(settings[fd], new) : r.now = Partly(settings[fd], new, part)
          BY <1>4, <4>3, Applied
        <5>2. r.now = [of |-> fd, changed |-> part] /\ part \subseteq Tty!Wanted(mode)
          <6>1. (settings[fd].changed \cap new.changed) \cup part = part /\ part \subseteq Tty!Wanted(mode)
            BY <4>1 DEF Differ
          <6>2. [settings[fd] EXCEPT !.changed = part] = [of |-> fd, changed |-> part]
            BY <3>1 DEF Tty!Original
          <6>. QED  BY <5>1, <6>1, <6>2 DEF Partly
        <5>. QED  BY <1>4, <5>2
      <4>. QED  BY <4>2, <4>3
    <3>4. settings'[fd] = r.now /\ \A x \in Terminals \ {fd} : settings'[x] = settings[x]
      BY <1>4 DEF TtyInv
    <3>. QED  BY <1>1, <1>4, <2>2, <3>1, <3>3, <3>4 DEF OnlyChanged, InMode, TtyInv
  <2>. QED  BY <1>4, <2>1, <2>2 DEF TtyInv
<1>5. CASE /\ \E back \in Tty!tcsetattr(r.now, settings[fd]) :
                 /\ settings' = [settings EXCEPT ![fd] = back.now]
                 /\ trouble' = (trouble \/ back.now # settings[fd])
           /\ UNCHANGED <<ttystate, ttysavefd>>
  <2>1. PICK back : /\ settings' = [settings EXCEPT ![fd] = back.now]
                    /\ trouble' = (trouble \/ back.now # settings[fd])
    BY <1>5
  <2>2. settings' = [x \in Terminals |-> settings'[x]]
    BY <2>1 DEF TtyInv
  <2>3. ASSUME ~trouble' PROVE ~trouble /\ \A x \in Terminals : settings'[x] = settings[x]
    BY <2>1, <2>3 DEF TtyInv
  <2>4. trouble' \in BOOLEAN
    BY <2>1 DEF TtyInv
  <2>. QED  BY <1>1, <1>5, <2>2, <2>3, <2>4 DEF TtyInv
<1>. QED  BY <1>2, <1>3, <1>4, <1>5

(* tty_reset(): a partial one, or one of another terminal, is trouble.     *)
LEMMA ResetStep ==
    ASSUME TtyInv, NEW fd, Tty!tty_reset(fd)
    PROVE  TtyInv'
<1>1. ttystate # "RESET" /\ UNCHANGED <<save_termios, ttysavefd>>
  BY DEF Tty!tty_reset
<1>2. PICK r : \/ /\ settings' = [settings EXCEPT ![fd] = r.now] /\ ttystate' = "RESET"
                  /\ trouble' = (trouble \/ r.now # save_termios \/ fd # ttysavefd)
               \/ UNCHANGED <<settings, ttystate, trouble>>
  BY DEF Tty!tty_reset
<1>3. CASE UNCHANGED <<settings, ttystate, trouble>>
  BY <1>1, <1>3 DEF TtyInv, OnlyChanged, InMode
<1>4. CASE /\ settings' = [settings EXCEPT ![fd] = r.now] /\ ttystate' = "RESET"
           /\ trouble' = (trouble \/ r.now # save_termios \/ fd # ttysavefd)
  <2>1. settings' = [x \in Terminals |-> settings'[x]] /\ trouble' \in BOOLEAN
    BY <1>4 DEF TtyInv
  <2>2. ASSUME ~trouble', NEW x \in Terminals PROVE settings'[x] = Tty!Original(x)
    <3>1. ~trouble /\ OnlyChanged(fd) /\ r.now = Tty!Original(fd)
      BY <1>1, <1>4, <2>2 DEF TtyInv, OnlyChanged
    <3>2. settings'[x] = IF x = fd THEN r.now ELSE settings[x]
      BY <1>4 DEF TtyInv
    <3>. QED  BY <3>1, <3>2 DEF OnlyChanged
  <2>. QED  BY <1>4, <2>1, <2>2 DEF TtyInv
<1>. QED  BY <1>2, <1>3, <1>4

LEMMA TtyStep == TtyInv /\ [Tty!TtyNext]_ttyVars => TtyInv'
<1>. SUFFICES ASSUME TtyInv, [Tty!TtyNext]_ttyVars PROVE TtyInv'
  OBVIOUS
<1>1. CASE UNCHANGED ttyVars
  BY <1>1 DEF ttyVars, TtyInv, OnlyChanged, InMode
<1>2. CASE \E fd \in Terminals : Tty!tty_cbreak(fd) \/ Tty!tty_raw(fd)
  BY <1>2, EnterStep DEF Tty!tty_cbreak, Tty!tty_raw
<1>3. CASE (\E fd \in Terminals : Tty!tty_reset(fd)) \/ Tty!tty_atexit
  BY <1>3, ResetStep DEF Tty!tty_atexit
<1>. QED  BY <1>1, <1>2, <1>3 DEF Tty!TtyNext

LEMMA TtyPart == [Next]_all => [Tty!TtyNext]_ttyVars
<1>. SUFFICES ASSUME [Next]_all PROVE [Tty!TtyNext]_ttyVars  OBVIOUS
<1>1. CASE UNCHANGED all  BY <1>1 DEF all, ttyVars
<1>2. CASE Next  BY <1>2 DEF Next, InCopy, InWait, InSignals, ttyVars
<1>. QED  BY <1>1, <1>2

(* Whatever part of the settings tcsetattr() applies, and in whatever      *)
(* order the functions of ttymodes.c:46-148 are called on any number of    *)
(* terminals: unless a reset was partial or named another terminal, RESET  *)
(* means that every terminal is as it was, and otherwise exactly one is    *)
(* changed, fully, and the saved settings are its own.                     *)
THEOREM TerminalRestored == Spec => []ModesRestored
<1>1. Init => TtyInv  BY TtyStart DEF Init
<1>2. TtyInv /\ [Next]_all => TtyInv'  BY TtyStep, TtyPart
<1>3. TtyInv => ModesRestored
  BY DEF TtyInv, OnlyChanged, InMode, ModesRestored, Tty!ModesRestored
<1>. QED  BY <1>1, <1>2, <1>3, PTL DEF Spec

-----------------------------------------------------------------------------
(* The list and the stack.  A buffer has a value in each place; it holds a *)
(* sequence when its first places do.                                      *)
IsBuffer(b) ==
    /\ b = [size |-> b.size, len |-> b.len, mem |-> b.mem]
    /\ b.size \in Nat \ {0} /\ b.len \in 0 .. b.size
    /\ b.mem = [k \in 0 .. b.size - 1 |-> b.mem[k]]
Holds(b, s) == b.len = Len(s) /\ \A k \in 1 .. Len(s) : b.mem[k - 1] = s[k]
IsPointer(g) ==
    /\ g = [at |-> g.at, val |-> g.val, moved |-> g.moved, shifted |-> g.shifted]
    /\ g.at \in Nat \cup {-1} /\ g.moved \in BOOLEAN /\ g.shifted \in BOOLEAN
Fresh(g, b) == g.at # -1 /\ ~g.moved /\ ~g.shifted => g.at < b.len /\ b.mem[g.at] = g.val
ContainerInv ==
    /\ kind \in {"list", "stack"} /\ IsBuffer(buffer) /\ elems \in Seq(Value) /\ IsPointer(got)
    /\ Holds(buffer, elems)
    /\ Fresh(got, buffer)
    /\ kind = "stack" => got.at = -1

LEMMA MakeBuffer ==
    ASSUME NEW c, NEW s \in Nat \ {0}, NEW l \in 0 .. s, NEW m, m = [k \in 0 .. s - 1 |-> m[k]],
           c = [size |-> s, len |-> l, mem |-> m]
    PROVE  IsBuffer(c) /\ c.size = s /\ c.len = l /\ c.mem = m
<1>1. c.size = s /\ c.len = l /\ c.mem = m
  OBVIOUS
<1>2. c.mem = [k \in 0 .. c.size - 1 |-> c.mem[k]]
  BY <1>1
<1>. QED  BY <1>1, <1>2 DEF IsBuffer

(* There is room for one more after list_add() and mystack_push() looked.  *)
LEMMA RoomKept ==
    ASSUME NEW b, IsBuffer(b)
    PROVE  /\ IsBuffer(Con!Room(b)) /\ Con!Room(b).len = b.len /\ b.len < Con!Room(b).size
           /\ \A k \in 0 .. b.len - 1 : Con!Room(b).mem[k] = b.mem[k]
<1>1. CASE b.len # b.size
  BY <1>1 DEF Con!Room, IsBuffer
<1>2. CASE b.len = b.size
  <2>. DEFINE m == [k \in 0 .. 2 * b.size - 1 |-> IF k < b.size THEN b.mem[k] ELSE Con!Junk]
  <2>. HIDE DEF m
  <2>1. Con!Room(b) = [b EXCEPT !.size = 2 * b.size, !.mem = m]
    BY <1>2 DEF Con!Room, Con!Grown, m
  <2>2. Con!Room(b) = [size |-> 2 * b.size, len |-> b.len, mem |-> m]
    BY <2>1 DEF IsBuffer
  <2>3. m = [k \in 0 .. 2 * b.size - 1 |-> m[k]] /\ \A k \in 0 .. b.len - 1 : m[k] = b.mem[k]
    BY <1>2 DEF m, IsBuffer
  <2>4. /\ b.size \in Nat \ {0} /\ b.len \in 0 .. b.size /\ 2 * b.size \in Nat \ {0}
        /\ b.len \in 0 .. 2 * b.size /\ b.len < 2 * b.size
    BY <1>2 DEF IsBuffer
  <2>5. IsBuffer(Con!Room(b)) /\ Con!Room(b).size = 2 * b.size /\ Con!Room(b).len = b.len /\ Con!Room(b).mem = m
    BY <2>2, <2>3, <2>4, MakeBuffer
  <2>. QED  BY <2>3, <2>4, <2>5
<1>. QED  BY <1>1, <1>2

(* An element that is stored where there is room.                          *)
LEMMA StoredKept ==
    ASSUME NEW b, NEW v, IsBuffer(b), b.len < b.size
    PROVE  /\ IsBuffer(Con!Stored(b, v)) /\ Con!Stored(b, v).len = b.len + 1 /\ Con!Stored(b, v).mem[b.len] = v
           /\ \A k \in 0 .. b.len - 1 : Con!Stored(b, v).mem[k] = b.mem[k]
<1>. DEFINE m == [b.mem EXCEPT ![b.len] = v]
<1>0. b.size \in Nat \ {0} /\ b.len \in 0 .. b.size - 1 /\ b.len + 1 \in 0 .. b.size /\ DOMAIN b.mem = 0 .. b.size - 1
  BY DEF IsBuffer
<1>1. m = [k \in 0 .. b.size - 1 |-> m[k]] /\ m[b.len] = v /\ \A k \in 0 .. b.len - 1 : m[k] = b.mem[k]
  BY <1>0
<1>2. Con!Stored(b, v) = [b EXCEPT !.mem = m, !.len = b.len + 1]
  BY DEF Con!Stored
<1>. HIDE DEF m
<1>3. Con!Stored(b, v) = [size |-> b.size, len |-> b.len + 1, mem |-> m]
  BY <1>2 DEF IsBuffer
<1>4. IsBuffer(Con!Stored(b, v)) /\ Con!Stored(b, v).len = b.len + 1 /\ Con!Stored(b, v).mem = m
  BY <1>0, <1>1, <1>3, MakeBuffer
<1>. QED  BY <1>1, <1>4

(* list_remove() moves the elements behind it down.                        *)
LEMMA RemovedKept ==
    ASSUME NEW b, NEW index \in 0 .. b.len - 1, IsBuffer(b)
    PROVE  /\ IsBuffer(Con!Removed(b, index)) /\ Con!Removed(b, index).len = b.len - 1
           /\ \A k \in 0 .. b.len - 2 : Con!Removed(b, index).mem[k] = IF k < index THEN b.mem[k] ELSE b.mem[k + 1]
<1>. DEFINE m == [k \in DOMAIN b.mem |-> IF k \in index .. b.len - 2 THEN b.mem[k + 1] ELSE b.mem[k]]
<1>0. DOMAIN b.mem = 0 .. b.size - 1
  BY DEF IsBuffer
<1>1. /\ m = [k \in 0 .. b.size - 1 |-> m[k]]
      /\ \A k \in 0 .. b.len - 2 : m[k] = IF k < index THEN b.mem[k] ELSE b.mem[k + 1]
  BY <1>0 DEF IsBuffer
<1>2. Con!Removed(b, index) = [b EXCEPT !.mem = m, !.len = b.len - 1]
  BY DEF Con!Removed
<1>. HIDE DEF m
<1>3. Con!Removed(b, index) = [size |-> b.size, len |-> b.len - 1, mem |-> m]
  BY <1>2 DEF IsBuffer
<1>4. b.size \in Nat \ {0} /\ b.len - 1 \in 0 .. b.size
  BY DEF IsBuffer
<1>5. IsBuffer(Con!Removed(b, index)) /\ Con!Removed(b, index).len = b.len - 1 /\ Con!Removed(b, index).mem = m
  BY <1>1, <1>3, <1>4, MakeBuffer
<1>. QED  BY <1>1, <1>5

(* The sequence without its i-th element.                                  *)
LEMMA RemoveAtIs ==
    ASSUME NEW S, NEW s \in Seq(S), NEW k \in 1 .. Len(s)
    PROVE  /\ Con!RemoveAt(s, k) \in Seq(S) /\ Len(Con!RemoveAt(s, k)) = Len(s) - 1
           /\ \A j \in 1 .. Len(s) - 1 : Con!RemoveAt(s, k)[j] = IF j < k THEN s[j] ELSE s[j + 1]
<1>. DEFINE a == SubSeq(s, 1, k - 1)   z == SubSeq(s, k + 1, Len(s))
<1>0. Len(s) \in Nat /\ \A j \in 1 .. Len(s) : s[j] \in S
  BY LenProperties, ElementOfSeq
<1>1. a \in Seq(S) /\ Len(a) = k - 1 /\ \A j \in 1 .. k - 1 : a[j] = s[j]
  <2>1. 1 \in Int /\ k - 1 \in Int /\ (\A j \in 1 .. k - 1 : s[j] \in S)
    BY <1>0
  <2>2. /\ SubSeq(s, 1, k - 1) \in Seq(S) /\ Len(SubSeq(s, 1, k - 1)) = IF 1 <= k - 1 THEN k - 1 - 1 + 1 ELSE 0
        /\ \A j \in 1 .. k - 1 - 1 + 1 : SubSeq(s, 1, k - 1)[j] = s[1 + j - 1]
    BY <2>1, SubSeqProperties
  <2>. QED  BY <2>2
<1>2. z \in Seq(S) /\ Len(z) = Len(s) - k /\ \A j \in 1 .. Len(s) - k : z[j] = s[k + j]
  <2>1. Len(s) \in Int /\ k + 1 \in Int /\ (\A j \in k + 1 .. Len(s) : s[j] \in S)
    BY <1>0
  <2>2. /\ SubSeq(s, k + 1, Len(s)) \in Seq(S)
        /\ Len(SubSeq(s, k + 1, Len(s))) = IF k + 1 <= Len(s) THEN Len(s) - (k + 1) + 1 ELSE 0
        /\ \A j \in 1 .. Len(s) - (k + 1) + 1 : SubSeq(s, k + 1, Len(s))[j] = s[k + 1 + j - 1]
    BY <2>1, SubSeqProperties
  <2>. QED  BY <1>0, <2>2
<1>3. Con!RemoveAt(s, k) = a \o z
  BY DEF Con!RemoveAt
<1>. HIDE DEF a, z
<1>4. /\ a \o z \in Seq(S) /\ Len(a \o z) = Len(a) + Len(z)
      /\ \A j \in 1 .. Len(a) + Len(z) : (a \o z)[j] = IF j <= Len(a) THEN a[j] ELSE z[j - Len(a)]
  BY <1>1, <1>2, ConcatProperties
<1>. QED  BY <1>0, <1>1, <1>2, <1>3, <1>4

(* list_contain() finds the first place of a value, and -1 means none.     *)
LEMMA ContainIs ==
    ASSUME NEW b, NEW v, b.len \in Nat
    PROVE  \/ Con!Contain(b, v) = -1 /\ \A k \in 0 .. b.len - 1 : b.mem[k] # v
           \/ /\ Con!Contain(b, v) \in 0 .. b.len - 1 /\ b.mem[Con!Contain(b, v)] = v
              /\ \A k \in 0 .. Con!Contain(b, v) - 1 : b.mem[k] # v
<1>. DEFINE found == {k \in 0 .. b.len - 1 : b.mem[k] = v}
<1>1. Con!Contain(b, v) = IF found = {} THEN -1 ELSE Con!Min(found)
  BY DEF Con!Contain
<1>2. found \subseteq 0 .. b.len - 1 /\ \A k \in 0 .. b.len - 1 : k \in found <=> b.mem[k] = v
  OBVIOUS
<1>. HIDE DEF found
<1>3. ASSUME found # {} PROVE Con!Min(found) \in found /\ \A y \in found : Con!Min(found) <= y
  <2>1. found \subseteq Nat
    BY <1>2
  <2>2. \E x \in found : \A y \in found : <<y, x>> \notin OpToRel(<, Nat)
    BY <1>3, <2>1, NatLessThanWellFounded, WFMin
  <2>3. PICK x \in found : \A y \in found : <<y, x>> \notin OpToRel(<, Nat)
    BY <2>2
  <2>4. ASSUME NEW y \in found, y < x PROVE FALSE
    <3>1. <<y, x>> \in Nat \X Nat /\ <<y, x>>[1] < <<y, x>>[2]
      BY <2>1, <2>4
    <3>2. <<y, x>> \in OpToRel(<, Nat)
      BY <3>1, Zenon DEF OpToRel
    <3>. QED  BY <2>3, <3>2
  <2>5. \A y \in found : x <= y
    BY <2>1, <2>4
  <2>. QED  BY <2>5 DEF Con!Min
<1>4. CASE found = {}
  BY <1>1, <1>2, <1>4
<1>5. CASE found # {}
  <2>. DEFINE c == Con!Contain(b, v)
  <2>1. c \in found /\ \A y \in found : c <= y
    BY <1>1, <1>3, <1>5
  <2>2. c \in 0 .. b.len - 1 /\ b.mem[c] = v
    BY <1>2, <2>1
  <2>3. ASSUME NEW k \in 0 .. c - 1 PROVE b.mem[k] # v
    <3>1. k \in 0 .. b.len - 1 /\ k < c
      BY <2>2
    <3>. QED  BY <1>2, <2>1, <2>2, <3>1
  <2>. QED  BY <2>2, <2>3
<1>. QED  BY <1>4, <1>5

LEMMA ContainerStart ==
    ASSUME FirstSize \in Nat \ {0}
    PROVE  Con!ContainerInit => ContainerInv
<1>1. ASSUME NEW len \in Nat \ {0} PROVE IsBuffer(Con!Fresh(len)) /\ Con!Fresh(len).len = 0
  <2>. DEFINE m == [k \in 0 .. len - 1 |-> Con!Junk]
  <2>1. m = [k \in 0 .. len - 1 |-> m[k]]
    OBVIOUS
  <2>2. Con!Fresh(len) = [size |-> len, len |-> 0, mem |-> m]
    BY DEF Con!Fresh
  <2>. HIDE DEF m
  <2>. QED  BY <2>1, <2>2, MakeBuffer
<1>2. IsPointer(Con!NoPointer) /\ Con!NoPointer.at = -1
  BY DEF IsPointer, Con!NoPointer
<1>3. ASSUME Con!ContainerInit PROVE ContainerInv
  <2>1. IsBuffer(buffer) /\ buffer.len = 0
    <3>1. 4 \in Nat \ {0}  OBVIOUS
    <3>. QED  BY <1>1, <1>3, <3>1 DEF Con!ContainerInit
  <2>2. elems \in Seq(Value) /\ Len(elems) = 0 /\ got = Con!NoPointer /\ kind \in {"list", "stack"}
    BY <1>3, EmptySeq DEF Con!ContainerInit
  <2>. QED  BY <1>2, <2>1, <2>2 DEF ContainerInv, Holds, Fresh
<1>. QED  BY <1>3

LEMMA BufferIs ==
    ASSUME ContainerInv
    PROVE  /\ buffer.len \in Nat /\ Len(elems) \in Nat /\ buffer.len = Len(elems) /\ buffer.len <= buffer.size
           /\ DOMAIN buffer.mem = 0 .. buffer.size - 1 /\ elems \in Seq(Value)
           /\ \A k \in 1 .. Len(elems) : buffer.mem[k - 1] = elems[k]
<1>1. IsBuffer(buffer) /\ Holds(buffer, elems) /\ elems \in Seq(Value)
  BY DEF ContainerInv
<1>2. buffer.len \in Nat /\ buffer.len <= buffer.size /\ DOMAIN buffer.mem = 0 .. buffer.size - 1
  BY <1>1 DEF IsBuffer
<1>3. buffer.len = Len(elems) /\ \A k \in 1 .. Len(elems) : buffer.mem[k - 1] = elems[k]
  BY <1>1 DEF Holds
<1>. QED  BY <1>1, <1>2, <1>3

(* list_add() and mystack_push().                                          *)
LEMMA AddKept ==
    ASSUME ContainerInv, NEW v \in Value, Con!Add(v)
    PROVE  ContainerInv'
<1>. DEFINE r == Con!Room(buffer)
<1>1. /\ buffer' = Con!Stored(r, v) /\ elems' = Append(elems, v) /\ kind' = kind
      /\ got' = [got EXCEPT !.moved = @ \/ (got.at # -1 /\ buffer.len = buffer.size)]
  BY DEF Con!Add
<1>2. IsBuffer(r) /\ r.len = buffer.len /\ r.len < r.size /\ \A k \in 0 .. buffer.len - 1 : r.mem[k] = buffer.mem[k]
  BY RoomKept DEF ContainerInv
<1>. HIDE DEF r
<1>3. /\ IsBuffer(buffer') /\ buffer'.len = buffer.len + 1 /\ buffer'.mem[buffer.len] = v
      /\ \A k \in 0 .. buffer.len - 1 : buffer'.mem[k] = buffer.mem[k]
  BY <1>1, <1>2, StoredKept
<1>4. /\ elems' \in Seq(Value) /\ Len(elems') = Len(elems) + 1 /\ elems'[Len(elems) + 1] = v
      /\ \A k \in 1 .. Len(elems) : elems'[k] = elems[k]
  BY <1>1, AppendProperties DEF ContainerInv
<1>5. /\ buffer.len \in Nat /\ Len(elems) \in Nat /\ buffer.len = Len(elems)
      /\ (\A k \in 1 .. Len(elems) : buffer.mem[k - 1] = elems[k])
  BY BufferIs
<1>6. Holds(buffer, elems)'
  <2>1. ASSUME NEW k \in 1 .. Len(elems) + 1 PROVE buffer'.mem[k - 1] = elems'[k]
    <3>1. CASE k = Len(elems) + 1
      BY <1>3, <1>4, <1>5, <3>1
    <3>2. CASE k # Len(elems) + 1
      <4>1. k \in 1 .. Len(elems) /\ k - 1 \in 0 .. buffer.len - 1
        BY <1>5, <3>2
      <4>. QED  BY <1>3, <1>4, <1>5, <4>1
    <3>. QED  BY <3>1, <3>2
  <2>. QED  BY <1>3, <1>4, <1>5, <2>1 DEF Holds
<1>7. /\ got'.at = got.at /\ got'.val = got.val /\ got'.shifted = got.shifted
      /\ (~got'.moved => ~got.moved) /\ IsPointer(got')
  BY <1>1 DEF ContainerInv, IsPointer
<1>8. Fresh(got, buffer)'
  <2>1. ASSUME got.at # -1, ~got'.moved, ~got.shifted PROVE got.at < buffer'.len /\ buffer'.mem[got.at] = got.val
    <3>1. got.at < buffer.len /\ buffer.mem[got.at] = got.val /\ got.at \in Nat
      BY <1>7, <2>1 DEF ContainerInv, Fresh, IsPointer
    <3>. QED  BY <1>3, <1>5, <3>1
  <2>. QED  BY <1>7, <2>1 DEF Fresh
<1>. QED  BY <1>1, <1>3, <1>4, <1>6, <1>7, <1>8 DEF ContainerInv

(* list_remove() and list_remove_val().                                    *)
LEMMA RemoveKept ==
    ASSUME ContainerInv, NEW k \in 0 .. buffer.len - 1, Con!RemoveIndex(k), kind' = kind, kind = "list"
    PROVE  ContainerInv'
<1>1. /\ buffer' = Con!Removed(buffer, k) /\ elems' = Con!RemoveAt(elems, k + 1)
      /\ got' = [got EXCEPT !.shifted = @ \/ k <= got.at]
  BY DEF Con!RemoveIndex
<1>2. /\ IsBuffer(buffer') /\ buffer'.len = buffer.len - 1
      /\ \A j \in 0 .. buffer.len - 2 : buffer'.mem[j] = IF j < k THEN buffer.mem[j] ELSE buffer.mem[j + 1]
  BY <1>1, RemovedKept DEF ContainerInv
<1>3. /\ buffer.len \in Nat /\ Len(elems) \in Nat /\ buffer.len = Len(elems)
      /\ (\A j \in 1 .. Len(elems) : buffer.mem[j - 1] = elems[j])
  BY BufferIs
<1>4. /\ elems' \in Seq(Value) /\ Len(elems') = Len(elems) - 1
      /\ \A j \in 1 .. Len(elems) - 1 : elems'[j] = IF j < k + 1 THEN elems[j] ELSE elems[j + 1]
  <2>1. k + 1 \in 1 .. Len(elems)
    BY <1>3
  <2>. QED  BY <1>1, <2>1, RemoveAtIs DEF ContainerInv
<1>5. Holds(buffer, elems)'
  <2>1. ASSUME NEW j \in 1 .. Len(elems) - 1 PROVE buffer'.mem[j - 1] = elems'[j]
    <3>1. j - 1 \in 0 .. buffer.len - 2 /\ j \in 1 .. Len(elems) /\ j + 1 \in 1 .. Len(elems)
      BY <1>3
    <3>2. buffer'.mem[j - 1] = IF j - 1 < k THEN buffer.mem[j - 1] ELSE buffer.mem[j]
      BY <1>2, <3>1
    <3>3. buffer.mem[j - 1] = elems[j] /\ buffer.mem[j] = elems[j + 1]
      <4>1. buffer.mem[(j + 1) - 1] = elems[j + 1]
        BY <1>3, <3>1
      <4>. QED  BY <1>3, <3>1, <4>1
    <3>4. elems'[j] = IF j < k + 1 THEN elems[j] ELSE elems[j + 1]
      BY <1>4
    <3>. QED  BY <3>2, <3>3, <3>4
  <2>. QED  BY <1>2, <1>3, <1>4, <2>1 DEF Holds
<1>6. /\ got'.at = got.at /\ got'.val = got.val /\ got'.moved = got.moved
      /\ (~got'.shifted => ~got.shifted /\ ~(k <= got.at)) /\ IsPointer(got')
  BY <1>1 DEF ContainerInv, IsPointer
<1>7. Fresh(got, buffer)'
  <2>1. ASSUME got.at # -1, ~got.moved, ~got'.shifted PROVE got.at < buffer'.len /\ buffer'.mem[got.at] = got.val
    <3>1. got.at < buffer.len /\ buffer.mem[got.at] = got.val /\ got.at \in Nat /\ got.at < k
      BY <1>6, <2>1 DEF ContainerInv, Fresh, IsPointer
    <3>2. got.at \in 0 .. buffer.len - 2 /\ got.at < buffer.len - 1
      BY <1>3, <3>1
    <3>3. buffer'.mem[got.at] = buffer.mem[got.at]
      BY <1>2, <3>1, <3>2
    <3>. QED  BY <1>2, <3>1, <3>2, <3>3
  <2>. QED  BY <1>6, <2>1 DEF Fresh
<1>. QED  BY <1>2, <1>4, <1>5, <1>6, <1>7 DEF ContainerInv

(* mystack_pop().                                                          *)
LEMMA PopKept ==
    ASSUME ContainerInv, Con!Pop
    PROVE  ContainerInv'
<1>1. /\ kind = "stack" /\ elems # << >> /\ buffer' = [buffer EXCEPT !.len = @ - 1] /\ elems' = Con!Front(elems)
      /\ kind' = kind /\ got' = got
  BY DEF Con!Pop
<1>2. /\ buffer.len \in Nat /\ Len(elems) \in Nat /\ buffer.len = Len(elems)
      /\ (\A j \in 1 .. Len(elems) : buffer.mem[j - 1] = elems[j])
  BY BufferIs
<1>3. Len(elems) \in Nat \ {0} /\ elems \in Seq(Value)
  BY <1>1, EmptySeq DEF ContainerInv
<1>4. /\ elems' \in Seq(Value) /\ Len(elems') = Len(elems) - 1
      /\ \A j \in 1 .. Len(elems) - 1 : elems'[j] = elems[j]
  <2>1. \A j \in 1 .. Len(elems) - 1 : elems[j] \in Value
    BY <1>3, ElementOfSeq
  <2>2. 1 \in Int /\ Len(elems) - 1 \in Int
    BY <1>3
  <2>3. /\ SubSeq(elems, 1, Len(elems) - 1) \in Seq(Value)
        /\ Len(SubSeq(elems, 1, Len(elems) - 1)) = IF 1 <= Len(elems) - 1 THEN Len(elems) - 1 - 1 + 1 ELSE 0
        /\ \A j \in 1 .. Len(elems) - 1 - 1 + 1 : SubSeq(elems, 1, Len(elems) - 1)[j] = elems[1 + j - 1]
    BY <2>1, <2>2, SubSeqProperties
  <2>4. elems' = SubSeq(elems, 1, Len(elems) - 1)
    BY <1>1 DEF Con!Front
  <2>5. \A j \in 1 .. Len(elems) - 1 : j \in 1 .. Len(elems) - 1 - 1 + 1 /\ 1 + j - 1 = j
    BY <1>3
  <2>6. \A j \in 1 .. Len(elems) - 1 : elems'[j] = elems[j]
    BY <2>3, <2>4, <2>5
  <2>. DEFINE s == SubSeq(elems, 1, Len(elems) - 1)   len == Len(elems)
  <2>7. s \in Seq(Value) /\ Len(s) = IF 1 <= len - 1 THEN len - 1 - 1 + 1 ELSE 0
    BY <2>3
  <2>8. elems' = s /\ len \in Nat \ {0}
    BY <1>3, <2>4
  <2>. HIDE DEF s, len
  <2>9. Len(s) = len - 1
    BY <2>7, <2>8
  <2>10. elems' \in Seq(Value) /\ Len(elems') = Len(elems) - 1
    BY <2>7, <2>8, <2>9 DEF len
  <2>. QED  BY <2>6, <2>10
<1>5. IsBuffer(buffer') /\ buffer'.len = buffer.len - 1 /\ buffer'.mem = buffer.mem
  <2>1. buffer' = [size |-> buffer.size, len |-> buffer.len - 1, mem |-> buffer.mem]
    BY <1>1 DEF ContainerInv, IsBuffer
  <2>2. /\ buffer.size \in Nat \ {0} /\ buffer.len - 1 \in 0 .. buffer.size
        /\ buffer.mem = [k \in 0 .. buffer.size - 1 |-> buffer.mem[k]]
    BY <1>2, <1>3 DEF ContainerInv, IsBuffer
  <2>. QED  BY <2>1, <2>2, MakeBuffer
<1>6. Holds(buffer, elems)'
  BY <1>2, <1>4, <1>5 DEF Holds
<1>7. got.at = -1
  BY <1>1 DEF ContainerInv
<1>. QED  BY <1>1, <1>4, <1>5, <1>6, <1>7 DEF ContainerInv, Fresh

LEMMA ContainerStep == ContainerInv /\ [Con!ContainerNext]_containerVars => ContainerInv'
<1>. SUFFICES ASSUME ContainerInv, [Con!ContainerNext]_containerVars PROVE ContainerInv'
  OBVIOUS
<1>0. buffer.len \in Nat
  BY DEF ContainerInv, IsBuffer
<1>1. CASE UNCHANGED containerVars
  BY <1>1 DEF containerVars, ContainerInv, Holds, Fresh
<1>2. CASE \E v \in Value : Con!Add(v)
  BY <1>2, AddKept
<1>3. ASSUME NEW v \in Value, Con!ListRemoveVal(v) PROVE ContainerInv'
  <2>1. Con!Contain(buffer, v) \in 0 .. buffer.len - 1
    BY <1>0, <1>3, ContainIs DEF Con!ListRemoveVal
  <2>. QED  BY <1>3, <2>1, RemoveKept DEF Con!ListRemoveVal
<1>4. ASSUME NEW k \in 0 .. MaxElems - 1, Con!ListRemove(k) PROVE ContainerInv'
  <2>1. k \in 0 .. buffer.len - 1
    BY <1>0, <1>4 DEF Con!ListRemove
  <2>. QED  BY <1>4, <2>1, RemoveKept DEF Con!ListRemove
<1>5. ASSUME NEW k \in 0 .. MaxElems - 1, Con!ListGet(k) PROVE ContainerInv'
  <2>1. /\ kind = "list" /\ k < buffer.len /\ got' = [Con!NoPointer EXCEPT !.at = k, !.val = buffer.mem[k]]
        /\ UNCHANGED <<kind, buffer, elems>>
    BY <1>5 DEF Con!ListGet
  <2>2. got' = [at |-> k, val |-> buffer.mem[k], moved |-> FALSE, shifted |-> FALSE]
    BY <2>1 DEF Con!NoPointer
  <2>3. got'.at = k /\ got'.val = buffer.mem[k] /\ IsPointer(got')
    BY <2>2 DEF IsPointer
  <2>. QED  BY <2>1, <2>3 DEF ContainerInv, Holds, Fresh
<1>6. CASE Con!Pop
  BY <1>6, PopKept
<1>. QED  BY <1>1, <1>2, <1>3, <1>4, <1>5, <1>6 DEF Con!ContainerNext

LEMMA ContainerPart == [Next]_all => [Con!ContainerNext]_containerVars
<1>. SUFFICES ASSUME [Next]_all PROVE [Con!ContainerNext]_containerVars  OBVIOUS
<1>1. CASE UNCHANGED all  BY <1>1 DEF all, containerVars
<1>2. CASE Next  BY <1>2 DEF Next, InCopy, InWait, InSignals, containerVars
<1>. QED  BY <1>1, <1>2

(* However my_array_list.c and mystack.h are called, the buffer holds what *)
(* was stored in its order, list_contain() finds the first place of a      *)
(* value, and the pointer of list_get() is good until the buffer grows or  *)
(* something at or before it is removed: for any values, any first size    *)
(* but 0, and lists of any length.                                         *)
THEOREM ContainersRight ==
    ASSUME FirstSize \in Nat \ {0}
    PROVE  Spec => []StackOrList
<1>1. Init => ContainerInv  BY ContainerStart DEF Init
<1>2. ContainerInv /\ [Next]_all => ContainerInv'  BY ContainerStep, ContainerPart
<1>3. ContainerInv => StackOrList
  <2>. SUFFICES ASSUME ContainerInv PROVE StackOrList  OBVIOUS
  <2>1. /\ buffer.len \in Nat /\ buffer.len = Len(elems) /\ buffer.len <= buffer.size
        /\ DOMAIN buffer.mem = 0 .. buffer.size - 1
        /\ (\A k \in 1 .. Len(elems) : buffer.mem[k - 1] = elems[k]) /\ elems \in Seq(Value)
    BY BufferIs
  <2>2. DOMAIN elems = 1 .. Len(elems)
    BY <2>1, LenProperties
  <2>3. ASSUME NEW v \in Value, Con!Contain(buffer, v) = -1 PROVE v \notin Con!ToSet(elems)
    <3>1. \A k \in 0 .. buffer.len - 1 : buffer.mem[k] # v
      BY <2>1, <2>3, ContainIs
    <3>2. ASSUME NEW j \in 1 .. Len(elems) PROVE elems[j] # v
      <4>1. j - 1 \in 0 .. buffer.len - 1
        BY <2>1
      <4>. QED  BY <2>1, <3>1, <4>1
    <3>. QED  BY <2>2, <3>2, Zenon DEF Con!ToSet
  <2>4. ASSUME NEW v \in Value, Con!Contain(buffer, v) # -1
        PROVE  elems[Con!Contain(buffer, v) + 1] = v /\ v \notin Con!ToSet(SubSeq(elems, 1, Con!Contain(buffer, v)))
    <3>. DEFINE c == Con!Contain(buffer, v)   s == SubSeq(elems, 1, c)
    <3>1. c \in 0 .. buffer.len - 1 /\ buffer.mem[c] = v /\ \A k \in 0 .. c - 1 : buffer.mem[k] # v
      BY <2>1, <2>4, ContainIs
    <3>. HIDE DEF c
    <3>2. elems[c + 1] = v
      <4>1. c + 1 \in 1 .. Len(elems) /\ (c + 1) - 1 = c
        BY <2>1, <3>1
      <4>. QED  BY <2>1, <3>1, <4>1
    <3>3. DOMAIN s = 1 .. c /\ \A j \in 1 .. c : s[j] = elems[j]
      <4>1. \A j \in 1 .. c : elems[j] \in Value
        BY <2>1, <3>1, ElementOfSeq
      <4>2. 1 \in Int /\ c \in Int
        BY <3>1
      <4>3. /\ s \in Seq(Value) /\ Len(s) = IF 1 <= c THEN c - 1 + 1 ELSE 0
            /\ \A j \in 1 .. c - 1 + 1 : s[j] = elems[1 + j - 1]
        BY <4>1, <4>2, SubSeqProperties
      <4>. HIDE DEF s
      <4>4. DOMAIN s = 1 .. Len(s)
        BY <4>3, LenProperties
      <4>. QED  BY <3>1, <4>3, <4>4
    <3>. HIDE DEF s
    <3>4. ASSUME NEW j \in 1 .. c PROVE s[j] # v
      <4>1. j - 1 \in 0 .. c - 1 /\ j \in 1 .. Len(elems)
        BY <2>1, <3>1
      <4>. QED  BY <2>1, <3>1, <3>3, <4>1
    <3>5. v \notin Con!ToSet(s)
      BY <3>3, <3>4, Zenon DEF Con!ToSet
    <3>. QED  BY <3>2, <3>5 DEF c, s
  <2>5. Con!BufferIsSequence
    BY <2>1, <2>3, <2>4 DEF Con!BufferIsSequence
  <2>6. Con!PointerFresh
    BY DEF ContainerInv, Fresh, Con!PointerFresh
  <2>. QED  BY <2>5, <2>6 DEF StackOrList, Con!StackOrList
<1>. QED  BY <1>1, <1>2, <1>3, PTL DEF Spec

-----------------------------------------------------------------------------
(* The blocks of a file are the multiples of the size of a buffer.         *)
LEMMA Multiple ==
    ASSUME NEW M \in Nat \ {0}, NEW a \in Nat, a % M = 0
    PROVE  a = M * (a \div M) /\ a \div M \in Nat
<1>1. a = M * (a \div M) + (a % M)
  OBVIOUS
<1>2. a \div M \in Nat
  OBVIOUS
<1>. QED  BY <1>1, <1>2

LEMMA NextMultiple ==
    ASSUME NEW M \in Nat \ {0}, NEW a \in Nat, a % M = 0
    PROVE  (a + M) % M = 0
<1>1. a + M = M * ((a + M) \div M) + ((a + M) % M) /\ (a + M) % M \in 0 .. M - 1
  OBVIOUS
<1>2. a = M * (a \div M)
  BY Multiple
<1>. DEFINE x == (a + M) \div M   y == a \div M   r == (a + M) % M
<1>3. x \in Int /\ y \in Int /\ r \in 0 .. M - 1
  BY <1>1
<1>4. M * (y + 1) = M * x + r
  BY <1>1, <1>2
<1>. HIDE DEF x, y, r
<1>5. M * (y + 1 - x) = r
  BY <1>3, <1>4
<1>6. ASSUME y + 1 - x >= 1 PROVE FALSE
  <2>1. M * (y + 1 - x) >= M
    BY <1>3, <1>6
  <2>. QED  BY <2>1, <1>5, <1>3
<1>7. ASSUME y + 1 - x <= -1 PROVE FALSE
  <2>1. M * (y + 1 - x) <= -M
    BY <1>3, <1>7
  <2>. QED  BY <2>1, <1>5, <1>3
<1>8. r = 0
  <2>1. y + 1 - x = 0
    BY <1>3, <1>6, <1>7
  <2>. QED  BY <2>1, <1>5
<1>. QED  BY <1>8 DEF r

LEMMA MultipleBelow ==
    ASSUME NEW M \in Nat \ {0}, NEW a \in Nat, NEW b \in Nat, a % M = 0, b % M = 0, a < b
    PROVE  a + M <= b
<1>1. a = M * (a \div M) /\ b = M * (b \div M) /\ a \div M \in Nat /\ b \div M \in Nat
  BY Multiple
<1>. DEFINE x == a \div M   y == b \div M
<1>2. a = M * x /\ b = M * y /\ x \in Nat /\ y \in Nat
  BY <1>1
<1>. HIDE DEF x, y
<1>3. ASSUME y <= x PROVE FALSE
  <2>1. M * y <= M * x
    BY <1>2, <1>3
  <2>. QED  BY <2>1, <1>2
<1>4. M * (x + 1) <= M * y
  BY <1>2, <1>3
<1>5. M * (x + 1) = M * x + M
  BY <1>2
<1>. QED  BY <1>2, <1>4, <1>5

-----------------------------------------------------------------------------
(* Copying with asynchronous I/O.  What a buffer holds, and what its       *)
(* control block says, is about the one block it was started for, as far   *)
(* as it was read; only the last may have been read in part when it is     *)
(* written.                                                                *)
Block(o, l, translated) == [offset |-> o, len |-> l, translated |-> translated]
ReadShort(o) == <<"read", o>> \in partial
IsLast(o) == o + BSZ >= st_size
(* The input has whole blocks, and none was read in part.                  *)
Whole == st_size % BSZ = 0 /\ \A o \in Copy!Offsets : ~ReadShort(o)
IsPart(d, o, translated) ==
    /\ d = Block(o, d.len, translated) /\ d.len \in 0 .. Copy!Available(o)
    /\ d.len < Copy!Available(o) => ReadShort(o)
InBuffer(b) ==
    /\ op[b] \in {"UNUSED", "READ_PENDING", "WRITE_PENDING"} /\ aio[b].st \in {"idle", "read", "write", "failed"}
    /\ aio[b] = [st |-> aio[b].st, offset |-> aio[b].offset, nbytes |-> aio[b].nbytes]
    /\ op[b] = "UNUSED" => aio[b].st = "idle"
    /\ aio[b].st = "read" => op[b] = "READ_PENDING"
    /\ aio[b].st = "write" => op[b] = "WRITE_PENDING"
    /\ op[b] # "UNUSED" => aio[b].offset \in Copy!Offsets
    /\ last[b] # 0 => off >= st_size /\ (op[b] # "UNUSED" => IsLast(aio[b].offset))
    /\ op[b] = "READ_PENDING" /\ aio[b].st = "idle" => IsPart(data[b], aio[b].offset, FALSE)
    /\ op[b] = "WRITE_PENDING" => /\ IsPart(data[b], aio[b].offset, TRUE) /\ aio[b].nbytes = data[b].len
                                  /\ data[b].len < Copy!Available(aio[b].offset) => IsLast(aio[b].offset)
                                  /\ Whole => n = BSZ
Right(o) ==
    /\ file[o].offset = o /\ file[o].translated /\ file[o].len <= Copy!Available(o)
    /\ file[o].len < Copy!Available(o) =>
          <<"write", o>> \in partial \/ (<<"read", o>> \in partial /\ o + BSZ >= st_size)
CopyInv ==
    /\ st_size \in Nat /\ off \in Nat /\ off % BSZ = 0 /\ i \in Copy!Buf
    /\ op = [b \in Copy!Buf |-> op[b]] /\ aio = [b \in Copy!Buf |-> aio[b]] /\ data = [b \in Copy!Buf |-> data[b]]
    /\ last = [b \in Copy!Buf |-> last[b]] /\ file = [o \in Copy!Offsets |-> file[o]]
    /\ \A b \in Copy!Buf : InBuffer(b)
    /\ \A o \in Copy!Offsets : file[o] # Copy!Nothing => Right(o)
    /\ Copy!QuitsOnlyIfShort

(* Translating a part, and giving it the length that was written.          *)
LEMMA PartOf ==
    ASSUME NEW o, NEW l, NEW w, NEW x, NEW k
    PROVE  /\ [Block(o, l, w) EXCEPT !.translated = x] = Block(o, l, x)
           /\ [Block(o, l, w) EXCEPT !.len = k] = Block(o, k, w)
<1>. DEFINE d == Block(o, l, w)   e == [d EXCEPT !.translated = x]   f == [d EXCEPT !.len = k]
<1>1. d.offset = o /\ d.len = l /\ d.translated = w /\ DOMAIN d = {"offset", "len", "translated"}
  BY DEF Block
<1>. HIDE DEF d
<1>2. e.offset = o /\ e.len = l /\ e.translated = x /\ DOMAIN e = {"offset", "len", "translated"}
  BY <1>1
<1>3. f.offset = o /\ f.len = k /\ f.translated = w /\ DOMAIN f = {"offset", "len", "translated"}
  BY <1>1
<1>4. e = [offset |-> o, len |-> l, translated |-> x]
  BY <1>2
<1>5. f = [offset |-> o, len |-> k, translated |-> w]
  BY <1>3
<1>. QED  BY <1>4, <1>5 DEF Block, d

LEMMA BlockFields ==
    ASSUME NEW o, NEW l, NEW w
    PROVE  Block(o, l, w).offset = o /\ Block(o, l, w).len = l /\ Block(o, l, w).translated = w
BY DEF Block

(* A file of whole blocks has no short block; every other has one at most. *)
LEMMA WholeBlocks ==
    ASSUME BSZ \in Nat \ {0}, st_size \in Nat, NEW o \in Copy!Offsets
    PROVE  /\ Copy!Available(o) \in 0 .. BSZ /\ o \in Nat /\ o < st_size
           /\ st_size % BSZ = 0 => Copy!Available(o) = BSZ
<1>1. o \in Nat /\ o < st_size /\ o % BSZ = 0
  BY DEF Copy!Offsets
<1>2. st_size % BSZ = 0 => o + BSZ <= st_size
  BY <1>1, MultipleBelow
<1>. QED  BY <1>1, <1>2 DEF Copy!Available

LEMMA CopyStart ==
    ASSUME NBUF \in Nat \ {0}, BSZ \in Nat \ {0}, Sizes \subseteq Nat
    PROVE  Copy!Init => CopyInv
<1>. SUFFICES ASSUME Copy!Init PROVE CopyInv
  OBVIOUS
<1>1. st_size \in Nat /\ off = 0 /\ 0 % BSZ = 0 /\ i = 0 /\ 0 \in Copy!Buf
  BY DEF Copy!Init, Copy!Buf
<1>2. /\ op = [b \in Copy!Buf |-> op[b]] /\ aio = [b \in Copy!Buf |-> aio[b]] /\ data = [b \in Copy!Buf |-> data[b]]
      /\ last = [b \in Copy!Buf |-> last[b]] /\ file = [o \in Copy!Offsets |-> file[o]]
  BY DEF Copy!Init
<1>3. \A b \in Copy!Buf : op[b] = "UNUSED" /\ last[b] = 0 /\ aio[b] = [st |-> "idle", offset |-> 0, nbytes |-> 0]
  BY DEF Copy!Init, Copy!Idle
<1>4. ASSUME NEW b \in Copy!Buf PROVE InBuffer(b)
  <2>1. op[b] = "UNUSED" /\ last[b] = 0 /\ aio[b] = [st |-> "idle", offset |-> 0, nbytes |-> 0]
    BY <1>3
  <2>2. aio[b].st = "idle" /\ aio[b].offset = 0 /\ aio[b].nbytes = 0
    BY <2>1
  <2>. QED  BY <2>1, <2>2 DEF InBuffer
<1>5. (\A o \in Copy!Offsets : file[o] = Copy!Nothing) /\ at = "switch"
  BY DEF Copy!Init
<1>. QED  BY <1>1, <1>2, <1>4, <1>5 DEF CopyInv, Copy!QuitsOnlyIfShort

(* What no step about buffer c changes: the other buffers, as long as n    *)
(* says what it said, or a whole block; and the output, unless it is       *)
(* written.                                                                *)
Forward == /\ UNCHANGED st_size /\ partial \subseteq partial' /\ off' \in Nat /\ off' >= off
           /\ n' = n \/ (Whole' => n' = BSZ)

LEMMA SameInput ==
    ASSUME UNCHANGED st_size
    PROVE  Copy!Offsets' = Copy!Offsets /\ \A o : Copy!Available(o)' = Copy!Available(o) /\ (IsLast(o)' <=> IsLast(o))
BY DEF Copy!Offsets, Copy!Available, IsLast

LEMMA BufferKept ==
    ASSUME Forward, st_size \in Nat, off \in Nat, NEW b,
           UNCHANGED <<op[b], aio[b], data[b], last[b]>>, InBuffer(b)
    PROVE  InBuffer(b)'
<1>. DEFINE o == aio[b].offset
<1>1. /\ Copy!Offsets' = Copy!Offsets /\ Copy!Available(o)' = Copy!Available(o)
      /\ IsLast(o)' <=> IsLast(o)
  BY SameInput DEF Forward, Copy!Available, IsLast
<1>2. Whole' => Whole
  BY SameInput DEF Forward, Whole, ReadShort
<1>3. IsPart(data[b], o, TRUE) => IsPart(data[b], o, TRUE)'
  BY <1>1 DEF Forward, IsPart, ReadShort
<1>4. IsPart(data[b], o, FALSE) => IsPart(data[b], o, FALSE)'
  BY <1>1 DEF Forward, IsPart, ReadShort
<1>5. last[b] # 0 => off' >= st_size'
  BY DEF Forward, InBuffer
<1>6. /\ op'[b] = op[b] /\ aio'[b] = aio[b] /\ data'[b] = data[b] /\ last'[b] = last[b] /\ o' = o
      /\ Whole' /\ (Whole => n = BSZ) => n' = BSZ
  BY <1>2 DEF Forward
<1>. HIDE DEF o
<1>. QED  BY <1>1, <1>3, <1>4, <1>5, <1>6 DEF InBuffer, o

LEMMA OthersKept ==
    ASSUME CopyInv, NEW c \in Copy!Buf, Forward,
           op' = [op EXCEPT ![c] = op'[c]], aio' = [aio EXCEPT ![c] = aio'[c]],
           data' = [data EXCEPT ![c] = data'[c]], last' = [last EXCEPT ![c] = last'[c]], InBuffer(c)'
    PROVE  /\ op' = [b \in Copy!Buf |-> op'[b]] /\ aio' = [b \in Copy!Buf |-> aio'[b]]
           /\ data' = [b \in Copy!Buf |-> data'[b]] /\ last' = [b \in Copy!Buf |-> last'[b]]
           /\ \A b \in Copy!Buf : InBuffer(b)'
<1>1. /\ op' = [b \in Copy!Buf |-> op'[b]] /\ aio' = [b \in Copy!Buf |-> aio'[b]]
      /\ data' = [b \in Copy!Buf |-> data'[b]] /\ last' = [b \in Copy!Buf |-> last'[b]]
  BY DEF CopyInv
<1>2. \A b \in Copy!Buf \ {c} : op'[b] = op[b] /\ aio'[b] = aio[b] /\ data'[b] = data[b] /\ last'[b] = last[b]
  BY DEF CopyInv
<1>3. ASSUME NEW b \in Copy!Buf \ {c} PROVE InBuffer(b)'
  BY <1>2, BufferKept DEF CopyInv
<1>. QED  BY <1>1, <1>3

LEMMA OutputKept ==
    ASSUME CopyInv, Forward, UNCHANGED file
    PROVE  /\ file' = [o \in Copy!Offsets' |-> file'[o]]
           /\ \A o \in Copy!Offsets' : file'[o] # Copy!Nothing => Right(o)'
<1>1. Copy!Offsets' = Copy!Offsets /\ \A o : Copy!Available(o)' = Copy!Available(o)
  BY SameInput DEF Forward
<1>2. ASSUME NEW o \in Copy!Offsets, file[o] # Copy!Nothing PROVE Right(o)'
  <2>1. Right(o)  BY <1>2 DEF CopyInv
  <2>2. Copy!Available(o)' = Copy!Available(o)  BY DEF Forward, Copy!Available
  <2>. QED  BY <2>1, <2>2 DEF Right, Forward
<1>. QED  BY <1>1, <1>2 DEF CopyInv

(* aio_read() of the next block, for a buffer that is not in use.          *)
LEMMA StartReadKept ==
    ASSUME BSZ \in Nat \ {0}, CopyInv, Copy!StartRead
    PROVE  CopyInv'
<1>1. /\ at' = "test" /\ op[i] = "UNUSED" /\ i \in Copy!Buf /\ UNCHANGED <<st_size, data, n, i, file, partial>>
  BY DEF Copy!StartRead, CopyInv
<1>2. CASE off < st_size
  <2>1. /\ op' = [op EXCEPT ![i] = "READ_PENDING"] /\ off' = off + BSZ
        /\ aio' = [aio EXCEPT ![i] = [st |-> "read", offset |-> off, nbytes |-> BSZ]]
        /\ last' = [last EXCEPT ![i] = IF off' >= st_size THEN 1 ELSE @]
    BY <1>2 DEF Copy!StartRead
  <2>2. /\ op'[i] = "READ_PENDING" /\ aio'[i] = [st |-> "read", offset |-> off, nbytes |-> BSZ]
        /\ last'[i] = IF off' >= st_size THEN 1 ELSE last[i]
        /\ op' = [op EXCEPT ![i] = op'[i]] /\ aio' = [aio EXCEPT ![i] = aio'[i]]
        /\ data' = [data EXCEPT ![i] = data'[i]] /\ last' = [last EXCEPT ![i] = last'[i]]
    BY <1>1, <2>1 DEF CopyInv
  <2>3. off \in Copy!Offsets' /\ aio'[i].st = "read" /\ aio'[i].offset = off
    BY <1>1, <1>2, <2>2, SameInput DEF CopyInv, Copy!Offsets
  <2>4. off' \in Nat /\ off' % BSZ = 0 /\ off' >= off
    BY <2>1, NextMultiple DEF CopyInv
  <2>5. last'[i] # 0 => off' >= st_size /\ off + BSZ >= st_size
    <3>1. last[i] # 0 => off >= st_size  BY <1>1 DEF CopyInv, InBuffer
    <3>2. off \in Nat /\ st_size \in Nat  BY DEF CopyInv
    <3>. QED  BY <1>2, <2>1, <2>2, <3>1, <3>2
  <2>6. \A b : b = i => InBuffer(b)'
    BY <1>1, <2>2, <2>3, <2>5 DEF InBuffer, IsLast
  <2>7. Forward
    BY <1>1, <2>4 DEF Forward
  <2>8. /\ op' = [b \in Copy!Buf |-> op'[b]] /\ aio' = [b \in Copy!Buf |-> aio'[b]]
        /\ data' = [b \in Copy!Buf |-> data'[b]] /\ last' = [b \in Copy!Buf |-> last'[b]]
        /\ \A b \in Copy!Buf : InBuffer(b)'
    BY <1>1, <2>2, <2>6, <2>7, OthersKept
  <2>. QED  BY <1>1, <2>4, <2>7, <2>8, OutputKept DEF CopyInv, Copy!QuitsOnlyIfShort
<1>3. CASE ~(off < st_size)
  <2>1. UNCHANGED <<op, aio, off, last>>
    BY <1>3 DEF Copy!StartRead
  <2>2. Forward
    BY <1>1, <2>1 DEF Forward, CopyInv
  <2>3. \A b \in Copy!Buf : InBuffer(b)'
    BY <1>1, <2>1, <2>2, BufferKept DEF CopyInv
  <2>. QED  BY <1>1, <2>1, <2>2, <2>3, OutputKept DEF CopyInv, Copy!QuitsOnlyIfShort
<1>. QED  BY <1>2, <1>3

(* The block was read: it is translated and aio_write() started, at the    *)
(* offset it was read from and with the length aio_return() gave.          *)
LEMMA StartWriteKept ==
    ASSUME BSZ \in Nat \ {0}, CopyInv, Copy!StartWrite
    PROVE  CopyInv'
<1>. DEFINE o == aio[i].offset
<1>1. /\ op[i] = "READ_PENDING" /\ aio[i].st = "idle" /\ i \in Copy!Buf /\ n' = data[i].len
      /\ UNCHANGED <<st_size, off, i, file, last, partial>>
  BY DEF Copy!StartWrite, CopyInv
<1>2. InBuffer(i) /\ st_size \in Nat /\ off \in Nat
  BY <1>1 DEF CopyInv
<1>3. IsPart(data[i], o, FALSE) /\ o \in Copy!Offsets
  BY <1>1, <1>2 DEF InBuffer
<1>4. Copy!Available(o) \in 0 .. BSZ /\ (st_size % BSZ = 0 => Copy!Available(o) = BSZ)
  BY <1>2, <1>3, WholeBlocks
<1>5. Whole => n' = BSZ
  BY <1>1, <1>3, <1>4 DEF IsPart, Whole
<1>6. Forward
  BY <1>1, <1>2, <1>5, SameInput DEF Forward, Whole, ReadShort
<1>7. CASE at' = "quit" /\ n' # BSZ /\ UNCHANGED <<op, aio, data>>
  <2>1. Copy!QuitsOnlyIfShort'
    <3>1. st_size % BSZ # 0 \/ \E p \in Copy!Offsets : <<"read", p>> \in partial
      BY <1>5, <1>7 DEF Whole, ReadShort
    <3>. QED  BY <1>1, <3>1, SameInput DEF Copy!QuitsOnlyIfShort
  <2>2. \A b \in Copy!Buf : InBuffer(b)'
    BY <1>1, <1>2, <1>6, <1>7, BufferKept DEF CopyInv
  <2>. QED  BY <1>1, <1>6, <1>7, <2>1, <2>2, OutputKept DEF CopyInv
<1>8. CASE /\ ~(n' # BSZ /\ last[i] = 0)
           /\ data' = [data EXCEPT ![i].translated = TRUE]
           /\ op' = [op EXCEPT ![i] = "WRITE_PENDING"]
           /\ aio' = [aio EXCEPT ![i] = [st |-> "write", offset |-> @.offset, nbytes |-> n']]
           /\ at' = "test"
  <2>1. /\ op'[i] = "WRITE_PENDING" /\ aio'[i] = [st |-> "write", offset |-> o, nbytes |-> n']
        /\ data'[i] = [data[i] EXCEPT !.translated = TRUE] /\ last'[i] = last[i]
        /\ op' = [op EXCEPT ![i] = op'[i]] /\ aio' = [aio EXCEPT ![i] = aio'[i]]
        /\ data' = [data EXCEPT ![i] = data'[i]] /\ last' = [last EXCEPT ![i] = last'[i]]
    BY <1>1, <1>8 DEF CopyInv
  <2>2. data'[i] = Block(o, data[i].len, TRUE) /\ data'[i].len = data[i].len
    <3>. DEFINE l == data[i].len   yes == TRUE   no == FALSE
    <3>1. data[i] = Block(o, l, no) /\ data'[i] = [data[i] EXCEPT !.translated = yes]
      BY <1>3, <2>1, Zenon DEF IsPart
    <3>. HIDE DEF o, l, yes, no
    <3>2. [Block(o, l, no) EXCEPT !.translated = yes] = Block(o, l, yes)
      BY PartOf
    <3>3. data'[i] = Block(o, l, yes)
      BY <3>1, <3>2
    <3>4. data'[i].len = l
      BY <3>3, BlockFields
    <3>. QED  BY <3>3, <3>4, Zenon DEF o, l, yes
  <2>3. aio'[i].st = "write" /\ aio'[i].offset = o /\ aio'[i].nbytes = data[i].len
    BY <1>1, <2>1
  <2>4. data[i].len < Copy!Available(o) => IsLast(o)
    <3>1. ASSUME data[i].len < Copy!Available(o) PROVE last[i] # 0
      BY <1>1, <1>3, <1>4, <1>8, <3>1 DEF IsPart
    <3>. QED  BY <1>1, <1>2, <3>1 DEF InBuffer
  <2>5. \A b : b = i => InBuffer(b)'
    <3>1. TAKE b
    <3>2. HAVE b = i
    <3>. DEFINE l == data[i].len
    <3>3. /\ op'[b] = "WRITE_PENDING" /\ aio'[b].st = "write" /\ aio'[b].offset = o /\ aio'[b].nbytes = l
          /\ aio'[b] = [st |-> aio'[b].st, offset |-> aio'[b].offset, nbytes |-> aio'[b].nbytes]
          /\ data'[b] = Block(o, l, TRUE) /\ data'[b].len = l /\ last'[b] = last[i]
      BY <1>1, <2>1, <2>2, <2>3, <3>2
    <3>4. Copy!Available(aio[b].offset)' = Copy!Available(o) /\ (IsLast(aio[b].offset)' <=> IsLast(o))
      BY <1>1, <3>3 DEF Copy!Available, IsLast
    <3>5. IsPart(data[b], aio[b].offset, TRUE)'
      BY <1>1, <1>3, <3>3, <3>4 DEF IsPart, ReadShort
    <3>6. aio'[b].offset \in Copy!Offsets' /\ (Whole' => n' = BSZ)
      BY <1>1, <1>3, <1>5, <3>3, SameInput DEF Whole, ReadShort
    <3>7. last'[b] # 0 => off' >= st_size' /\ IsLast(aio[b].offset)'
      BY <1>1, <1>2, <3>3, <3>4 DEF InBuffer
    <3>. HIDE DEF o, l
    <3>. QED  BY <2>4, <3>3, <3>4, <3>5, <3>6, <3>7 DEF InBuffer, l
  <2>6. /\ op' = [b \in Copy!Buf |-> op'[b]] /\ aio' = [b \in Copy!Buf |-> aio'[b]]
        /\ data' = [b \in Copy!Buf |-> data'[b]] /\ last' = [b \in Copy!Buf |-> last'[b]]
        /\ \A b \in Copy!Buf : InBuffer(b)'
    BY <1>1, <1>6, <2>1, <2>5, OthersKept
  <2>7. Copy!QuitsOnlyIfShort'
    BY <1>8 DEF Copy!QuitsOnlyIfShort
  <2>8. st_size' \in Nat /\ off' \in Nat /\ off' % BSZ = 0 /\ i' \in Copy!Buf
    BY <1>1 DEF CopyInv
  <2>. QED  BY <1>1, <1>6, <2>6, <2>7, <2>8, OutputKept DEF CopyInv
<1>9. \/ at' = "quit" /\ n' # BSZ /\ UNCHANGED <<op, aio, data>>
      \/ /\ ~(n' # BSZ /\ last[i] = 0)
         /\ data' = [data EXCEPT ![i].translated = TRUE]
         /\ op' = [op EXCEPT ![i] = "WRITE_PENDING"]
         /\ aio' = [aio EXCEPT ![i] = [st |-> "write", offset |-> @.offset, nbytes |-> n']]
         /\ at' = "test"
  BY DEF Copy!StartWrite
<1>. QED  BY <1>7, <1>8, <1>9

(* The block was written.                                                  *)
LEMMA EndWriteKept ==
    ASSUME BSZ \in Nat \ {0}, CopyInv, Copy!EndWrite
    PROVE  CopyInv'
<1>1. /\ op[i] = "WRITE_PENDING" /\ aio[i].st = "idle" /\ i \in Copy!Buf
      /\ UNCHANGED <<st_size, aio, last, data, off, n, i, file, partial>>
  BY DEF Copy!EndWrite, CopyInv
<1>2. InBuffer(i) /\ st_size \in Nat /\ off \in Nat
  BY <1>1 DEF CopyInv
<1>3. Forward
  BY <1>1, <1>2 DEF Forward
<1>4. CASE n # aio[i].nbytes
  <2>1. at' = "quit" /\ UNCHANGED op
    BY <1>4 DEF Copy!EndWrite
  <2>2. ASSUME Whole PROVE FALSE
    <3>1. n = BSZ /\ aio[i].nbytes = data[i].len /\ IsPart(data[i], aio[i].offset, TRUE) /\ aio[i].offset \in Copy!Offsets
      BY <1>1, <1>2, <2>2 DEF InBuffer
    <3>2. Copy!Available(aio[i].offset) = BSZ /\ ~ReadShort(aio[i].offset)
      BY <1>2, <2>2, <3>1, WholeBlocks DEF Whole
    <3>. QED  BY <1>4, <3>1, <3>2 DEF IsPart
  <2>3. Copy!QuitsOnlyIfShort'
    BY <1>1, <2>2, SameInput DEF Copy!QuitsOnlyIfShort, Whole, ReadShort
  <2>4. \A b \in Copy!Buf : InBuffer(b)'
    BY <1>1, <1>2, <1>3, <2>1, BufferKept DEF CopyInv
  <2>. QED  BY <1>1, <1>3, <2>1, <2>3, <2>4, OutputKept DEF CopyInv
<1>5. CASE ~(n # aio[i].nbytes)
  <2>1. at' = "test" /\ op' = [op EXCEPT ![i] = "UNUSED"]
    BY <1>5 DEF Copy!EndWrite
  <2>2. /\ op'[i] = "UNUSED" /\ op' = [op EXCEPT ![i] = op'[i]] /\ aio' = [aio EXCEPT ![i] = aio'[i]]
        /\ data' = [data EXCEPT ![i] = data'[i]] /\ last' = [last EXCEPT ![i] = last'[i]]
    BY <1>1, <2>1 DEF CopyInv
  <2>3. \A b : b = i => InBuffer(b)'
    BY <1>1, <1>2, <2>2 DEF InBuffer
  <2>4. /\ op' = [b \in Copy!Buf |-> op'[b]] /\ aio' = [b \in Copy!Buf |-> aio'[b]]
        /\ data' = [b \in Copy!Buf |-> data'[b]] /\ last' = [b \in Copy!Buf |-> last'[b]]
        /\ \A b \in Copy!Buf : InBuffer(b)'
    BY <1>1, <1>3, <2>2, <2>3, OthersKept
  <2>. QED  BY <1>1, <1>3, <2>1, <2>4, OutputKept DEF CopyInv, Copy!QuitsOnlyIfShort
<1>. QED  BY <1>4, <1>5

(* The kernel completes an operation, of whichever buffer, in full or in   *)
(* part, or fails it.                                                      *)
LEMMA CompleteKept ==
    ASSUME BSZ \in Nat \ {0}, CopyInv, NEW b \in Copy!Buf, Copy!Complete(b)
    PROVE  CopyInv'
<1>. DEFINE o == aio[b].offset
<1>1. UNCHANGED <<st_size, op, last, off, n, i, at>> /\ aio[b].st \in {"read", "write"}
  BY DEF Copy!Complete, Copy!CompleteRead, Copy!CompleteWrite
<1>2. InBuffer(b) /\ st_size \in Nat /\ off \in Nat
  BY DEF CopyInv
<1>3. PICK st \in {"idle", "failed"} : aio' = [aio EXCEPT ![b].st = st]
  BY DEF Copy!Complete
<1>4. /\ aio'[b] = [aio[b] EXCEPT !.st = st] /\ aio' = [aio EXCEPT ![b] = aio'[b]]
      /\ op' = [op EXCEPT ![b] = op'[b]] /\ op'[b] = op[b] /\ last' = [last EXCEPT ![b] = last'[b]]
      /\ \A c \in Copy!Buf \ {b} : aio'[c] = aio[c]
  BY <1>1, <1>3 DEF CopyInv
<1>5. /\ aio'[b].st = st /\ aio'[b].offset = o /\ aio'[b].nbytes = aio[b].nbytes
      /\ aio'[b] = [st |-> aio'[b].st, offset |-> aio'[b].offset, nbytes |-> aio'[b].nbytes]
  BY <1>2, <1>4 DEF InBuffer
<1>6. o \in Copy!Offsets /\ op[b] \in {"READ_PENDING", "WRITE_PENDING"}
  BY <1>1, <1>2 DEF InBuffer
<1>7. Copy!Available(o) \in Nat
  BY <1>2, <1>6, WholeBlocks
<1>8. ASSUME partial \subseteq partial' PROVE Copy!QuitsOnlyIfShort' /\ Forward
  <2>1. Forward
    BY <1>1, <1>2, <1>8 DEF Forward
  <2>2. ASSUME NEW c \in Copy!Buf, aio[c].st = "failed" PROVE aio'[c].st = "failed"
    BY <1>1, <1>4, <2>2
  <2>. QED  BY <1>1, <1>8, <2>1, <2>2, SameInput DEF Copy!QuitsOnlyIfShort, CopyInv, Copy!Buf
<1>9. ASSUME partial \subseteq partial', data' = [data EXCEPT ![b] = data'[b]],
             op[b] = "READ_PENDING" /\ st = "idle" => IsPart(data[b], aio[b].offset, FALSE)',
             op[b] = "WRITE_PENDING" => data'[b] = data[b]
      PROVE  /\ op' = [c \in Copy!Buf |-> op'[c]] /\ aio' = [c \in Copy!Buf |-> aio'[c]]
             /\ data' = [c \in Copy!Buf |-> data'[c]] /\ last' = [c \in Copy!Buf |-> last'[c]]
             /\ \A c \in Copy!Buf : InBuffer(c)'
  <2>1. Copy!Available(aio[b].offset)' = Copy!Available(o) /\ (IsLast(aio[b].offset)' <=> IsLast(o))
    BY <1>1, <1>5 DEF Copy!Available, IsLast
  <2>2. Copy!Offsets' = Copy!Offsets /\ (Whole' => Whole)
    BY <1>1, <1>9, SameInput DEF Whole, ReadShort
  <2>3. op[b] = "WRITE_PENDING" => IsPart(data[b], aio[b].offset, TRUE)'
    BY <1>2, <1>5, <1>9, <2>1 DEF InBuffer, IsPart, ReadShort
  <2>4. InBuffer(b)'
    <3>. HIDE DEF o
    <3>1. /\ op[b] = "WRITE_PENDING" => /\ aio[b].nbytes = data[b].len
                                        /\ data[b].len < Copy!Available(o) => IsLast(o)
                                        /\ Whole => n = BSZ
          /\ last[b] # 0 => off >= st_size /\ IsLast(o)
      BY <1>2, <1>6 DEF InBuffer, o
    <3>. QED  BY <1>1, <1>4, <1>5, <1>6, <1>9, <2>1, <2>2, <2>3, <3>1 DEF InBuffer
  <2>. QED  BY <1>4, <1>8, <1>9, <2>4, OthersKept
<1>10. CASE Copy!CompleteRead(b) /\ st = "idle"
  <2>1. PICK l \in 0 .. Copy!Available(o) :
            /\ data' = [data EXCEPT ![b] = [offset |-> o, len |-> l, translated |-> FALSE]]
            /\ partial' = partial \cup {x \in {<<"read", o>>} : l < Copy!Available(o)}
    BY <1>10 DEF Copy!CompleteRead
  <2>2. op[b] = "READ_PENDING" /\ UNCHANGED file
    BY <1>2, <1>10 DEF InBuffer, Copy!CompleteRead
  <2>3. data'[b] = Block(o, l, FALSE) /\ data' = [data EXCEPT ![b] = data'[b]]
    <3>. DEFINE x == Block(o, l, FALSE)
    <3>1. data' = [data EXCEPT ![b] = x] /\ b \in Copy!Buf
      BY <2>1 DEF Block
    <3>2. data = [c \in Copy!Buf |-> data[c]]
      BY DEF CopyInv
    <3>. HIDE DEF x
    <3>3. data'[b] = x /\ data' = [data EXCEPT ![b] = data'[b]]
      BY <3>1, <3>2
    <3>. QED  BY <3>3 DEF x
  <2>4. data'[b].len = l
    <3>. DEFINE no == FALSE
    <3>1. data'[b] = Block(o, l, no)
      BY <2>3, Zenon
    <3>. HIDE DEF o, no
    <3>. QED  BY <3>1, BlockFields
  <2>5. IsPart(data[b], aio[b].offset, FALSE)'
    <3>1. Copy!Available(aio[b].offset)' = Copy!Available(o)
      BY <1>1, <1>5 DEF Copy!Available
    <3>2. l < Copy!Available(o) => <<"read", o>> \in partial'
      BY <2>1
    <3>. QED  BY <1>5, <2>3, <2>4, <3>1, <3>2 DEF IsPart, ReadShort
  <2>6. partial \subseteq partial'
    BY <2>1
  <2>7. /\ op' = [c \in Copy!Buf |-> op'[c]] /\ aio' = [c \in Copy!Buf |-> aio'[c]]
        /\ data' = [c \in Copy!Buf |-> data'[c]] /\ last' = [c \in Copy!Buf |-> last'[c]]
        /\ \A c \in Copy!Buf : InBuffer(c)'
    BY <1>9, <2>2, <2>3, <2>5, <2>6
  <2>. QED  BY <1>1, <1>8, <2>2, <2>6, <2>7, OutputKept DEF CopyInv
<1>11. CASE aio' = [aio EXCEPT ![b].st = "failed"] /\ UNCHANGED <<data, file, partial>>
  <2>1. data' = [data EXCEPT ![b] = data'[b]]
    BY <1>11 DEF CopyInv
  <2>2. aio'[b] = [aio[b] EXCEPT !.st = "failed"]
    BY <1>11 DEF CopyInv
  <2>3. st = "failed"
    BY <1>2, <1>5, <2>2 DEF InBuffer
  <2>4. /\ op' = [c \in Copy!Buf |-> op'[c]] /\ aio' = [c \in Copy!Buf |-> aio'[c]]
        /\ data' = [c \in Copy!Buf |-> data'[c]] /\ last' = [c \in Copy!Buf |-> last'[c]]
        /\ \A c \in Copy!Buf : InBuffer(c)'
    BY <1>9, <1>11, <2>1, <2>3
  <2>. QED  BY <1>1, <1>8, <1>11, <2>4, OutputKept DEF CopyInv
<1>12. CASE Copy!CompleteWrite(b) /\ st = "idle"
  <2>1. PICK l \in Copy!Written(aio[b].nbytes) :
            /\ file' = [file EXCEPT ![o] = [data[b] EXCEPT !.len = l]]
            /\ partial' = partial \cup {x \in {<<"write", o>>} : l < aio[b].nbytes}
    BY <1>12 DEF Copy!CompleteWrite
  <2>2. /\ op[b] = "WRITE_PENDING" /\ UNCHANGED data /\ IsPart(data[b], o, TRUE) /\ aio[b].nbytes = data[b].len
        /\ data[b].len < Copy!Available(o) => IsLast(o)
    BY <1>2, <1>12 DEF InBuffer, Copy!CompleteWrite
  <2>3. data[b].len \in Nat /\ l \in Nat /\ l <= data[b].len /\ data[b].len <= Copy!Available(o)
    <3>1. data[b].len \in Nat /\ data[b].len <= Copy!Available(o)
      BY <1>7, <2>2 DEF IsPart
    <3>. QED  BY <2>1, <2>2, <3>1 DEF Copy!Written
  <2>4. partial \subseteq partial' /\ data' = [data EXCEPT ![b] = data'[b]]
    BY <2>1, <2>2 DEF CopyInv
  <2>5. /\ op' = [c \in Copy!Buf |-> op'[c]] /\ aio' = [c \in Copy!Buf |-> aio'[c]]
        /\ data' = [c \in Copy!Buf |-> data'[c]] /\ last' = [c \in Copy!Buf |-> last'[c]]
        /\ \A c \in Copy!Buf : InBuffer(c)'
    BY <1>9, <2>2, <2>4
  <2>6. [data[b] EXCEPT !.len = l] = Block(o, l, TRUE)
    <3>. DEFINE k == data[b].len   yes == TRUE
    <3>1. data[b] = Block(o, k, yes)
      BY <2>2, Zenon DEF IsPart
    <3>. HIDE DEF o, k, yes
    <3>2. [Block(o, k, yes) EXCEPT !.len = l] = Block(o, l, yes)
      BY PartOf
    <3>3. [data[b] EXCEPT !.len = l] = Block(o, l, yes)
      BY <3>1, <3>2
    <3>. QED  BY <3>3, Zenon DEF o, yes
  <2>7. /\ file' = [p \in Copy!Offsets |-> file'[p]] /\ file'[o] = Block(o, l, TRUE)
        /\ \A p \in Copy!Offsets \ {o} : file'[p] = file[p]
    <3>. DEFINE x == Block(o, l, TRUE)
    <3>1. file' = [file EXCEPT ![o] = x] /\ o \in Copy!Offsets
      BY <1>6, <2>1, <2>6, Zenon
    <3>2. file = [p \in Copy!Offsets |-> file[p]]
      BY DEF CopyInv
    <3>. HIDE DEF o, x
    <3>3. /\ file' = [p \in Copy!Offsets |-> file'[p]] /\ file'[o] = x
          /\ \A p \in Copy!Offsets \ {o} : file'[p] = file[p]
      BY <3>1, <3>2
    <3>. QED  BY <3>3, Zenon DEF x, o
  <2>8. file'[o].offset = o /\ file'[o].translated = TRUE /\ file'[o].len = l
    <3>. DEFINE yes == TRUE
    <3>1. file'[o] = Block(o, l, yes)
      BY <2>7, Zenon
    <3>. HIDE DEF o, yes
    <3>2. file'[o].offset = o /\ file'[o].translated = yes /\ file'[o].len = l
      BY <3>1, BlockFields
    <3>. QED  BY <3>2, Zenon DEF yes
  <2>9. l < Copy!Available(o) => <<"write", o>> \in partial' \/ (<<"read", o>> \in partial' /\ o + BSZ >= st_size)
    <3>1. l < aio[b].nbytes => <<"write", o>> \in partial'
      BY <2>1
    <3>2. data[b].len < Copy!Available(o) => <<"read", o>> \in partial' /\ o + BSZ >= st_size
      BY <2>2, <2>4 DEF IsPart, ReadShort, IsLast
    <3>. QED  BY <1>7, <2>2, <2>3, <3>1, <3>2
  <2>10. ASSUME NEW p \in Copy!Offsets, file'[p] # Copy!Nothing PROVE Right(p)'
    <3>1. Copy!Available(p)' = Copy!Available(p)
      BY <1>1 DEF Copy!Available
    <3>2. CASE p = o
      <4>. HIDE DEF o
      <4>. QED  BY <1>1, <1>7, <2>3, <2>8, <2>9, <3>1, <3>2 DEF Right
    <3>3. CASE p # o
      <4>1. file'[p] = file[p] /\ Right(p)
        BY <2>7, <2>10, <3>3 DEF CopyInv
      <4>. QED  BY <1>1, <2>4, <3>1, <4>1 DEF Right
    <3>. QED  BY <3>2, <3>3
  <2>11. Copy!Offsets' = Copy!Offsets
    BY <1>1, SameInput
  <2>12. /\ st_size' \in Nat /\ off' \in Nat /\ off' % BSZ = 0 /\ i' \in Copy!Buf /\ Copy!QuitsOnlyIfShort'
    BY <1>1, <1>8, <2>4 DEF CopyInv
  <2>. QED  BY <2>5, <2>7, <2>10, <2>11, <2>12 DEF CopyInv
<1>13. \/ Copy!CompleteRead(b) /\ aio' = [aio EXCEPT ![b].st = "idle"]
       \/ Copy!CompleteWrite(b) /\ aio' = [aio EXCEPT ![b].st = "idle"]
       \/ aio' = [aio EXCEPT ![b].st = "failed"] /\ UNCHANGED <<data, file, partial>>
  BY DEF Copy!Complete
<1>14. ASSUME aio' = [aio EXCEPT ![b].st = "idle"] PROVE st = "idle"
  <2>1. aio'[b] = [aio[b] EXCEPT !.st = "idle"]
    BY <1>14 DEF CopyInv
  <2>. QED  BY <1>2, <1>5, <2>1 DEF InBuffer
<1>. QED  BY <1>10, <1>11, <1>12, <1>13, <1>14

LEMMA CopyStep ==
    ASSUME NBUF \in Nat \ {0}, BSZ \in Nat \ {0}
    PROVE  CopyInv /\ [Copy!Next]_copyVars => CopyInv'
<1>. SUFFICES ASSUME CopyInv, [Copy!Next]_copyVars PROVE CopyInv'
  OBVIOUS
<1>1. ASSUME UNCHANGED <<st_size, op, aio, last, data, off, n, file, partial>>, i' \in Copy!Buf, Copy!QuitsOnlyIfShort'
      PROVE  CopyInv'
  <2>1. Forward
    BY <1>1 DEF Forward, CopyInv
  <2>2. \A b \in Copy!Buf : InBuffer(b)'
    BY <1>1, <2>1, BufferKept DEF CopyInv
  <2>. QED  BY <1>1, <2>1, <2>2, OutputKept DEF CopyInv
<1>2. (i + 1) % NBUF \in Copy!Buf /\ 0 \in Copy!Buf /\ i \in Copy!Buf
  BY DEF CopyInv, Copy!Buf
<1>3. CASE UNCHANGED copyVars
  <2>1. Copy!QuitsOnlyIfShort'
    BY <1>3, SameInput DEF CopyInv, Copy!QuitsOnlyIfShort, copyVars, Copy!Buf
  <2>. QED  BY <1>1, <1>2, <1>3, <2>1 DEF copyVars
<1>4. CASE Copy!InProgress
  BY <1>1, <1>2, <1>4 DEF Copy!InProgress, Copy!NextBuf, Copy!QuitsOnlyIfShort
<1>5. CASE Copy!Test
  BY <1>1, <1>2, <1>5 DEF Copy!Test, Copy!NextBuf, Copy!QuitsOnlyIfShort
<1>6. CASE Copy!Suspend
  BY <1>1, <1>2, <1>6 DEF Copy!Suspend, Copy!NextBuf, Copy!QuitsOnlyIfShort
<1>7. CASE Copy!OperationFailed
  <2>1. aio'[i].st = "failed"
    BY <1>7 DEF Copy!OperationFailed
  <2>2. Copy!QuitsOnlyIfShort'
    BY <1>2, <2>1 DEF Copy!QuitsOnlyIfShort
  <2>. QED  BY <1>1, <1>2, <1>7, <2>2 DEF Copy!OperationFailed
<1>. QED
  BY <1>3, <1>4, <1>5, <1>6, <1>7, StartReadKept, StartWriteKept, EndWriteKept, CompleteKept DEF Copy!Next, Copy!Main

LEMMA CopyPart == [Next]_all => [Copy!Next]_copyVars
<1>. SUFFICES ASSUME [Next]_all PROVE [Copy!Next]_copyVars  OBVIOUS
<1>1. CASE UNCHANGED all  BY <1>1 DEF all, copyVars
<1>2. CASE Next  BY <1>2 DEF Next, InCopy, InWait, InSignals, copyVars
<1>. QED  BY <1>1, <1>2

(* In whatever order the kernel completes the operations of ch14_async.c,  *)
(* and however little each transfers, what is in the output file is the    *)
(* translation of what was read at the same offset of the input; and it is *)
(* all of it but for a short write or a short read of the last block.  A   *)
(* file of whole blocks is given up only after a short read or a failure.  *)
(* All this for any number and size of buffers and any size of the file.   *)
THEOREM CopyRight ==
    ASSUME NBUF \in Nat \ {0}, BSZ \in Nat \ {0}, Sizes \subseteq Nat
    PROVE  Spec => []OutputRight
<1>1. Init => CopyInv  BY CopyStart DEF Init
<1>2. CopyInv /\ [Next]_all => CopyInv'  BY CopyStep, CopyPart
<1>3. CopyInv => OutputRight
  BY DEF CopyInv, Right, OutputRight, Copy!OutputRight
<1>. QED  BY <1>1, <1>2, <1>3, PTL DEF Spec

-----------------------------------------------------------------------------
(* Signal programs.  The invariant of the machine holds for all sixteen    *)
(* programs: what is on the stack, and that an instruction's arguments are *)
(* such that the machine can go on.  On top of it comes, for the callers   *)
(* of sleep() and system(), what was saved where at each instruction.      *)

(* The code of a program, instruction by instruction, where it is put      *)
(* together from sequences.                                                *)
LEMMA Wrapped ==
    ASSUME NEW S, NEW body \in Seq(S), NEW a, NEW c, NEW w, w = <<a>> \o body \o <<c>>
    PROVE  /\ Len(w) = Len(body) + 2 /\ w[1] = a /\ w[Len(body) + 2] = c
           /\ \A k \in 1 .. Len(body) : w[k + 1] = body[k]
<1>. DEFINE T == S \cup {a, c}  first == <<a>> \o body  m == Len(body)  one == <<a>>  end == <<c>>
<1>1. /\ one \in Seq(T) /\ end \in Seq(T) /\ Len(one) = 1 /\ Len(end) = 1 /\ one[1] = a /\ end[1] = c
      /\ m \in Nat /\ S \subseteq T
  BY LenProperties
<1>2. body \in Seq(T)
  BY <1>1, SeqMonotonic
<1>. HIDE DEF one, end, T
<1>3. /\ first \in Seq(T) /\ Len(first) = 1 + m
      /\ \A k \in 1 .. 1 + m : first[k] = IF k <= 1 THEN one[k] ELSE body[k - 1]
  BY <1>1, <1>2, ConcatProperties DEF one
<1>. HIDE DEF first
<1>4. /\ w \in Seq(T) /\ Len(w) = 1 + m + 1
      /\ \A k \in 1 .. 1 + m + 1 : w[k] = IF k <= 1 + m THEN first[k] ELSE end[k - (1 + m)]
  BY <1>1, <1>3, ConcatProperties DEF first, end
<1>5. w[1] = a
  BY <1>1, <1>3, <1>4
<1>6. w[m + 2] = c
  <2>1. m + 2 \in 1 .. 1 + m + 1 /\ ~(m + 2 <= 1 + m) /\ m + 2 - (1 + m) = 1
    BY <1>1
  <2>2. w[m + 2] = end[m + 2 - (1 + m)]
    BY <1>4, <2>1
  <2>. QED  BY <1>1, <2>1, <2>2
<1>7. \A k \in 1 .. m : w[k + 1] = body[k]
  <2>1. TAKE k \in 1 .. m
  <2>2. k + 1 \in 1 .. 1 + m /\ ~(k + 1 <= 1) /\ k + 1 - 1 = k
    BY <1>1
  <2>3. w[k + 1] = first[k + 1] /\ first[k + 1] = body[k + 1 - 1]
    BY <1>1, <1>3, <1>4, <2>2
  <2>. QED  BY <2>2, <2>3
<1>8. 1 + m + 1 = m + 2
  BY <1>1
<1>. QED  BY <1>4, <1>5, <1>6, <1>7, <1>8

LEMMA Led ==
    ASSUME NEW S, NEW body \in Seq(S), NEW a, NEW c, NEW w, w = <<a, c>> \o body
    PROVE  /\ Len(w) = Len(body) + 2 /\ w[1] = a /\ w[2] = c
           /\ \A k \in 1 .. Len(body) : w[k + 2] = body[k]
<1>. DEFINE T == S \cup {a, c}  m == Len(body)  two == <<a, c>>
<1>1. two \in Seq(T) /\ Len(two) = 2 /\ two[1] = a /\ two[2] = c /\ m \in Nat /\ S \subseteq T
  BY LenProperties
<1>2. body \in Seq(T)
  BY <1>1, SeqMonotonic
<1>. HIDE DEF two, T
<1>3. /\ w \in Seq(T) /\ Len(w) = 2 + m
      /\ \A k \in 1 .. 2 + m : w[k] = IF k <= 2 THEN two[k] ELSE body[k - 2]
  BY <1>1, <1>2, ConcatProperties DEF two
<1>4. w[1] = a /\ w[2] = c /\ 2 + m = m + 2
  BY <1>1, <1>3
<1>5. \A k \in 1 .. m : w[k + 2] = body[k]
  <2>1. TAKE k \in 1 .. m
  <2>2. k + 2 \in 1 .. 2 + m /\ ~(k + 2 <= 2) /\ k + 2 - 2 = k
    BY <1>1
  <2>3. w[k + 2] = body[k + 2 - 2]
    BY <1>1, <1>3, <2>2
  <2>. QED  BY <2>2, <2>3
<1>. QED  BY <1>3, <1>4, <1>5

LEMMA Seven ==
    ASSUME NEW b1, NEW b2, NEW b3, NEW b4, NEW b5, NEW b6, NEW b7, NEW b, b = <<b1, b2, b3, b4, b5, b6, b7>>
    PROVE  /\ b \in Seq({b1, b2, b3, b4, b5, b6, b7}) /\ Len(b) = 7
           /\ b[1] = b1 /\ b[2] = b2 /\ b[3] = b3 /\ b[4] = b4 /\ b[5] = b5 /\ b[6] = b6 /\ b[7] = b7
OBVIOUS

(* The instructions of sleep() and of system(), one by one.                *)
IsSleep(c) ==
    /\ Len(c) = 9
    /\ c[1] = <<"set", "before", [disp |-> disp, mask |-> mask]>>
    /\ c[2] = <<"sigaction", "ALRM", "empty", "oldact">>
    /\ c[3] = <<"mask", mask \cup {"ALRM"}, "oldmask">>
    /\ c[4] = <<"alarm", Seconds>>
    /\ c[5] = <<"suspend", var.oldmask \ {"ALRM"}>>
    /\ c[6] = <<"alarm", 0>>
    /\ c[7] = <<"sigaction", "ALRM", var.oldact, "ret">>
    /\ c[8] = <<"mask", var.oldmask, "oldmask">>
    /\ c[9] = <<"left">>

(* sleep() with what its caller notes before and after it.                 *)
LEMMA SleepCode == IsSleep(Sig!Code("sleep"))
<1>. DEFINE c == Sig!Code("sleep")  body == Sig!Sleep(Seconds)
            note == <<"set", "before", [disp |-> disp, mask |-> mask]>>  left == <<"left">>
            b1 == <<"sigaction", "ALRM", "empty", "oldact">>
            b2 == <<"mask", mask \cup {"ALRM"}, "oldmask">>
            b3 == <<"alarm", Seconds>>
            b4 == <<"suspend", var.oldmask \ {"ALRM"}>>
            b5 == <<"alarm", 0>>
            b6 == <<"sigaction", "ALRM", var.oldact, "ret">>
            b7 == <<"mask", var.oldmask, "oldmask">>
<1>1. c = <<note>> \o body \o <<left>>
  BY DEF Sig!Code, Sig!Call
<1>2. body = <<b1, b2, b3, b4, b5, b6, b7>>
  BY DEF Sig!Sleep
<1>. HIDE DEF body, note, left, c, b1, b2, b3, b4, b5, b6, b7
<1>3. /\ body \in Seq({b1, b2, b3, b4, b5, b6, b7}) /\ Len(body) = 7
      /\ body[1] = b1 /\ body[2] = b2 /\ body[3] = b3 /\ body[4] = b4 /\ body[5] = b5 /\ body[6] = b6 /\ body[7] = b7
  BY <1>2, Seven
<1>4. /\ Len(c) = Len(body) + 2 /\ c[1] = note /\ c[Len(body) + 2] = left
      /\ \A k \in 1 .. Len(body) : c[k + 1] = body[k]
  <2>. DEFINE S == {b1, b2, b3, b4, b5, b6, b7}
  <2>1. body \in Seq(S)
    BY <1>3
  <2>. HIDE DEF S
  <2>. QED  BY <1>1, <2>1, Wrapped
<1>5. Len(c) = 9 /\ c[1] = note /\ c[9] = left
      /\ c[2] = b1 /\ c[3] = b2 /\ c[4] = b3 /\ c[5] = b4 /\ c[6] = b5 /\ c[7] = b6 /\ c[8] = b7
  BY <1>3, <1>4
<1>. QED  BY <1>5 DEF IsSleep, c, note, left, b1, b2, b3, b4, b5, b6, b7

(* The fields of the records of the machine.                               *)
VarNames == {"oldact", "oldact2", "oldmask", "flag", "jumped", "ret", "pid", "unslept", "status", "reaped",
             "before", "jmp"}
FrameNames == {"fn", "ip", "wait", "old"}
ChildNames == {"status", "disp", "mask"}
Stacked(s) == \E S : s \in Seq(S)
Replaced(s, f) == [s EXCEPT ![Len(s)] = f]

(* The stack when its last frame is replaced, a frame is pushed and the    *)
(* last one popped.                                                        *)
LEMMA StackExcept ==
    ASSUME NEW s, Stacked(s), Len(s) >= 1, NEW f
    PROVE  LET t == Replaced(s, f)
           IN  Stacked(t) /\ Len(t) = Len(s) /\ t[Len(s)] = f /\ \A k \in 1 .. Len(s) - 1 : t[k] = s[k]
<1>. DEFINE t == Replaced(s, f)
<1>a. t = [s EXCEPT ![Len(s)] = f]
  BY DEF Replaced
<1>. HIDE DEF t
<1>0. PICK S : s \in Seq(S)
  BY DEF Stacked
<1>. DEFINE T == S \cup {f}  m == Len(s)
<1>1. s \in Seq(T) /\ m \in Nat /\ m \in 1 .. m /\ f \in T
  BY <1>0, SeqMonotonic, LenProperties
<1>. HIDE DEF T
<1>2. t \in Seq(T) /\ Len(t) = m /\ \A k \in 1 .. m : t[k] = IF k = m THEN f ELSE s[k]
  BY <1>1, <1>a, ExceptSeq
<1>3. \A k \in 1 .. m - 1 : k \in 1 .. m /\ k # m
  BY <1>1
<1>. HIDE DEF m
<1>4. t[m] = f /\ \A k \in 1 .. m - 1 : t[k] = s[k]
  BY <1>1, <1>2, <1>3
<1>. QED  BY <1>2, <1>4 DEF m, t, Stacked
Pushed(s, f) == s \o <<f>>

LEMMA StackPush ==
    ASSUME NEW s, Stacked(s), NEW f
    PROVE  LET t == Pushed(s, f)
           IN  Stacked(t) /\ Len(t) = Len(s) + 1 /\ t[Len(s) + 1] = f /\ \A k \in 1 .. Len(s) : t[k] = s[k]
<1>. DEFINE t == Pushed(s, f)
<1>a. t = s \o <<f>>
  BY DEF Pushed
<1>. HIDE DEF t
<1>0. PICK S : s \in Seq(S)
  BY DEF Stacked
<1>. DEFINE T == S \cup {f}  m == Len(s)  g == <<f>>
<1>1. s \in Seq(T) /\ m \in Nat /\ g \in Seq(T) /\ Len(g) = 1 /\ g[1] = f
  BY <1>0, SeqMonotonic, LenProperties
<1>. HIDE DEF T, g
<1>2. t \in Seq(T) /\ Len(t) = m + 1 /\ \A k \in 1 .. m + 1 : t[k] = IF k <= m THEN s[k] ELSE g[k - m]
  BY <1>1, <1>a, ConcatProperties DEF g
<1>3. t[m + 1] = f
  <2>1. m + 1 \in 1 .. m + 1 /\ ~(m + 1 <= m) /\ m + 1 - m = 1
    BY <1>1
  <2>2. t[m + 1] = g[m + 1 - m]
    BY <1>2, <2>1
  <2>. QED  BY <1>1, <2>1, <2>2
<1>4. \A k \in 1 .. m : t[k] = s[k]
  BY <1>1, <1>2
<1>. QED  BY <1>2, <1>3, <1>4 DEF t, Stacked
Popped(s) == SubSeq(s, 1, Len(s) - 1)

LEMMA StackPop ==
    ASSUME NEW s, Stacked(s), Len(s) > 1
    PROVE  LET t == Popped(s)
           IN  Stacked(t) /\ Len(t) = Len(s) - 1 /\ \A k \in 1 .. Len(s) - 1 : t[k] = s[k]
<1>. DEFINE t == Popped(s)
<1>0. PICK S : s \in Seq(S)
  BY DEF Stacked
<1>. DEFINE m == Len(s) - 1
<1>1. Len(s) \in Nat /\ m \in Int /\ 1 \in Int /\ m >= 1 /\ \A k \in 1 .. m : k \in 1 .. Len(s)
  BY <1>0, LenProperties
<1>2. \A k \in 1 .. m : s[k] \in S
  BY <1>0, <1>1, ElementOfSeq
<1>. HIDE DEF m
<1>3. /\ SubSeq(s, 1, m) \in Seq(S)
      /\ Len(SubSeq(s, 1, m)) = IF 1 <= m THEN m - 1 + 1 ELSE 0
      /\ \A k \in 1 .. m - 1 + 1 : SubSeq(s, 1, m)[k] = s[1 + k - 1]
  BY <1>0, <1>1, <1>2, SubSeqProperties
<1>4. t = SubSeq(s, 1, m)
  BY DEF m, Popped
<1>. HIDE DEF t
<1>5. Len(t) = m /\ \A k \in 1 .. m : t[k] = s[k]
  BY <1>1, <1>3, <1>4
<1>. QED  BY <1>3, <1>4, <1>5 DEF m, t, Stacked

(* What the arguments of an instruction may be.                            *)
Handlers == {"empty", "sig_int_busy", "sig_int_quit", "sig_alrm_jump", "sig_tstp", "sig_cld", "sig_quit", "sig_usr1"}
Acts == {"DFL", "IGN"} \cup Handlers
Callers == {"sleep", "system2", "system2_reaping"}
GoodInstr(fn, k, c) ==
    /\ c[1] = "sigaction" => c[2] \in Sig!Sig /\ c[3] \in Acts /\ c[4] \in {"oldact", "oldact2", "ret"}
    /\ c[1] = "mask" => c[3] = "oldmask"
    /\ c[1] = "set" => c[2] \in {"before", "oldact", "status", "flag"} /\ (c[2] = "oldact" => c[3] \in Acts)
    /\ c[1] = "waitpid" => c[2] \in {"status", "reaped"}
    /\ c[1] = "skip" => c[3] \in Int /\ k + c[3] >= 0
    /\ c[1] = "setjmp" \/ c[1] = "suspend" => fn \in Sig!Programs
    /\ c[1] = "kill" => c[2] \in Sig!Sig
    /\ c[1] = "left" => fn \in Callers
GoodCode(fn) == /\ Len(Sig!Code(fn)) \in Nat
                /\ \A k \in 1 .. Len(Sig!Code(fn)) : GoodInstr(fn, k, Sig!Code(fn)[k])
SavedActs == disp \in [Sig!Sig -> Acts] /\ var.oldact \in Acts /\ var.oldact2 \in Acts /\ var.ret \in Acts

(* Whatever the dispositions and the saved ones are, as long as they are   *)
(* known: each instruction of each program has arguments the machine has.  *)
LEMMA GoodHandlers == SavedActs => \A fn \in Handlers : GoodCode(fn)
<1>. SUFFICES ASSUME SavedActs PROVE \A fn \in Handlers : GoodCode(fn)
  OBVIOUS
<1>1. GoodCode("empty")
  BY DEF GoodCode, Sig!Code
<1>2. GoodCode("sig_int_busy")
  BY DEF GoodCode, GoodInstr, Sig!Code, Sig!SigIntBusy
<1>3. GoodCode("sig_int_quit")
  BY DEF GoodCode, GoodInstr, Sig!Code, Sig!SigIntQuit
<1>4. GoodCode("sig_alrm_jump")
  BY DEF GoodCode, GoodInstr, Sig!Code, Sig!SigAlrm
<1>5. GoodCode("sig_tstp")
  BY DEF GoodCode, GoodInstr, Sig!Code, Sig!SigTstp, Acts, Handlers, Sig!Sig
<1>6. GoodCode("sig_cld")
  BY DEF GoodCode, GoodInstr, Sig!Code, Sig!SigCld, Acts, Handlers, Sig!Sig
<1>7. GoodCode("sig_quit")
  BY DEF GoodCode, GoodInstr, Sig!Code, Sig!SigQuit, Acts, Handlers, Sig!Sig
<1>8. GoodCode("sig_usr1")
  BY DEF GoodCode, GoodInstr, Sig!Code, Sig!SigUsr1, Acts, Handlers, Sig!Sig
<1>. QED  BY <1>1, <1>2, <1>3, <1>4, <1>5, <1>6, <1>7, <1>8, Zenon DEF Handlers

LEMMA GoodLiterals ==
    ASSUME SavedActs
    PROVE  \A fn \in {"mysleep", "alarm", "abort", "jobctl", "sigchld", "sigsuspend", "global", "sigpending",
                      "sigjmp", "signal"} : GoodCode(fn)
<1>. USE DEF GoodCode, GoodInstr, Sig!Code
<1>. USE DEF Acts, Handlers, Sig!Sig, Sig!Programs, SavedActs
<1>1. GoodCode("mysleep")
  BY DEF Sig!MySleep, Sig!Sleep
<1>2. GoodCode("alarm")
  BY DEF Sig!MainAlarm
<1>3. GoodCode("abort")
  <2>. DEFINE c == Sig!Code("abort")   a == disp["ABRT"]   kept == var.oldact # "IGN"   m == Sig!Sig \ {"ABRT"}
  <2>1. /\ Len(c) = 8 /\ c[1] = <<"set", "oldact", a>> /\ c[2] = <<"skip", kept, 1>>
        /\ c[3] = <<"sigaction", "ABRT", "DFL", "ret">> /\ c[4] = <<"mask", m, "oldmask">> /\ c[5] = <<"kill", "ABRT">>
        /\ c[6] = <<"sigaction", "ABRT", "DFL", "ret">> /\ c[7] = <<"mask", m, "oldmask">> /\ c[8] = <<"kill", "ABRT">>
    BY DEF Sig!Abort
  <2>2. a \in Acts
    OBVIOUS
  <2>. HIDE DEF Sig!Code, a, kept, m, c
  <2>3. \A k \in 1 .. 4 : GoodInstr("abort", k, c[k])
    BY <2>1, <2>2
  <2>4. \A k \in 5 .. 8 : GoodInstr("abort", k, c[k])
    BY <2>1
  <2>5. Len(c) \in Nat /\ \A k \in 1 .. Len(c) : k \in 1 .. 4 \/ k \in 5 .. 8
    BY <2>1
  <2>. HIDE DEF GoodInstr
  <2>. QED  BY <2>3, <2>4, <2>5 DEF c
<1>4. GoodCode("jobctl")
  BY DEF Sig!MainJobctl
<1>5. GoodCode("sigchld")
  BY DEF Sig!MainSigchld
<1>6. GoodCode("sigsuspend")
  BY DEF Sig!MainSigsuspend
<1>7. GoodCode("global")
  BY DEF Sig!MainGlobal
<1>8. GoodCode("sigpending")
  <2>. DEFINE c == Sig!Code("sigpending")
              st == IF "QUIT" \in sig_pending THEN "pending" ELSE "not_pending"
              m == mask \cup {"QUIT"}
              o == var.oldmask
  <2>1. c = << <<"sigaction", "QUIT", "sig_quit", "ret">>, <<"mask", m, "oldmask">>, <<"doze">>,
               <<"set", "status", st>>, <<"mask", o, "oldmask">>, <<"doze">> >>
    BY DEF Sig!MainSigpending
  <2>. HIDE DEF Sig!Code, st, m, o, c
  <2>2. Len(c) \in Nat /\ \A k \in 1 .. Len(c) : GoodInstr("sigpending", k, c[k])
    BY <2>1
  <2>. QED  BY <2>2 DEF c
<1>9. GoodCode("sigjmp")
  BY DEF Sig!MainSigjmp
<1>10. GoodCode("signal")
  BY DEF Sig!MainSignal
<1>. HIDE DEF GoodCode, Sig!Programs
<1>. QED  BY <1>1, <1>2, <1>3, <1>4, <1>5, <1>6, <1>7, <1>8, <1>9, <1>10, Zenon

(* What the code of a program that calls another is. *)
LEMMA First ==
    ASSUME NEW S, NEW body \in Seq(S), NEW a, NEW w, w = <<a>> \o body
    PROVE  /\ Len(w) = Len(body) + 1 /\ w[1] = a
           /\ \A k \in 1 .. Len(body) : w[k + 1] = body[k]
<1>. DEFINE T == S \cup {a}  m == Len(body)  one == <<a>>
<1>1. one \in Seq(T) /\ Len(one) = 1 /\ one[1] = a /\ m \in Nat /\ S \subseteq T
  BY LenProperties
<1>2. body \in Seq(T)
  BY <1>1, SeqMonotonic
<1>. HIDE DEF one, T
<1>3. /\ w \in Seq(T) /\ Len(w) = 1 + m
      /\ \A k \in 1 .. 1 + m : w[k] = IF k <= 1 THEN one[k] ELSE body[k - 1]
  BY <1>1, <1>2, ConcatProperties DEF one
<1>4. w[1] = a /\ 1 + m = m + 1
  BY <1>1, <1>3
<1>5. \A k \in 1 .. m : w[k + 1] = body[k]
  <2>1. TAKE k \in 1 .. m
  <2>2. k + 1 \in 1 .. 1 + m /\ ~(k + 1 <= 1) /\ k + 1 - 1 = k
    BY <1>1
  <2>3. w[k + 1] = body[k + 1 - 1]
    BY <1>1, <1>3, <2>2
  <2>. QED  BY <2>2, <2>3
<1>. QED  BY <1>3, <1>4, <1>5

LEMMA PauseCode ==
    LET c == Sig!Code("pause")
    IN  /\ Len(c) = 7
        /\ c[1] = <<"sigaction", "INT", "sig_int_busy", "ret">>
        /\ c[2] = <<"sigaction", "ALRM", "sig_alrm_jump", "ret">>
        /\ c[3] = <<"setjmp", FALSE>>
        /\ c[4] = <<"skip", var.jumped, 2>>
        /\ c[5] = <<"alarm", Seconds>>
        /\ c[6] = <<"suspend", mask>>
        /\ c[7] = <<"alarm", 0>>
<1>. DEFINE c == Sig!Code("pause")  body == Sig!Sleep2(Seconds)
            a == <<"sigaction", "INT", "sig_int_busy", "ret">>
<1>1. c = <<a>> \o body
  BY DEF Sig!Code, Sig!MainPause
<1>2. /\ Len(body) = 6
      /\ body[1] = <<"sigaction", "ALRM", "sig_alrm_jump", "ret">>
      /\ body[2] = <<"setjmp", FALSE>>
      /\ body[3] = <<"skip", var.jumped, 2>>
      /\ body[4] = <<"alarm", Seconds>>
      /\ body[5] = <<"suspend", mask>>
      /\ body[6] = <<"alarm", 0>>
  BY DEF Sig!Sleep2
<1>3. PICK S : body \in Seq(S)
  <2>. DEFINE b1 == <<"sigaction", "ALRM", "sig_alrm_jump", "ret">>
              b2 == <<"setjmp", FALSE>>
              b3 == <<"skip", var.jumped, 2>>
              b4 == <<"alarm", Seconds>>
              b5 == <<"suspend", mask>>
              b6 == <<"alarm", 0>>
  <2>1. body = <<b1, b2, b3, b4, b5, b6>>
    BY DEF Sig!Sleep2
  <2>. HIDE DEF b1, b2, b3, b4, b5, b6, body
  <2>2. body \in Seq({b1, b2, b3, b4, b5, b6})
    BY <2>1
  <2>. QED  BY <2>2
<1>. HIDE DEF c, body, a
<1>4. Len(c) = 7 /\ c[1] = a /\ \A k \in 1 .. 6 : c[k + 1] = body[k]
  <2>1. Len(c) = Len(body) + 1 /\ c[1] = a /\ \A k \in 1 .. Len(body) : c[k + 1] = body[k]
    BY <1>1, <1>3, First
  <2>. QED  BY <1>2, <2>1
<1>5. c[2] = body[1] /\ c[3] = body[2] /\ c[4] = body[3] /\ c[5] = body[4] /\ c[6] = body[5] /\ c[7] = body[6]
  BY <1>4
<1>. QED  BY <1>2, <1>4, <1>5 DEF c, a
IsSystem2(c, h) ==
    /\ Len(c) = 13
    /\ c[1] = <<"sigaction", "INT", "empty", "ret">>
    /\ c[2] = <<"sigaction", "CHLD", h, "ret">>
    /\ c[3] = <<"set", "before", [disp |-> disp, mask |-> mask]>>
    /\ c[4] = <<"sigaction", "INT", "IGN", "oldact">>
    /\ c[5] = <<"sigaction", "QUIT", "IGN", "oldact2">>
    /\ c[6] = <<"mask", mask \cup {"CHLD"}, "oldmask">>
    /\ c[7] = <<"fork", [disp EXCEPT !["INT"] = var.oldact, !["QUIT"] = var.oldact2], var.oldmask>>
    /\ c[8] = <<"skip", var.pid = -1, 1>>
    /\ c[9] = <<"waitpid", "status">>
    /\ c[10] = <<"sigaction", "INT", var.oldact, "ret">>
    /\ c[11] = <<"sigaction", "QUIT", var.oldact2, "ret">>
    /\ c[12] = <<"mask", var.oldmask, "oldmask">>
    /\ c[13] = <<"left">>

LEMMA System2Code ==
    ASSUME NEW h, NEW c, c = Sig!MainSystem(Sig!Call(Sig!System2), h)
    PROVE  IsSystem2(c, h)
<1>. DEFINE a1 == <<"sigaction", "INT", "empty", "ret">>  a2 == <<"sigaction", "CHLD", h, "ret">>
            note == <<"set", "before", [disp |-> disp, mask |-> mask]>>  left == <<"left">>
            body == Sig!System2  w == Sig!Call(body)
            b1 == <<"sigaction", "INT", "IGN", "oldact">>
            b2 == <<"sigaction", "QUIT", "IGN", "oldact2">>
            b3 == <<"mask", mask \cup {"CHLD"}, "oldmask">>
            b4 == <<"fork", [disp EXCEPT !["INT"] = var.oldact, !["QUIT"] = var.oldact2], var.oldmask>>
            b5 == <<"skip", var.pid = -1, 1>>
            b6 == <<"waitpid", "status">>
            b7 == <<"sigaction", "INT", var.oldact, "ret">>
            b8 == <<"sigaction", "QUIT", var.oldact2, "ret">>
            b9 == <<"mask", var.oldmask, "oldmask">>
<1>1. c = <<a1, a2>> \o w /\ w = <<note>> \o body \o <<left>>
  BY DEF Sig!MainSystem, Sig!Call
<1>2. body = <<b1, b2, b3, b4, b5, b6, b7, b8, b9>>
  BY DEF Sig!System2
<1>. HIDE DEF a1, a2, note, left, w, body, b1, b2, b3, b4, b5, b6, b7, b8, b9
<1>. DEFINE S == {b1, b2, b3, b4, b5, b6, b7, b8, b9}
<1>3. /\ body \in Seq(S) /\ Len(body) = 9
      /\ body[1] = b1 /\ body[2] = b2 /\ body[3] = b3 /\ body[4] = b4 /\ body[5] = b5 /\ body[6] = b6
      /\ body[7] = b7 /\ body[8] = b8 /\ body[9] = b9
  BY <1>2
<1>. HIDE DEF S
<1>4. /\ Len(w) = Len(body) + 2 /\ w[1] = note /\ w[Len(body) + 2] = left
      /\ \A k \in 1 .. Len(body) : w[k + 1] = body[k]
  <2>1. body \in Seq(S) /\ w = <<note>> \o body \o <<left>>
    BY <1>1, <1>3
  <2>. QED  BY <2>1, Wrapped
<1>5. Len(w) = 11 /\ w[1] = note /\ w[11] = left
      /\ w[2] = b1 /\ w[3] = b2 /\ w[4] = b3 /\ w[5] = b4 /\ w[6] = b5 /\ w[7] = b6 /\ w[8] = b7 /\ w[9] = b8
      /\ w[10] = b9
  BY <1>3, <1>4
<1>6. PICK T : w \in Seq(T)
  <2>. DEFINE T == S \cup {note, left}
  <2>1. body \in Seq(T) /\ note \in T /\ left \in T
    BY <1>3, SeqMonotonic
  <2>. HIDE DEF T
  <2>2. w \in Seq(T)
    BY <1>1, <2>1
  <2>. QED  BY <2>2
<1>7. /\ Len(c) = Len(w) + 2 /\ c[1] = a1 /\ c[2] = a2
      /\ \A k \in 1 .. Len(w) : c[k + 2] = w[k]
  BY <1>1, <1>6, Led
<1>8. Len(c) = 13 /\ c[3] = w[1] /\ c[13] = w[11]
      /\ c[4] = w[2] /\ c[5] = w[3] /\ c[6] = w[4] /\ c[7] = w[5] /\ c[8] = w[6] /\ c[9] = w[7] /\ c[10] = w[8]
      /\ c[11] = w[9] /\ c[12] = w[10]
  BY <1>5, <1>7
<1>. QED  BY <1>5, <1>7, <1>8 DEF IsSystem2, a1, a2, note, left, b1, b2, b3, b4, b5, b6, b7, b8, b9
IsPlain(c, h) ==
    /\ Len(c) = 5
    /\ c[1] = <<"sigaction", "INT", "empty", "ret">>
    /\ c[2] = <<"sigaction", "CHLD", h, "ret">>
    /\ c[3] = <<"fork", disp, mask>>
    /\ c[4] = <<"skip", var.pid = -1, 1>>
    /\ c[5] = <<"waitpid", "status">>

LEMMA PlainCode ==
    ASSUME NEW h, NEW c, c = Sig!MainSystem(Sig!PlainSystem, h)
    PROVE  IsPlain(c, h)
<1>. DEFINE a1 == <<"sigaction", "INT", "empty", "ret">>  a2 == <<"sigaction", "CHLD", h, "ret">>
            b1 == <<"fork", disp, mask>>  b2 == <<"skip", var.pid = -1, 1>>  b3 == <<"waitpid", "status">>
            w == Sig!PlainSystem
<1>1. c = <<a1, a2>> \o w /\ w = <<b1, b2, b3>>
  BY DEF Sig!MainSystem, Sig!PlainSystem
<1>. HIDE DEF a1, a2, b1, b2, b3, w
<1>. DEFINE S == {b1, b2, b3}
<1>2. w \in Seq(S) /\ Len(w) = 3 /\ w[1] = b1 /\ w[2] = b2 /\ w[3] = b3
  BY <1>1
<1>. HIDE DEF S
<1>3. /\ Len(c) = Len(w) + 2 /\ c[1] = a1 /\ c[2] = a2
      /\ \A k \in 1 .. Len(w) : c[k + 2] = w[k]
  BY <1>1, <1>2, Led
<1>4. Len(c) = 5 /\ c[3] = b1 /\ c[4] = b2 /\ c[5] = b3
  BY <1>2, <1>3
<1>. QED  BY <1>3, <1>4 DEF IsPlain, a1, a2, b1, b2, b3

LEMMA GoodPrograms == SavedActs => \A fn \in Sig!Programs : GoodCode(fn)
<1>. SUFFICES ASSUME SavedActs PROVE \A fn \in Sig!Programs : GoodCode(fn)
  OBVIOUS
<1>1. GoodCode("sleep")
  <2>. DEFINE c == Sig!Code("sleep")
  <2>. HIDE DEF c
  <2>1. Len(c) = 9 /\ \A k \in 1 .. 4 : GoodInstr("sleep", k, c[k])
    BY SleepCode DEF IsSleep, GoodInstr, c, Acts, Handlers, Sig!Sig, SavedActs
  <2>2. \A k \in 5 .. 9 : GoodInstr("sleep", k, c[k])
    BY SleepCode DEF IsSleep, GoodInstr, c, Acts, Handlers, Sig!Sig, Sig!Programs, SavedActs, Callers
  <2>3. \A k \in 1 .. 9 : k \in 1 .. 4 \/ k \in 5 .. 9
    OBVIOUS
  <2>. QED  BY <2>1, <2>2, <2>3 DEF c, GoodCode
<1>2. GoodCode("pause")
  <2>. DEFINE c == Sig!Code("pause")
  <2>. HIDE DEF c
  <2>1. Len(c) = 7 /\ \A k \in 1 .. 7 : GoodInstr("pause", k, c[k])
    BY PauseCode DEF GoodInstr, c, Acts, Handlers, Sig!Sig, Sig!Programs, SavedActs, Callers
  <2>. QED  BY <2>1 DEF c, GoodCode
<1>3. ASSUME NEW fn \in {"system2", "system2_reaping"} PROVE GoodCode(fn)
  <2>. DEFINE c == Sig!Code(fn)  h == IF fn = "system2" THEN "empty" ELSE "sig_cld"
  <2>1. c = Sig!MainSystem(Sig!Call(Sig!System2), h) /\ h \in Acts
    BY DEF Sig!Code, Acts, Handlers
  <2>. HIDE DEF c, h
  <2>2. IsSystem2(c, h)
    BY <2>1, System2Code, Zenon
  <2>3. GoodInstr(fn, 1, c[1])
    BY <2>1, <2>2 DEF GoodInstr, IsSystem2, Acts, Handlers, Sig!Sig, Sig!Programs, SavedActs, Callers
  <2>4. GoodInstr(fn, 2, c[2])
    BY <2>1, <2>2 DEF GoodInstr, IsSystem2, Acts, Handlers, Sig!Sig, Sig!Programs, SavedActs, Callers
  <2>5. GoodInstr(fn, 3, c[3])
    BY <2>1, <2>2 DEF GoodInstr, IsSystem2, Acts, Handlers, Sig!Sig, Sig!Programs, SavedActs, Callers
  <2>6. GoodInstr(fn, 4, c[4])
    BY <2>1, <2>2 DEF GoodInstr, IsSystem2, Acts, Handlers, Sig!Sig, Sig!Programs, SavedActs, Callers
  <2>7. GoodInstr(fn, 5, c[5])
    BY <2>1, <2>2 DEF GoodInstr, IsSystem2, Acts, Handlers, Sig!Sig, Sig!Programs, SavedActs, Callers
  <2>8. GoodInstr(fn, 6, c[6])
    BY <2>1, <2>2 DEF GoodInstr, IsSystem2, Acts, Handlers, Sig!Sig, Sig!Programs, SavedActs, Callers
  <2>9. GoodInstr(fn, 7, c[7])
    BY <2>1, <2>2 DEF GoodInstr, IsSystem2, Acts, Handlers, Sig!Sig, Sig!Programs, SavedActs, Callers
  <2>10. GoodInstr(fn, 8, c[8])
    BY <2>1, <2>2 DEF GoodInstr, IsSystem2, Acts, Handlers, Sig!Sig, Sig!Programs, SavedActs, Callers
  <2>11. GoodInstr(fn, 9, c[9])
    BY <2>1, <2>2 DEF GoodInstr, IsSystem2, Acts, Handlers, Sig!Sig, Sig!Programs, SavedActs, Callers
  <2>12. GoodInstr(fn, 10, c[10])
    BY <2>1, <2>2 DEF GoodInstr, IsSystem2, Acts, Handlers, Sig!Sig, Sig!Programs, SavedActs, Callers
  <2>13. GoodInstr(fn, 11, c[11])
    BY <2>1, <2>2 DEF GoodInstr, IsSystem2, Acts, Handlers, Sig!Sig, Sig!Programs, SavedActs, Callers
  <2>14. GoodInstr(fn, 12, c[12])
    BY <2>1, <2>2 DEF GoodInstr, IsSystem2, Acts, Handlers, Sig!Sig, Sig!Programs, SavedActs, Callers
  <2>15. GoodInstr(fn, 13, c[13])
    BY <2>1, <2>2 DEF GoodInstr, IsSystem2, Acts, Handlers, Sig!Sig, Sig!Programs, SavedActs, Callers
  <2>20. ASSUME NEW k \in 1 .. 13 PROVE GoodInstr(fn, k, c[k])
    <3>1. \/ k = 1 \/ k = 2 \/ k = 3 \/ k = 4 \/ k = 5 \/ k = 6 \/ k = 7
          \/ k = 8 \/ k = 9 \/ k = 10 \/ k = 11 \/ k = 12 \/ k = 13
      OBVIOUS
    <3>. QED  BY <3>1, <2>3, <2>4, <2>5, <2>6, <2>7, <2>8, <2>9, <2>10, <2>11, <2>12, <2>13, <2>14, <2>15, Zenon
  <2>21. Len(c) = 13
    BY <2>2 DEF IsSystem2
  <2>22. Len(c) \in Nat
    BY <2>21
  <2>23. \A k \in 1 .. Len(c) : GoodInstr(fn, k, c[k])
    BY <2>20, <2>21, Zenon
  <2>. QED  BY <2>22, <2>23, Zenon DEF c, GoodCode
<1>4. ASSUME NEW fn \in {"system", "system_reaping"} PROVE GoodCode(fn)
  <2>. DEFINE c == Sig!Code(fn)  h == IF fn = "system" THEN "empty" ELSE "sig_cld"
  <2>1. c = Sig!MainSystem(Sig!PlainSystem, h) /\ h \in Acts
    BY DEF Sig!Code, Acts, Handlers
  <2>. HIDE DEF c, h
  <2>2. IsPlain(c, h)
    BY <2>1, PlainCode, Zenon
  <2>3. GoodInstr(fn, 1, c[1])
    BY <2>1, <2>2 DEF GoodInstr, IsPlain, Acts, Handlers, Sig!Sig, Sig!Programs, SavedActs, Callers
  <2>4. GoodInstr(fn, 2, c[2])
    BY <2>1, <2>2 DEF GoodInstr, IsPlain, Acts, Handlers, Sig!Sig, Sig!Programs, SavedActs, Callers
  <2>5. GoodInstr(fn, 3, c[3])
    BY <2>1, <2>2 DEF GoodInstr, IsPlain, Acts, Handlers, Sig!Sig, Sig!Programs, SavedActs, Callers
  <2>6. GoodInstr(fn, 4, c[4])
    BY <2>1, <2>2 DEF GoodInstr, IsPlain, Acts, Handlers, Sig!Sig, Sig!Programs, SavedActs, Callers
  <2>7. GoodInstr(fn, 5, c[5])
    BY <2>1, <2>2 DEF GoodInstr, IsPlain, Acts, Handlers, Sig!Sig, Sig!Programs, SavedActs, Callers
  <2>20. ASSUME NEW k \in 1 .. 5 PROVE GoodInstr(fn, k, c[k])
    <3>1. k = 1 \/ k = 2 \/ k = 3 \/ k = 4 \/ k = 5
      OBVIOUS
    <3>. QED  BY <3>1, <2>3, <2>4, <2>5, <2>6, <2>7, Zenon
  <2>21. Len(c) = 5
    BY <2>2 DEF IsPlain
  <2>22. Len(c) \in Nat
    BY <2>21
  <2>23. \A k \in 1 .. Len(c) : GoodInstr(fn, k, c[k])
    BY <2>20, <2>21, Zenon
  <2>. QED  BY <2>22, <2>23, Zenon DEF c, GoodCode
<1>. QED  BY <1>1, <1>2, <1>3, <1>4, GoodLiterals, Zenon DEF Sig!Programs

(* The invariant of the machine: one frame for main() and one for each     *)
(* handler, of which only main() can wait; setjmp() was called in main().  *)
FrameOk(f) == DOMAIN f = FrameNames /\ f.ip \in Nat \ {0}
StackInv ==
    /\ Stacked(stack) /\ Len(stack) >= 1
    /\ stack[1].fn = who /\ who \in Sig!Programs
    /\ \A k \in 1 .. Len(stack) : FrameOk(stack[k]) /\ (stack[k].wait => Len(stack) = 1)
    /\ \A k \in 2 .. Len(stack) : stack[k].fn \in Handlers
JumpInv == var.jmp.set => var.jmp.depth = 1 /\ var.jmp.ip \in Nat \ {0}
DataInv ==
    /\ DOMAIN var = VarNames /\ SavedActs /\ JumpInv
    /\ DOMAIN child = ChildNames /\ sig_pending \subseteq Sig!Sig
Machine == StackInv /\ DataInv

(* The stack has at least one frame.                                       *)
LEMMA StackLength ==
    ASSUME StackInv
    PROVE  /\ Len(stack) \in Nat /\ Len(stack) \in 1 .. Len(stack)
           /\ Len(stack) = 1 \/ Len(stack) \in 2 .. Len(stack)
<1>1. PICK S : stack \in Seq(S)
  BY DEF StackInv, Stacked
<1>. DEFINE m == Len(stack)
<1>2. m \in Nat /\ m >= 1
  BY <1>1, LenProperties DEF StackInv
<1>. HIDE DEF m
<1>3. m \in Nat /\ (m = 1 \/ m \in 2 .. m) /\ m \in 1 .. m
  BY <1>2
<1>. QED  BY <1>3 DEF m

(* A frame of the running function takes the place of the last one.        *)
LEMMA HereKept ==
    ASSUME StackInv, who' = who, NEW f, stack' = Sig!Here(f), FrameOk(f), f.fn = Sig!Top.fn, f.wait => Len(stack) = 1
    PROVE  /\ StackInv' /\ Len(stack') = Len(stack) /\ stack'[Len(stack)] = f
           /\ \A k \in 1 .. Len(stack) - 1 : stack'[k] = stack[k]
<1>. DEFINE m == Len(stack)
<1>1. PICK S : stack \in Seq(S)
  BY DEF StackInv, Stacked
<1>2. m \in Nat /\ m >= 1 /\ m \in 1 .. m /\ (m = 1 \/ m \in 2 .. m)
  BY StackLength DEF StackInv
<1>3. Stacked(stack') /\ Len(stack') = m /\ stack'[m] = f /\ \A k \in 1 .. m - 1 : stack'[k] = stack[k]
  <2>1. stack' = Replaced(stack, f)
    BY Zenon DEF Sig!Here, Replaced
  <2>2. Len(stack) >= 1
    BY <1>2
  <2>3. Stacked(stack)
    BY DEF StackInv
  <2>. QED  BY <2>1, <2>2, <2>3, StackExcept
<1>4. Sig!Top = stack[m]
  BY DEF Sig!Top
<1>. HIDE DEF m
<1>5. \A k \in 1 .. m : k = m \/ k \in 1 .. m - 1
  BY <1>2
<1>6. stack'[1].fn = who'
  <2>1. CASE m = 1
    BY <1>3, <1>4, <2>1 DEF StackInv
  <2>2. CASE m \in 2 .. m
    <3>1. 1 \in 1 .. m - 1
      BY <1>2, <2>2
    <3>. QED  BY <1>3, <3>1 DEF StackInv
  <2>. QED  BY <1>2, <2>1, <2>2
<1>7. \A k \in 1 .. m : FrameOk(stack'[k]) /\ (stack'[k].wait => m = 1)
  <2>1. \A k \in 1 .. m : FrameOk(stack[k]) /\ (stack[k].wait => m = 1)
    BY DEF StackInv, m
  <2>2. \A k \in 1 .. m - 1 : k \in 1 .. m
    BY <1>2
  <2>3. f.wait => m = 1
    BY DEF m
  <2>. QED  BY <1>3, <1>5, <2>1, <2>2, <2>3
<1>8. \A k \in 2 .. m : stack'[k].fn \in Handlers
  <2>1. \A k \in 2 .. m : stack[k].fn \in Handlers
    BY DEF StackInv, m
  <2>2. \A k \in 2 .. m : k \in 1 .. m
    BY <1>2
  <2>. QED  BY <1>3, <1>4, <1>5, <2>1, <2>2
<1>9. who' \in Sig!Programs
  BY DEF StackInv
<1>. QED  BY <1>2, <1>3, <1>6, <1>7, <1>8, <1>9 DEF StackInv, m

LEMMA GotoKept ==
    ASSUME StackInv, who' = who, ~Sig!Top.wait, NEW ip \in Nat \ {0}, Sig!Goto(ip)
    PROVE  /\ StackInv' /\ Len(stack') = Len(stack) /\ Sig!Top'.ip = ip /\ ~Sig!Top'.wait
           /\ Sig!Top'.fn = Sig!Top.fn /\ Sig!Top'.old = Sig!Top.old
           /\ \A k \in 1 .. Len(stack) - 1 : stack'[k] = stack[k]
<1>. DEFINE f == [Sig!Top EXCEPT !.ip = ip]
<1>1. FrameOk(Sig!Top)
  BY StackLength DEF StackInv, Sig!Top
<1>2. DOMAIN f = FrameNames /\ f.ip = ip /\ f.fn = Sig!Top.fn /\ f.old = Sig!Top.old /\ f.wait = Sig!Top.wait
  BY <1>1 DEF FrameOk, FrameNames
<1>3. stack' = Sig!Here(f)
  BY Zenon DEF Sig!Goto
<1>. HIDE DEF f
<1>4. FrameOk(f) /\ ~f.wait
  BY <1>2 DEF FrameOk
<1>5. /\ StackInv' /\ Len(stack') = Len(stack) /\ stack'[Len(stack)] = f
      /\ \A k \in 1 .. Len(stack) - 1 : stack'[k] = stack[k]
  BY <1>2, <1>3, <1>4, HereKept, Zenon
<1>6. Sig!Top' = f
  BY <1>5 DEF Sig!Top
<1>. QED  BY <1>2, <1>4, <1>5, <1>6

(* The end of a handler. *)
LEMMA FramePopped ==
    ASSUME StackInv, who' = who, Len(stack) > 1, stack' = SubSeq(stack, 1, Len(stack) - 1)
    PROVE  /\ StackInv' /\ Len(stack') = Len(stack) - 1
           /\ \A k \in 1 .. Len(stack) - 1 : stack'[k] = stack[k]
<1>. DEFINE m == Len(stack)
<1>1. m \in Nat /\ m > 1
  BY StackLength
<1>2. Stacked(stack') /\ Len(stack') = m - 1 /\ \A k \in 1 .. m - 1 : stack'[k] = stack[k]
  <2>1. stack' = Popped(stack) /\ Stacked(stack)
    BY DEF Popped, StackInv
  <2>. QED  BY <1>1, <2>1, StackPop
<1>3. \A k \in 1 .. m : FrameOk(stack[k]) /\ ~stack[k].wait
  BY <1>1 DEF StackInv
<1>4. \A k \in 2 .. m : stack[k].fn \in Handlers
  BY DEF StackInv
<1>. HIDE DEF m
<1>5. /\ m - 1 >= 1 /\ 1 \in 1 .. m - 1
      /\ \A k \in 1 .. m - 1 : k \in 1 .. m
      /\ \A k \in 2 .. m - 1 : k \in 2 .. m /\ k \in 1 .. m - 1
  BY <1>1
<1>6. stack'[1].fn = who' /\ who' \in Sig!Programs
  BY <1>2, <1>5 DEF StackInv
<1>7. \A k \in 1 .. m - 1 : FrameOk(stack'[k]) /\ ~stack'[k].wait
  BY <1>2, <1>3, <1>5
<1>8. \A k \in 2 .. m - 1 : stack'[k].fn \in Handlers
  BY <1>2, <1>4, <1>5
<1>. QED  BY <1>2, <1>5, <1>6, <1>7, <1>8 DEF StackInv, m

(* The start of a handler. *)
Interrupted(f) == [f EXCEPT !.wait = FALSE, !.ip = IF f.wait THEN @ + 1 ELSE @]

LEMMA PushKept ==
    ASSUME StackInv, who' = who, NEW h \in Handlers, NEW old,
           stack' = Pushed(Replaced(stack, Interrupted(Sig!Top)), Sig!Frame(h, old))
    PROVE  /\ StackInv' /\ Len(stack') = Len(stack) + 1
           /\ stack'[Len(stack) + 1] = Sig!Frame(h, old)
           /\ stack'[Len(stack)].ip = (IF Sig!Top.wait THEN Sig!Top.ip + 1 ELSE Sig!Top.ip)
           /\ stack'[Len(stack)].old = Sig!Top.old /\ stack'[Len(stack)].fn = Sig!Top.fn
           /\ \A k \in 1 .. Len(stack) - 1 : stack'[k] = stack[k]
<1>. DEFINE m == Len(stack)  f == Interrupted(Sig!Top)  g == Sig!Frame(h, old)  below == Replaced(stack, f)
<1>1. m \in Nat /\ m >= 1 /\ m \in 1 .. m /\ (m = 1 \/ m \in 2 .. m)
  BY StackLength DEF StackInv
<1>2. FrameOk(Sig!Top) /\ Sig!Top = stack[m]
  BY <1>1 DEF StackInv, Sig!Top
<1>3. /\ DOMAIN f = FrameNames /\ f.fn = Sig!Top.fn /\ f.old = Sig!Top.old /\ ~f.wait
      /\ f.ip = IF Sig!Top.wait THEN Sig!Top.ip + 1 ELSE Sig!Top.ip
  BY <1>2 DEF FrameOk, FrameNames, Interrupted
<1>4. FrameOk(f)
  <2>1. f.ip = Sig!Top.ip + 1 \/ f.ip = Sig!Top.ip
    BY <1>3
  <2>. QED  BY <1>2, <1>3, <2>1 DEF FrameOk
<1>5. FrameOk(g) /\ ~g.wait /\ g.fn = h
  BY DEF FrameOk, FrameNames, Sig!Frame
<1>. HIDE DEF f, g
<1>6. Stacked(below) /\ Len(below) = m /\ below[m] = f /\ \A k \in 1 .. m - 1 : below[k] = stack[k]
  BY <1>1, StackExcept DEF StackInv
<1>7. stack' = Pushed(below, g)
  BY DEF f, g
<1>. HIDE DEF below
<1>8. Stacked(stack') /\ Len(stack') = m + 1 /\ stack'[m + 1] = g /\ \A k \in 1 .. m : stack'[k] = below[k]
  <2>1. Stacked(stack') /\ Len(stack') = Len(below) + 1 /\ stack'[Len(below) + 1] = g
        /\ \A k \in 1 .. Len(below) : stack'[k] = below[k]
    BY <1>6, <1>7, StackPush
  <2>. QED  BY <1>6, <2>1
<1>9. \A k \in 1 .. m : FrameOk(stack[k])
  BY DEF StackInv
<1>10. \A k \in 1 .. m - 1 : ~stack[k].wait
  <2>. HIDE DEF m
  <2>1. \A k \in 1 .. m - 1 : k \in 1 .. m /\ m # 1
    BY <1>1
  <2>. QED  BY <2>1 DEF StackInv, m
<1>11. \A k \in 2 .. m : stack[k].fn \in Handlers
  BY DEF StackInv
<1>12. stack[1].fn = who /\ who \in Sig!Programs
  BY DEF StackInv
<1>. HIDE DEF m
<1>13. /\ m + 1 \in Nat /\ m + 1 >= 1 /\ 1 \in 1 .. m
       /\ \A k \in 1 .. m + 1 : k = m + 1 \/ k = m \/ k \in 1 .. m - 1
       /\ \A k \in 2 .. m + 1 : k = m + 1 \/ (k = m /\ m \in 2 .. m) \/ (k \in 1 .. m - 1 /\ k \in 2 .. m)
       /\ \A k \in 1 .. m - 1 : k \in 1 .. m
  BY <1>1
<1>14. \A k \in 1 .. m - 1 : stack'[k] = stack[k]
  BY <1>6, <1>8, <1>13
<1>15. stack'[m] = f
  BY <1>1, <1>6, <1>8
<1>16. \A k \in 1 .. m + 1 : FrameOk(stack'[k]) /\ ~stack'[k].wait
  BY <1>3, <1>4, <1>5, <1>8, <1>9, <1>10, <1>13, <1>14, <1>15
<1>17. \A k \in 2 .. m + 1 : stack'[k].fn \in Handlers
  BY <1>2, <1>3, <1>5, <1>8, <1>11, <1>13, <1>14, <1>15
<1>18. stack'[1].fn = who'
  <2>1. m = 1 \/ 1 \in 1 .. m - 1
    BY <1>1
  <2>. QED  BY <1>2, <1>3, <1>12, <1>14, <1>15, <2>1
<1>19. StackInv'
  BY <1>8, <1>12, <1>13, <1>16, <1>17, <1>18 DEF StackInv
<1>. QED  BY <1>3, <1>8, <1>14, <1>15, <1>19 DEF m, g

(* longjmp() to main(). *)
LEMMA JumpKept ==
    ASSUME StackInv, who' = who, NEW ip \in Nat \ {0},
           stack' = [SubSeq(stack, 1, 1) EXCEPT ![1].ip = ip, ![1].wait = FALSE]
    PROVE  StackInv' /\ Len(stack') = 1 /\ stack'[1].ip = ip /\ ~stack'[1].wait
<1>1. PICK S : stack \in Seq(S)
  BY DEF StackInv, Stacked
<1>2. Len(stack) \in Nat /\ Len(stack) >= 1 /\ 1 \in 1 .. Len(stack)
  BY StackLength DEF StackInv
<1>. DEFINE t == SubSeq(stack, 1, 1)
            f == [stack[1] EXCEPT !.ip = ip, !.wait = FALSE]
<1>3. t = <<stack[1]>>
  <2>1. stack[1] \in S
    BY <1>1, <1>2, ElementOfSeq
  <2>2. \A k \in 1 .. 1 : stack[k] \in S
    BY <2>1
  <2>3. t \in Seq(S) /\ Len(t) = 1 /\ t[1] = stack[1]
    BY <2>2, SubSeqProperties
  <2>. HIDE DEF t
  <2>. QED  BY <2>3
<1>4. stack' = <<f>>
  <2>. DEFINE a == stack[1]
  <2>1. [<<a>> EXCEPT ![1].ip = ip, ![1].wait = FALSE] = <<[a EXCEPT !.ip = ip, !.wait = FALSE]>>
    <3>. HIDE DEF a
    <3>. QED  OBVIOUS
  <2>. QED  BY <1>3, <2>1
<1>5. FrameOk(stack[1]) /\ stack[1].fn = who /\ who \in Sig!Programs
  BY <1>2 DEF StackInv
<1>6. FrameOk(f) /\ f.fn = who /\ ~f.wait /\ f.ip = ip
  BY <1>5 DEF FrameOk, FrameNames
<1>. HIDE DEF f
<1>7. Stacked(stack') /\ Len(stack') = 1 /\ stack'[1] = f
  <2>1. <<f>> \in Seq({f}) /\ Len(<<f>>) = 1 /\ <<f>>[1] = f
    OBVIOUS
  <2>2. stack' \in Seq({f}) /\ Len(stack') = 1 /\ stack'[1] = f
    BY <1>4, <2>1, Zenon
  <2>3. \E R : stack' \in Seq(R)
    BY <2>2, Zenon
  <2>. QED  BY <2>2, <2>3, Zenon DEF Stacked
<1>. QED  BY <1>5, <1>6, <1>7 DEF StackInv

(* A change of one of the program's variables. *)
LEMMA VarSet ==
    ASSUME DOMAIN var = VarNames, NEW x \in VarNames, NEW v, var' = [var EXCEPT ![x] = v]
    PROVE  DOMAIN var' = VarNames /\ var'[x] = v /\ \A y \in VarNames \ {x} : var'[y] = var[y]
OBVIOUS

(* What the instruction of a running program is like. *)
LEMMA RunningInstr ==
    ASSUME Machine, Sig!CanRun
    PROVE  /\ Sig!Top.ip \in Nat \ {0} /\ ~Sig!Top.wait
           /\ GoodInstr(Sig!Top.fn, Sig!Top.ip, Sig!Instr)
           /\ Sig!Top.ip <= Len(Sig!Code(Sig!Top.fn))
           /\ Sig!Top.fn \in Sig!Programs => Len(stack) = 1
           /\ Len(stack) = 1 => Sig!Top.fn = who
<1>1. /\ FrameOk(Sig!Top) /\ (Len(stack) = 1 => Sig!Top.fn = who)
      /\ Sig!Top.fn \in Sig!Programs \/ Sig!Top.fn \in Handlers
      /\ Len(stack) # 1 => Sig!Top.fn \in Handlers
  BY StackLength DEF Machine, StackInv, Sig!Top
<1>2. GoodCode(Sig!Top.fn)
  BY <1>1, GoodHandlers, GoodPrograms DEF Machine, DataInv
<1>3. Sig!Top.ip \in 1 .. Len(Sig!Code(Sig!Top.fn))
  BY <1>1, <1>2 DEF FrameOk, GoodCode, Sig!CanRun
<1>4. GoodInstr(Sig!Top.fn, Sig!Top.ip, Sig!Instr)
  BY <1>2, <1>3 DEF GoodCode, Sig!Instr
<1>5. Sig!Programs \cap Handlers = {}
  BY DEF Sig!Programs, Handlers
<1>. QED  BY <1>1, <1>3, <1>4, <1>5 DEF FrameOk, Sig!CanRun

(* A step to the next instruction. *)
LEMMA AdvanceKept ==
    ASSUME Machine, Sig!CanRun, who' = who, Sig!Advance
    PROVE  /\ StackInv' /\ Len(stack') = Len(stack) /\ Sig!Top'.ip = Sig!Top.ip + 1
           /\ Sig!Top'.fn = Sig!Top.fn /\ Sig!Top'.old = Sig!Top.old
           /\ \A k \in 1 .. Len(stack) - 1 : stack'[k] = stack[k]
<1>1. Sig!Top.ip + 1 \in Nat \ {0} /\ ~Sig!Top.wait /\ StackInv
  BY RunningInstr DEF Machine
<1>2. Sig!Goto(Sig!Top.ip + 1)
  BY DEF Sig!Advance
<1>. QED  BY <1>1, <1>2, GotoKept

(* Changes that the data invariant allows. *)
LEMMA VarKept ==
    ASSUME DataInv, UNCHANGED <<disp, child>>, sig_pending' \subseteq Sig!Sig,
           NEW x \in VarNames \ {"jmp"}, NEW v, var' = [var EXCEPT ![x] = v],
           x \in {"oldact", "oldact2", "ret"} => v \in Acts
    PROVE  DataInv'
<1>1. DOMAIN var = VarNames
  BY DEF DataInv
<1>2. DOMAIN var' = VarNames /\ var'[x] = v /\ \A y \in VarNames \ {x} : var'[y] = var[y]
  BY <1>1, VarSet
<1>3. /\ "oldact" \in VarNames /\ "oldact2" \in VarNames /\ "ret" \in VarNames /\ "jmp" \in VarNames
  BY DEF VarNames
<1>4. var'["oldact"] \in Acts /\ var'["oldact2"] \in Acts /\ var'["ret"] \in Acts /\ var'["jmp"] = var["jmp"]
  BY <1>2, <1>3 DEF DataInv, SavedActs
<1>. QED  BY <1>2, <1>4 DEF DataInv, SavedActs, JumpInv

(* Steps that leave the variables and the child alone.                     *)
LEMMA DataSame ==
    ASSUME DataInv, UNCHANGED <<disp, var>>, sig_pending' \subseteq Sig!Sig, DOMAIN child' = ChildNames
    PROVE  DataInv'
BY DEF DataInv, SavedActs, JumpInv

LEMMA RaisedSig == ASSUME DataInv, NEW s \in Sig!Sig PROVE Sig!Raised(s) \subseteq Sig!Sig
BY DEF DataInv, Sig!Raised

(* Each instruction keeps the invariant of the machine.                    *)
LEMMA SigactionKept == Machine /\ Sig!Sigaction => Machine'
<1>. SUFFICES ASSUME Machine, Sig!Sigaction PROVE Machine'
  OBVIOUS
<1>. DEFINE c == Sig!Instr
<1>1. StackInv'
  BY AdvanceKept DEF Sig!Sigaction, Sig!At, Sig!History
<1>2. c[2] \in Sig!Sig /\ c[3] \in Acts /\ c[4] \in {"oldact", "oldact2", "ret"}
  BY RunningInstr DEF GoodInstr, Sig!Sigaction, Sig!At
<1>3. /\ disp' = [disp EXCEPT ![c[2]] = c[3]]
      /\ var' = [var EXCEPT ![c[4]] = disp[c[2]]]
      /\ sig_pending' \subseteq sig_pending /\ child' = child
  BY DEF Sig!Sigaction
<1>. HIDE DEF c
<1>4. disp \in [Sig!Sig -> Acts] /\ DOMAIN var = VarNames
  BY DEF Machine, DataInv, SavedActs
<1>5. disp' \in [Sig!Sig -> Acts] /\ disp[c[2]] \in Acts
  BY <1>2, <1>3, <1>4
<1>6. c[4] \in VarNames \ {"jmp"}
  BY <1>2 DEF VarNames
<1>7. DOMAIN var' = VarNames /\ var'[c[4]] \in Acts /\ \A y \in VarNames \ {c[4]} : var'[y] = var[y]
  BY <1>3, <1>4, <1>5, <1>6, VarSet
<1>8. /\ "oldact" \in VarNames /\ "oldact2" \in VarNames /\ "ret" \in VarNames /\ "jmp" \in VarNames
  BY DEF VarNames
<1>9. var'["oldact"] \in Acts /\ var'["oldact2"] \in Acts /\ var'["ret"] \in Acts /\ var'["jmp"] = var["jmp"]
  BY <1>6, <1>7, <1>8 DEF Machine, DataInv, SavedActs
<1>. QED  BY <1>1, <1>3, <1>5, <1>7, <1>9 DEF Machine, DataInv, SavedActs, JumpInv

LEMMA VarStepKept ==
    Machine /\ (Sig!Sigprocmask \/ Sig!Alarm \/ Sig!Set \/ Sig!Wakes \/ Sig!Input) => Machine'
<1>. SUFFICES ASSUME Machine, Sig!Sigprocmask \/ Sig!Alarm \/ Sig!Set \/ Sig!Wakes \/ Sig!Input PROVE Machine'
  OBVIOUS
<1>. DEFINE c == Sig!Instr
<1>1. Sig!CanRun /\ who' = who /\ Sig!Advance /\ UNCHANGED <<disp, child, sig_pending>>
  BY DEF Sig!Sigprocmask, Sig!Alarm, Sig!Set, Sig!Wakes, Sig!Input, Sig!At, Sig!History
<1>2. StackInv'
  BY <1>1, AdvanceKept
<1>3. GoodInstr(Sig!Top.fn, Sig!Top.ip, c)
  BY <1>1, RunningInstr
<1>4. \/ c[1] = "mask" /\ var' = [var EXCEPT ![c[3]] = mask]
      \/ var' = [var EXCEPT !["unslept"] = timer]
      \/ c[1] = "set" /\ var' = [var EXCEPT ![c[2]] = c[3]]
      \/ var' = var
  BY DEF Sig!Sigprocmask, Sig!Alarm, Sig!Set, Sig!Wakes, Sig!Input, Sig!At
<1>. HIDE DEF c
<1>5. DataInv /\ sig_pending' \subseteq Sig!Sig
  BY <1>1 DEF Machine, DataInv
<1>6. CASE var' = var
  <2>1. DOMAIN child' = ChildNames /\ UNCHANGED <<disp, var>>
    BY <1>1, <1>6 DEF Machine, DataInv
  <2>2. DataInv'
    BY <1>5, <2>1, DataSame
  <2>. QED  BY <1>2, <2>2 DEF Machine
<1>7. ASSUME NEW x \in VarNames \ {"jmp"}, NEW v, var' = [var EXCEPT ![x] = v],
             x \in {"oldact", "oldact2", "ret"} => v \in Acts
      PROVE  DataInv'
  BY <1>1, <1>5, <1>7, VarKept
<1>8. CASE c[1] = "mask" /\ var' = [var EXCEPT ![c[3]] = mask]
  <2>1. c[3] = "oldmask" /\ c[3] \in VarNames \ {"jmp"} /\ c[3] \notin {"oldact", "oldact2", "ret"}
    BY <1>3, <1>8 DEF GoodInstr, VarNames
  <2>2. DataInv'
    BY <1>7, <1>8, <2>1
  <2>. QED  BY <1>2, <2>2 DEF Machine
<1>9. CASE var' = [var EXCEPT !["unslept"] = timer]
  <2>1. "unslept" \in VarNames \ {"jmp"} /\ "unslept" \notin {"oldact", "oldact2", "ret"}
    BY DEF VarNames
  <2>2. DataInv'
    BY <1>7, <1>9, <2>1
  <2>. QED  BY <1>2, <2>2 DEF Machine
<1>10. CASE c[1] = "set" /\ var' = [var EXCEPT ![c[2]] = c[3]]
  <2>1. c[2] \in VarNames \ {"jmp"} /\ (c[2] \in {"oldact", "oldact2", "ret"} => c[3] \in Acts)
    BY <1>3, <1>10 DEF GoodInstr, VarNames
  <2>2. DataInv'
    BY <1>7, <1>10, <2>1
  <2>. QED  BY <1>2, <2>2 DEF Machine
<1>. QED  BY <1>4, <1>6, <1>8, <1>9, <1>10

LEMMA SetJmpKept == Machine /\ Sig!SetJmp => Machine'
<1>. SUFFICES ASSUME Machine, Sig!SetJmp PROVE Machine'
  OBVIOUS
<1>. DEFINE j == [set |-> TRUE, depth |-> Len(stack), ip |-> Sig!Top.ip + 1, saves |-> Sig!Instr[2], mask |-> mask]
<1>1. StackInv' /\ Len(stack) = 1 /\ Sig!Top.ip + 1 \in Nat \ {0}
  BY AdvanceKept, RunningInstr DEF Sig!SetJmp, Sig!At, Sig!History, GoodInstr
<1>2. UNCHANGED <<disp, child, sig_pending>> /\ var' = [var EXCEPT !.jmp = j]
  BY DEF Sig!SetJmp
<1>3. j.depth = 1 /\ j.ip \in Nat \ {0}
  BY <1>1
<1>. HIDE DEF j
<1>4. DOMAIN var' = VarNames /\ var'["jmp"] = j /\ \A y \in VarNames \ {"jmp"} : var'[y] = var[y]
  BY <1>2, VarSet DEF Machine, DataInv, VarNames
<1>5. var'["oldact"] = var["oldact"] /\ var'["oldact2"] = var["oldact2"] /\ var'["ret"] = var["ret"]
  BY <1>4 DEF VarNames
<1>. QED  BY <1>1, <1>2, <1>3, <1>4, <1>5 DEF Machine, DataInv, SavedActs, JumpInv

LEMMA ForkKept == Machine /\ Sig!Fork => Machine'
<1>. SUFFICES ASSUME Machine, Sig!Fork PROVE Machine'
  OBVIOUS
<1>1. StackInv'
  BY AdvanceKept DEF Sig!Fork, Sig!At, Sig!History
<1>2. /\ UNCHANGED <<disp, sig_pending>> /\ DOMAIN child' = ChildNames
      /\ (var' = [var EXCEPT !.pid = 1] \/ var' = [var EXCEPT !.pid = -1, !.status = "failed"])
  BY DEF Sig!Fork, Machine, DataInv, ChildNames
<1>3. DOMAIN var' = VarNames
      /\ var'["oldact"] = var["oldact"] /\ var'["oldact2"] = var["oldact2"] /\ var'["ret"] = var["ret"]
      /\ var'["jmp"] = var["jmp"]
  BY <1>2 DEF Machine, DataInv, VarNames
<1>. QED  BY <1>1, <1>2, <1>3 DEF Machine, DataInv, SavedActs, JumpInv

LEMMA WaitpidKept == Machine /\ Sig!Waitpid => Machine'
<1>. SUFFICES ASSUME Machine, Sig!Waitpid PROVE Machine'
  OBVIOUS
<1>. DEFINE x == Sig!Instr[2]  v == IF child.status = "zombie" THEN "code" ELSE "error"
<1>1. StackInv'
  BY AdvanceKept DEF Sig!Waitpid, Sig!At, Sig!History
<1>2. /\ UNCHANGED <<disp, sig_pending>> /\ var' = [var EXCEPT ![x] = v]
      /\ child' = [child EXCEPT !.status = IF @ = "zombie" THEN "reaped" ELSE @]
  BY DEF Sig!Waitpid
<1>3. x \in {"status", "reaped"}
  BY RunningInstr DEF Sig!Waitpid, Sig!At, GoodInstr
<1>. HIDE DEF x, v
<1>4. x \in VarNames \ {"jmp", "oldact", "oldact2", "ret"}
  BY <1>3 DEF VarNames
<1>5. DOMAIN var' = VarNames
      /\ var'["oldact"] = var["oldact"] /\ var'["oldact2"] = var["oldact2"] /\ var'["ret"] = var["ret"]
      /\ var'["jmp"] = var["jmp"]
  BY <1>2, <1>4, VarSet DEF Machine, DataInv, VarNames
<1>6. DOMAIN child' = ChildNames
  BY <1>2 DEF Machine, DataInv
<1>. QED  BY <1>1, <1>2, <1>5, <1>6 DEF Machine, DataInv, SavedActs, JumpInv

LEMMA SkipKept == Machine /\ Sig!Skip => Machine'
<1>. SUFFICES ASSUME Machine, Sig!Skip PROVE Machine'
  OBVIOUS
<1>. DEFINE d == IF Sig!Instr[2] THEN Sig!Instr[3] ELSE 0  k == Sig!Top.ip
<1>1. Sig!Goto(k + 1 + d) /\ who' = who /\ UNCHANGED <<disp, var, child, sig_pending>>
  BY DEF Sig!Skip, Sig!History
<1>2. ~Sig!Top.wait /\ Sig!Instr[3] \in Int /\ k + Sig!Instr[3] >= 0 /\ k \in Nat \ {0}
  BY RunningInstr DEF Sig!Skip, Sig!At, GoodInstr
<1>3. d \in Int /\ k + d >= 0
  BY <1>2
<1>. HIDE DEF d, k
<1>4. k + 1 + d \in Nat \ {0}
  BY <1>2, <1>3 DEF k
<1>5. StackInv'
  BY <1>1, <1>2, <1>4, GotoKept DEF Machine
<1>. QED  BY <1>1, <1>5, DataSame DEF Machine, DataInv, SavedActs, JumpInv

LEMMA SuspendKept ==
    ASSUME Machine, Sig!Suspend
    PROVE  Machine' /\ Len(stack) = 1 /\ Len(stack') = 1 /\ stack'[1].ip = stack[1].ip /\ stack'[1].old = mask
<1>. DEFINE f == [Sig!Top EXCEPT !.wait = TRUE, !.old = mask]
<1>1. stack' = Sig!Here(f) /\ who' = who /\ UNCHANGED <<disp, var, child, sig_pending>>
  BY DEF Sig!Suspend, Sig!History
<1>2. Len(stack) = 1
  BY RunningInstr DEF Sig!Suspend, Sig!At, GoodInstr
<1>3. FrameOk(Sig!Top) /\ Sig!Top = stack[1]
  BY <1>2, StackLength DEF Machine, StackInv, Sig!Top
<1>4. FrameOk(f) /\ f.fn = Sig!Top.fn /\ f.old = mask /\ f.ip = stack[1].ip
  BY <1>3 DEF FrameOk, FrameNames
<1>. HIDE DEF f
<1>5. StackInv' /\ Len(stack') = Len(stack) /\ stack'[Len(stack)] = f
  BY <1>1, <1>2, <1>4, HereKept DEF Machine
<1>6. DataInv'
  BY <1>1 DEF Machine, DataInv, SavedActs, JumpInv
<1>. QED  BY <1>2, <1>4, <1>5, <1>6 DEF Machine

LEMMA KillKept == Machine /\ Sig!Kill => Machine'
<1>. SUFFICES ASSUME Machine, Sig!Kill PROVE Machine'
  OBVIOUS
<1>1. StackInv'
  BY AdvanceKept DEF Sig!Kill, Sig!At, Sig!History
<1>2. Sig!Instr[2] \in Sig!Sig
  BY RunningInstr DEF Sig!Kill, Sig!At, GoodInstr
<1>3. sig_pending' \subseteq Sig!Sig
  BY <1>2, RaisedSig DEF Sig!Kill, Machine
<1>4. UNCHANGED <<disp, var, child>>
  BY DEF Sig!Kill
<1>. QED  BY <1>1, <1>3, <1>4 DEF Machine, DataInv, SavedActs, JumpInv

LEMMA LongJumpKept == Machine /\ Sig!LongJump => Machine'
<1>. SUFFICES ASSUME Machine, Sig!LongJump PROVE Machine'
  OBVIOUS
<1>1. UNCHANGED <<who, disp, child, sig_pending>>
  BY DEF Sig!LongJump
<1>2. CASE /\ var.jmp.set /\ var' = [var EXCEPT !.jumped = TRUE]
           /\ stack' = [SubSeq(stack, 1, var.jmp.depth) EXCEPT
                            ![var.jmp.depth].ip = var.jmp.ip, ![var.jmp.depth].wait = FALSE]
  <2>1. var.jmp.depth = 1 /\ var.jmp.ip \in Nat \ {0}
    BY <1>2 DEF Machine, DataInv, JumpInv
  <2>2. stack' = [SubSeq(stack, 1, 1) EXCEPT ![1].ip = var.jmp.ip, ![1].wait = FALSE]
    BY <1>2, <2>1
  <2>3. StackInv'
    BY <1>1, <2>1, <2>2, JumpKept DEF Machine
  <2>4. "jumped" \in VarNames \ {"jmp"} /\ "jumped" \notin {"oldact", "oldact2", "ret"}
    BY DEF VarNames
  <2>5. DataInv'
    BY <1>1, <1>2, <2>4, VarKept DEF Machine, DataInv
  <2>. QED  BY <2>3, <2>5 DEF Machine
<1>3. CASE UNCHANGED <<stack, var>>
  BY <1>1, <1>3 DEF Machine, StackInv, DataInv, SavedActs, JumpInv
<1>. QED  BY <1>2, <1>3 DEF Sig!LongJump

LEMMA ReturnKept == Machine /\ Sig!Return => Machine'
<1>. SUFFICES ASSUME Machine, Sig!Return PROVE Machine'
  OBVIOUS
<1>1. UNCHANGED <<who, disp, var, child, sig_pending>>
  BY DEF Sig!Return, Sig!History
<1>2. DataInv'
  BY <1>1 DEF Machine, DataInv, SavedActs, JumpInv
<1>3. CASE stack' = stack
  BY <1>1, <1>2, <1>3 DEF Machine, StackInv
<1>4. CASE Len(stack) > 1 /\ stack' = SubSeq(stack, 1, Len(stack) - 1)
  BY <1>1, <1>2, <1>4, FramePopped DEF Machine
<1>. QED  BY <1>3, <1>4 DEF Sig!Return

(* The steps of the kernel, and what comes from outside.                   *)
LEMMA KernelKept == Machine /\ (Sig!Tick \/ Sig!ChildEnds \/ Sig!Send) => Machine'
<1>. SUFFICES ASSUME Machine, Sig!Tick \/ Sig!ChildEnds \/ Sig!Send PROVE Machine'
  OBVIOUS
<1>1. UNCHANGED <<who, stack, disp, var>> /\ (UNCHANGED child \/ child' = [child EXCEPT !.status = "zombie"])
  BY DEF Sig!Tick, Sig!ChildEnds, Sig!Send, Sig!History
<1>2. DOMAIN child' = ChildNames
  BY <1>1 DEF Machine, DataInv
<1>3. sig_pending' \subseteq Sig!Sig
  <2>1. \A s \in Sig!Sig : Sig!Raised(s) \subseteq Sig!Sig
    BY RaisedSig DEF Machine
  <2>2. Sig!FromOutside \subseteq Sig!Sig /\ "ALRM" \in Sig!Sig /\ "CHLD" \in Sig!Sig
    BY DEF Sig!FromOutside, Sig!Sig
  <2>3. sig_pending' = sig_pending \/ \E s \in Sig!Sig : sig_pending' = Sig!Raised(s)
    BY <2>2 DEF Sig!Tick, Sig!ChildEnds, Sig!Send
  <2>. QED  BY <2>1, <2>3 DEF Machine, DataInv
<1>. QED  BY <1>1, <1>2, <1>3 DEF Machine, StackInv, DataInv, SavedActs, JumpInv

(* What delivers a signal to a handler.                                    *)
OldMask == IF Sig!Top.wait THEN Sig!Top.old ELSE mask
Caught(s) == stack' = Pushed(Replaced(stack, Interrupted(Sig!Top)), Sig!Frame(disp[s], OldMask))

LEMMA DeliverKept ==
    ASSUME Machine, Sig!Deliver
    PROVE  /\ Machine' /\ UNCHANGED <<who, disp, var, child>>
           /\ UNCHANGED <<stack, mask>> \/ \E s \in sig_pending : disp[s] \in Handlers /\ Caught(s)
<1>1. PICK s \in Sig!Deliverable :
        \/ disp[s] \notin {"DFL", "IGN"} /\ Caught(s)
        \/ UNCHANGED <<stack, mask>>
  BY Zenon DEF Sig!Deliver, Caught, OldMask, Pushed, Replaced, Interrupted, Sig!Here
<1>2. UNCHANGED <<who, disp, var, child>> /\ sig_pending' \subseteq sig_pending
  BY DEF Sig!Deliver
<1>3. s \in sig_pending /\ disp[s] \in Acts
  BY DEF Machine, DataInv, SavedActs, Sig!Deliverable
<1>4. DataInv'
  BY <1>2 DEF Machine, DataInv, SavedActs, JumpInv
<1>5. CASE disp[s] \notin {"DFL", "IGN"} /\ Caught(s)
  <2>1. disp[s] \in Handlers
    BY <1>3, <1>5 DEF Acts
  <2>2. StackInv'
    BY <1>2, <1>5, <2>1, PushKept DEF Machine, Caught
  <2>. QED  BY <1>2, <1>3, <1>4, <1>5, <2>1, <2>2 DEF Machine
<1>6. CASE UNCHANGED <<stack, mask>>
  BY <1>2, <1>4, <1>6 DEF Machine, StackInv
<1>. QED  BY <1>1, <1>5, <1>6

(* The invariant of the machine, for each of the programs.                 *)
LEMMA MachineStart == Sig!SigprogInit => Machine
<1>. SUFFICES ASSUME Sig!SigprogInit PROVE Machine
  OBVIOUS
<1>1. stack = <<[fn |-> who, ip |-> 1, wait |-> FALSE, old |-> {}]>> /\ who \in Sig!Programs
  BY DEF Sig!SigprogInit, Sig!Frame
<1>2. StackInv
  <2>. DEFINE f == [fn |-> who, ip |-> 1, wait |-> FALSE, old |-> {}]
  <2>1. FrameOk(f) /\ f.fn = who /\ ~f.wait
    BY DEF FrameOk, FrameNames
  <2>. HIDE DEF f
  <2>2. stack \in Seq({f}) /\ Len(stack) = 1 /\ stack[1] = f
    BY <1>1 DEF f
  <2>3. Stacked(stack)
    BY <2>2, Zenon DEF Stacked
  <2>4. who \in Sig!Programs
    BY <1>1
  <2>5. (\A k \in 1 .. Len(stack) : k = 1) /\ (\A k \in 2 .. Len(stack) : FALSE) /\ Len(stack) >= 1
    BY <2>2
  <2>6. \A k \in 1 .. Len(stack) : FrameOk(stack[k]) /\ ~stack[k].wait
    BY <2>1, <2>2, <2>5, Zenon
  <2>. QED  BY <2>1, <2>2, <2>3, <2>4, <2>5, <2>6, Zenon DEF StackInv
<1>3. disp \in [Sig!Sig -> Acts]
  <2>1. PICK d \in Sig!Inherited(who) : disp = [s \in Sig!Sig |-> IF s \in DOMAIN d THEN d[s] ELSE "DFL"]
    BY DEF Sig!SigprogInit
  <2>2. \A s \in DOMAIN d : d[s] \in Acts
    BY DEF Sig!Inherited, Acts, Handlers
  <2>3. "DFL" \in Acts
    BY DEF Acts
  <2>. QED  BY <2>1, <2>2, <2>3
<1>4. DOMAIN var = VarNames /\ var.oldact = "DFL" /\ var.oldact2 = "DFL" /\ var.ret = "DFL" /\ var.jmp.set = FALSE
  <2>1. var = Sig!NoVars
    BY DEF Sig!SigprogInit
  <2>2. DOMAIN Sig!NoVars = VarNames
    BY DEF Sig!NoVars, VarNames
  <2>3. /\ Sig!NoVars.oldact = "DFL" /\ Sig!NoVars.oldact2 = "DFL" /\ Sig!NoVars.ret = "DFL"
        /\ Sig!NoVars.jmp.set = FALSE
    BY DEF Sig!NoVars
  <2>. QED  BY <2>1, <2>2, <2>3
<1>5. DOMAIN child = ChildNames /\ sig_pending \subseteq Sig!Sig
  BY DEF Sig!SigprogInit, ChildNames
<1>. QED  BY <1>2, <1>3, <1>4, <1>5 DEF Machine, DataInv, SavedActs, JumpInv, Acts

LEMMA MachineStep == Machine /\ [Sig!SigprogNext]_sigprogVars => Machine'
<1>. SUFFICES ASSUME Machine, [Sig!SigprogNext]_sigprogVars PROVE Machine'
  OBVIOUS
<1>1. CASE UNCHANGED sigprogVars
  BY <1>1 DEF sigprogVars, Machine, StackInv, DataInv, SavedActs, JumpInv
<1>2. CASE Sig!SigprogNext
  BY <1>2, SigactionKept, VarStepKept, SuspendKept, SetJmpKept, LongJumpKept, KillKept, SkipKept, ForkKept,
     WaitpidKept, ReturnKept, DeliverKept, KernelKept, Zenon DEF Sig!SigprogNext, Sig!ProgramStep
<1>. QED  BY <1>1, <1>2

(* A step of the composition, for the signal programs.                     *)
LEMMA SignalsPart == [Next]_all => [Sig!SigprogNext]_sigprogVars
BY DEF Next, all, InCopy, InWait, InSignals, sigprogVars

(* The mask of main(), which a handler on top of it will restore. *)
MainMask == IF Len(stack) = 1 THEN mask ELSE stack[2].old
Mild == {"DFL", "IGN", "empty"}
Tame ==
    /\ var.oldact \in Mild /\ var.oldact2 \in Mild
    /\ \A s \in Sig!Sig : \/ disp[s] \in Mild
                          \/ disp[s] = "sig_cld" /\ s = "CHLD" /\ who = "system2_reaping"
    /\ \A k \in 2 .. Len(stack) : stack[k].fn = "empty" \/ (stack[k].fn = "sig_cld" /\ disp["CHLD"] = "sig_cld")
    /\ stack[1].wait => who = "sleep" /\ stack[1].ip = 5
SleepPhase ==
    LET k == stack[1].ip
        b == var.before
    IN  /\ k \in 1 .. 10 /\ var.pid = 0
        /\ k # 1 => b.disp \in [Sig!Sig -> Acts]
        /\ k = 2 \/ k = 8 \/ k = 9 => disp = b.disp
        /\ k = 2 \/ k = 3 \/ k = 9 => MainMask = b.mask
        /\ k \in 3 .. 7 => disp = [b.disp EXCEPT !["ALRM"] = "empty"] /\ var.oldact = b.disp["ALRM"]
        /\ k \in 4 .. 8 => var.oldmask = b.mask
SystemPhase ==
    LET k == stack[1].ip
        b == var.before
    IN  /\ k \in 1 .. 14
        /\ k \notin 1 .. 3 => b.disp \in [Sig!Sig -> Acts]
        /\ k = 4 \/ k = 12 \/ k = 13 => disp = b.disp
        /\ k = 5 => disp = [b.disp EXCEPT !["INT"] = "IGN"]
        /\ k \in 6 .. 10 => disp = [b.disp EXCEPT !["INT"] = "IGN", !["QUIT"] = "IGN"]
        /\ k = 11 => disp = [b.disp EXCEPT !["QUIT"] = "IGN"]
        /\ k \in 5 .. 10 => var.oldact = b.disp["INT"]
        /\ k \in 6 .. 11 => var.oldact2 = b.disp["QUIT"]
        /\ k \in 4 .. 6 \/ k = 13 => MainMask = b.mask
        /\ k \in 7 .. 12 => var.oldmask = b.mask
        /\ var.pid = 1 => k \notin 1 .. 7 /\ child.disp = b.disp /\ child.mask = b.mask
CallerInv == who \in Callers => Tame /\ (IF who = "sleep" THEN SleepPhase ELSE SystemPhase)
Quiet ==
    /\ UNCHANGED <<who, disp>> /\ stack'[1].ip = stack[1].ip /\ MainMask' = MainMask
    /\ var'.before = var.before /\ var'.oldact = var.oldact /\ var'.oldact2 = var.oldact2
    /\ var'.oldmask = var.oldmask /\ var'.pid = var.pid
    /\ child'.disp = child.disp /\ child'.mask = child.mask

(* A step that leaves what the invariant of the callers is about.          *)
LEMMA QuietPhase == Quiet => (SleepPhase => SleepPhase') /\ (SystemPhase => SystemPhase')
<1>1. Quiet /\ SleepPhase => SleepPhase'
  BY DEF SleepPhase, Quiet
<1>2. Quiet /\ SystemPhase => SystemPhase'
  BY DEF SystemPhase, Quiet
<1>. QED  BY <1>1, <1>2

(* The kernel, and the outside. *)
LEMMA KernelQuiet == Machine /\ Tame /\ (Sig!Tick \/ Sig!ChildEnds \/ Sig!Send) => Quiet /\ Tame'
<1>. SUFFICES ASSUME Machine, Tame, Sig!Tick \/ Sig!ChildEnds \/ Sig!Send PROVE Quiet /\ Tame'
  OBVIOUS
<1>1. UNCHANGED <<who, stack, disp, mask, var>> /\ (UNCHANGED child \/ child' = [child EXCEPT !.status = "zombie"])
  BY DEF Sig!Tick, Sig!ChildEnds, Sig!Send, Sig!History
<1>2. child'.disp = child.disp /\ child'.mask = child.mask
  BY <1>1 DEF Machine, DataInv, ChildNames
<1>. QED  BY <1>1, <1>2 DEF Quiet, MainMask, Tame

(* The end of a handler, and of main(). *)
LEMMA ReturnQuiet == Machine /\ Tame /\ Sig!Return => Quiet /\ Tame'
<1>. SUFFICES ASSUME Machine, Tame, Sig!Return PROVE Quiet /\ Tame'
  OBVIOUS
<1>1. UNCHANGED <<who, disp, var, child>>
  BY DEF Sig!Return, Sig!History
<1>2. CASE UNCHANGED <<stack, mask>>
  BY <1>1, <1>2 DEF Quiet, MainMask, Tame
<1>3. CASE Len(stack) > 1 /\ mask' = Sig!Top.old /\ stack' = SubSeq(stack, 1, Len(stack) - 1)
  <2>. DEFINE m == Len(stack)
  <2>1. Len(stack') = m - 1 /\ \A k \in 1 .. m - 1 : stack'[k] = stack[k]
    BY <1>1, <1>3, FramePopped DEF Machine
  <2>2. m \in Nat /\ m > 1 /\ mask' = stack[m].old
    BY <1>3, StackLength DEF Machine, Sig!Top
  <2>3. m = Len(stack)
    OBVIOUS
  <2>. HIDE DEF m
  <2>4. /\ 1 \in 1 .. m - 1 /\ m # 1 /\ (m = 2 \/ (2 \in 1 .. m - 1 /\ m - 1 # 1))
        /\ \A k \in 2 .. m - 1 : k \in 1 .. m - 1 /\ k \in 2 .. m
    BY <2>2
  <2>5. MainMask' = MainMask
    <3>1. CASE m = 2
      <4>1. Len(stack') = 1
        BY <2>1, <3>1
      <4>. QED  BY <2>2, <2>3, <2>4, <3>1, <4>1 DEF MainMask
    <3>2. CASE 2 \in 1 .. m - 1 /\ m - 1 # 1
      BY <2>1, <2>3, <2>4, <3>2 DEF MainMask
    <3>. QED  BY <2>4, <3>1, <3>2
  <2>6. stack'[1] = stack[1]
    BY <2>1, <2>4
  <2>7. \A k \in 2 .. Len(stack') : k \in 2 .. m /\ stack'[k] = stack[k]
    BY <2>1, <2>4
  <2>8. \A k \in 2 .. m : stack[k].fn = "empty" \/ (stack[k].fn = "sig_cld" /\ disp["CHLD"] = "sig_cld")
    BY <2>3 DEF Tame
  <2>9. Tame'
    BY <1>1, <2>6, <2>7, <2>8 DEF Tame
  <2>. QED  BY <1>1, <2>5, <2>6, <2>9 DEF Quiet
<1>. QED  BY <1>2, <1>3 DEF Sig!Return

(* A signal. *)
LEMMA DeliverQuiet ==
    ASSUME Machine, Tame, Sig!Deliver
    PROVE  /\ Tame'
           /\ \/ Quiet
              \/ /\ who = "sleep" /\ stack[1].ip = 5 /\ stack'[1].ip = 6
                 /\ UNCHANGED <<who, disp, var, child>>
<1>1. UNCHANGED <<who, disp, var, child>>
  BY DeliverKept
<1>2. CASE UNCHANGED <<stack, mask>>
  BY <1>1, <1>2 DEF Quiet, MainMask, Tame
<1>3. ASSUME NEW s \in sig_pending, disp[s] \in Handlers, Caught(s)
      PROVE  /\ Tame'
             /\ \/ Quiet
                \/ who = "sleep" /\ stack[1].ip = 5 /\ stack'[1].ip = 6
  <2>. DEFINE m == Len(stack)  h == disp[s]
  <2>1. /\ Len(stack') = m + 1
        /\ stack'[m + 1] = Sig!Frame(h, OldMask)
        /\ stack'[m].ip = (IF Sig!Top.wait THEN Sig!Top.ip + 1 ELSE Sig!Top.ip)
        /\ stack'[m].old = Sig!Top.old /\ stack'[m].fn = Sig!Top.fn
        /\ \A k \in 1 .. m - 1 : stack'[k] = stack[k]
    BY <1>1, <1>3, PushKept DEF Machine, Caught
  <2>2. stack'[m + 1].fn = h /\ stack'[m + 1].old = OldMask
    BY <2>1 DEF Sig!Frame
  <2>3. m \in Nat /\ m >= 1 /\ Sig!Top = stack[m] /\ m = Len(stack)
    BY StackLength DEF Machine, StackInv, Sig!Top
  <2>4. ~stack'[1].wait /\ (stack[1].wait => m = 1)
    <3>1. StackInv'
      BY DeliverKept DEF Machine
    <3>2. 1 \in 1 .. Len(stack') /\ Len(stack') # 1 /\ 1 \in 1 .. m
      BY <2>1, <2>3
    <3>. QED  BY <3>1, <3>2 DEF StackInv, Machine
  <2>5. h = "empty" \/ (h = "sig_cld" /\ disp["CHLD"] = "sig_cld")
    <3>1. s \in Sig!Sig /\ h # "DFL" /\ h # "IGN"
      BY <1>3 DEF Machine, DataInv, Handlers
    <3>. QED  BY <3>1 DEF Tame, Mild
  <2>6. \A k \in 2 .. m : stack[k].fn = "empty" \/ (stack[k].fn = "sig_cld" /\ disp["CHLD"] = "sig_cld")
    BY DEF Tame
  <2>. HIDE DEF m, h
  <2>7. /\ \A k \in 2 .. m + 1 : k = m + 1 \/ (k \in 2 .. m /\ (k = m \/ k \in 1 .. m - 1))
        /\ m = 1 \/ (1 \in 1 .. m - 1 /\ m + 1 # 1 /\ m # 1 /\ (m = 2 \/ 2 \in 1 .. m - 1))
        /\ m + 1 # 1
    BY <2>3
  <2>8. \A k \in 2 .. m + 1 : stack'[k].fn = "empty" \/ (stack'[k].fn = "sig_cld" /\ disp["CHLD"] = "sig_cld")
    BY <2>1, <2>2, <2>3, <2>5, <2>6, <2>7
  <2>9. Tame'
    BY <1>1, <2>1, <2>4, <2>8 DEF Tame
  <2>10. CASE stack[1].wait
    <3>1. m = 1 /\ who = "sleep" /\ stack[1].ip = 5
      BY <2>4, <2>10 DEF Tame
    <3>2. stack'[1].ip = 6
      BY <2>1, <2>3, <2>10, <3>1
    <3>. QED  BY <2>9, <3>1, <3>2
  <2>11. CASE ~stack[1].wait
    <3>1. CASE m = 1
      <4>1. stack'[1].ip = stack[1].ip /\ stack'[2].old = mask
        BY <2>1, <2>2, <2>3, <2>11, <3>1 DEF OldMask
      <4>2. MainMask' = MainMask
        BY <2>1, <2>3, <3>1, <4>1 DEF MainMask
      <4>. QED  BY <1>1, <2>9, <4>1, <4>2 DEF Quiet
    <3>2. CASE m # 1
      <4>1. stack'[1] = stack[1]
        BY <2>1, <2>7, <3>2
      <4>2. stack'[2].old = stack[2].old
        BY <2>1, <2>3, <2>7, <3>2
      <4>3. MainMask' = MainMask
        BY <2>1, <2>3, <2>7, <3>2, <4>2 DEF MainMask
      <4>. QED  BY <1>1, <2>9, <4>1, <4>3 DEF Quiet
    <3>. QED  BY <3>1, <3>2
  <2>. QED  BY <2>10, <2>11
<1>. QED  BY <1>1, <1>2, <1>3, DeliverKept

(* A handler's own calls: "empty" makes none; sig_cld() sets its handler again and waits. *)
LEMMA HandlerCode ==
    /\ Len(Sig!Code("empty")) = 0
    /\ Len(Sig!Code("sig_cld")) = 2
    /\ Sig!Code("sig_cld")[1] = <<"sigaction", "CHLD", "sig_cld", "ret">>
    /\ Sig!Code("sig_cld")[2] = <<"waitpid", "reaped">>
BY DEF Sig!Code, Sig!SigCld

(* Their steps are quiet.                                                  *)
LEMMA HandlerQuiet ==
    ASSUME Machine, Tame, Len(stack) # 1, Sig!ProgramStep \/ Sig!Input, ~Sig!Return
    PROVE  Quiet /\ Tame'
<1>. DEFINE m == Len(stack)
<1>1. Sig!CanRun
  BY DEF Sig!ProgramStep, Sig!Input, Sig!Sigaction, Sig!Sigprocmask, Sig!Alarm, Sig!Suspend, Sig!SetJmp,
         Sig!LongJump, Sig!Kill, Sig!Set, Sig!Skip, Sig!Fork, Sig!Waitpid, Sig!Wakes, Sig!At
<1>2. m \in 2 .. m /\ m \in 1 .. m /\ Sig!Top = stack[m] /\ m = Len(stack)
  BY StackLength DEF Machine, Sig!Top
<1>3. Sig!Top.ip \in Nat \ {0} /\ ~Sig!Top.wait /\ Sig!Top.ip <= Len(Sig!Code(Sig!Top.fn))
  BY <1>1, RunningInstr
<1>4. Sig!Top.fn = "sig_cld" /\ disp["CHLD"] = "sig_cld" /\ (Sig!Top.ip = 1 \/ Sig!Top.ip = 2)
  <2>1. Sig!Top.fn = "empty" \/ (Sig!Top.fn = "sig_cld" /\ disp["CHLD"] = "sig_cld")
    BY <1>2 DEF Tame
  <2>2. Sig!Top.fn # "empty"
    BY <1>3, HandlerCode
  <2>3. Len(Sig!Code(Sig!Top.fn)) = 2
    BY <2>1, <2>2, HandlerCode
  <2>4. \A k \in Nat \ {0} : k <= 2 => k = 1 \/ k = 2
    OBVIOUS
  <2>. QED  BY <1>3, <2>1, <2>2, <2>3, <2>4
<1>5. Sig!Instr = <<"sigaction", "CHLD", "sig_cld", "ret">> \/ Sig!Instr = <<"waitpid", "reaped">>
  BY <1>4, HandlerCode DEF Sig!Instr
<1>6. Sig!Sigaction \/ Sig!Waitpid
  <2>1. Sig!Instr[1] = "sigaction" \/ Sig!Instr[1] = "waitpid"
    BY <1>5
  <2>. QED
    BY <2>1, ~Sig!Return DEF Sig!ProgramStep, Sig!Input, Sig!Sigprocmask, Sig!Alarm, Sig!Suspend, Sig!SetJmp,
           Sig!LongJump, Sig!Kill, Sig!Set, Sig!Skip, Sig!Fork, Sig!Wakes, Sig!At
<1>7. Sig!Advance /\ who' = who /\ mask' = mask
  BY <1>6 DEF Sig!Sigaction, Sig!Waitpid, Sig!History
<1>8. /\ Len(stack') = m /\ Sig!Top'.fn = Sig!Top.fn /\ Sig!Top'.old = Sig!Top.old
      /\ \A k \in 1 .. m - 1 : stack'[k] = stack[k]
  BY <1>1, <1>7, AdvanceKept
<1>9. Sig!Top' = stack'[m]
  BY <1>8 DEF Sig!Top
<1>10. /\ disp' = disp /\ child'.disp = child.disp /\ child'.mask = child.mask
       /\ \E x \in {"ret", "reaped"} : \E v : var' = [var EXCEPT ![x] = v]
  <2>1. CASE Sig!Sigaction
    <3>1. Sig!Instr = <<"sigaction", "CHLD", "sig_cld", "ret">>
      BY <1>5, <2>1 DEF Sig!Sigaction, Sig!At
    <3>2. disp' = [disp EXCEPT !["CHLD"] = "sig_cld"] /\ var' = [var EXCEPT !["ret"] = disp["CHLD"]] /\ child' = child
      BY <2>1, <3>1 DEF Sig!Sigaction
    <3>3. disp \in [Sig!Sig -> Acts]
      BY DEF Machine, DataInv, SavedActs
    <3>4. disp' = disp
      BY <1>4, <3>2, <3>3
    <3>. QED  BY <3>2, <3>4
  <2>2. CASE Sig!Waitpid
    <3>1. Sig!Instr = <<"waitpid", "reaped">>
      BY <1>5, <2>2 DEF Sig!Waitpid, Sig!At
    <3>2. /\ disp' = disp /\ child' = [child EXCEPT !.status = IF @ = "zombie" THEN "reaped" ELSE @]
          /\ \E v : var' = [var EXCEPT !["reaped"] = v]
      BY <2>2, <3>1 DEF Sig!Waitpid
    <3>3. child'.disp = child.disp /\ child'.mask = child.mask
      BY <3>2 DEF Machine, DataInv, ChildNames
    <3>. QED  BY <3>2, <3>3
  <2>. QED  BY <1>6, <2>1, <2>2
<1>11. /\ var'.before = var.before /\ var'.oldact = var.oldact /\ var'.oldact2 = var.oldact2
       /\ var'.oldmask = var.oldmask /\ var'.pid = var.pid
  BY <1>10 DEF Machine, DataInv, VarNames
<1>12. \A k \in 2 .. m : stack[k].fn = "empty" \/ (stack[k].fn = "sig_cld" /\ disp["CHLD"] = "sig_cld")
  BY DEF Tame
<1>. HIDE DEF m
<1>13. /\ 1 \in 1 .. m - 1 /\ (m = 2 \/ 2 \in 1 .. m - 1)
       /\ \A k \in 2 .. m : k = m \/ k \in 1 .. m - 1
  BY <1>2
<1>14. stack'[1] = stack[1] /\ stack'[2].old = stack[2].old
  BY <1>2, <1>8, <1>9, <1>13
<1>15. \A k \in 2 .. m : stack'[k].fn = "empty" \/ (stack'[k].fn = "sig_cld" /\ disp["CHLD"] = "sig_cld")
  BY <1>2, <1>8, <1>9, <1>12, <1>13
<1>16. MainMask' = MainMask
  BY <1>2, <1>8, <1>14 DEF MainMask
<1>17. Tame'
  BY <1>7, <1>8, <1>10, <1>11, <1>14, <1>15 DEF Tame
<1>. QED  BY <1>7, <1>10, <1>11, <1>14, <1>16, <1>17 DEF Quiet

(* A step of main(): its instruction, and where it goes. *)
LEMMA MainAdvance ==
    ASSUME Machine, Len(stack) = 1, Sig!CanRun, who' = who, Sig!Advance
    PROVE  /\ Len(stack') = 1 /\ stack'[1].ip = stack[1].ip + 1
           /\ ~stack'[1].wait /\ MainMask = mask /\ MainMask' = mask'
<1>1. StackInv' /\ Len(stack') = 1 /\ Sig!Top'.ip = Sig!Top.ip + 1
  BY AdvanceKept
<1>2. Sig!Goto(Sig!Top.ip + 1) /\ Sig!Top.ip + 1 \in Nat \ {0} /\ ~Sig!Top.wait
  BY RunningInstr DEF Sig!Advance
<1>3. ~Sig!Top'.wait
  BY <1>2, GotoKept DEF Machine
<1>4. Sig!Top = stack[1] /\ Sig!Top' = stack'[1]
  BY <1>1 DEF Sig!Top
<1>. QED  BY <1>1, <1>3, <1>4 DEF MainMask

(* Which action an instruction is. *)
LEMMA ActionOf ==
    ASSUME Sig!ProgramStep \/ Sig!Input, ~Sig!Return
    PROVE  /\ Sig!CanRun
           /\ Sig!Instr[1] = "sigaction" => Sig!Sigaction
           /\ Sig!Instr[1] = "mask" => Sig!Sigprocmask
           /\ Sig!Instr[1] = "alarm" => Sig!Alarm
           /\ Sig!Instr[1] = "suspend" => Sig!Suspend
           /\ Sig!Instr[1] = "set" => Sig!Set
           /\ Sig!Instr[1] = "skip" => Sig!Skip
           /\ Sig!Instr[1] = "fork" => Sig!Fork
           /\ Sig!Instr[1] = "waitpid" => Sig!Waitpid
           /\ Sig!Instr[1] = "kill" => Sig!Kill
           /\ Sig!Instr[1] = "setjmp" => Sig!SetJmp
           /\ Sig!Instr[1] = "longjmp" => Sig!LongJump
           /\ Sig!Instr[1] = "read" => Sig!Input
           /\ Sig!Instr[1] \in {"left", "doze", "await"} => Sig!Wakes
BY DEF Sig!ProgramStep, Sig!Input, Sig!Sigaction, Sig!Sigprocmask, Sig!Alarm, Sig!Suspend, Sig!SetJmp,
         Sig!LongJump, Sig!Kill, Sig!Set, Sig!Skip, Sig!Fork, Sig!Waitpid, Sig!Wakes, Sig!At

(* sleep() step by step.                                                   *)
LEMMA SleepMain ==
    ASSUME Machine, Tame, SleepPhase, who = "sleep", Len(stack) = 1, Sig!ProgramStep \/ Sig!Input, ~Sig!Return
    PROVE  Tame' /\ SleepPhase'
<1>. DEFINE c == Sig!Code("sleep")  k == stack[1].ip  b == var.before
<1>1. Sig!Top = stack[1]
  BY DEF Sig!Top
<1>2. Sig!CanRun /\ k \in Nat \ {0} /\ k <= Len(c) /\ Sig!Top.fn = "sleep"
  BY <1>1, ActionOf, RunningInstr
<1>3. IsSleep(c) /\ Sig!Instr = c[k]
  BY <1>1, <1>2, SleepCode DEF Sig!Instr
<1>. HIDE DEF c
<1>4. k \in 1 .. 9
  <2>1. \A x \in Nat \ {0} : x <= 9 => x \in 1 .. 9
    OBVIOUS
  <2>. QED  BY <1>2, <1>3, <2>1 DEF IsSleep
<1>5. disp \in [Sig!Sig -> Acts] /\ DOMAIN var = VarNames
  BY DEF Machine, DataInv, SavedActs
<1>6. ASSUME who' = who, Sig!Advance
      PROVE  Len(stack') = 1 /\ stack'[1].ip = k + 1 /\ ~stack'[1].wait /\ MainMask = mask /\ MainMask' = mask'
  BY <1>2, <1>6, MainAdvance
<1>7. CASE k = 1
  <2>1. Sig!Instr = <<"set", "before", [disp |-> disp, mask |-> mask]>>
    BY <1>3, <1>7 DEF IsSleep
  <2>2. Sig!Set
    BY <2>1, ActionOf
  <2>3. /\ var' = [var EXCEPT !["before"] = [disp |-> disp, mask |-> mask]]
        /\ who' = who /\ Sig!Advance /\ UNCHANGED <<disp, mask, child>>
    BY <2>1, <2>2 DEF Sig!Set, Sig!History
  <2>4. /\ var'.before.disp = disp /\ var'.before.mask = mask
        /\ var'.pid = var.pid /\ var'.oldact = var.oldact /\ var'.oldact2 = var.oldact2
    BY <1>5, <2>3 DEF VarNames
  <2>5. Len(stack') = 1 /\ stack'[1].ip = 2 /\ ~stack'[1].wait /\ MainMask' = mask
    BY <1>6, <1>7, <2>3
  <2>6. SleepPhase'
    BY <1>5, <2>3, <2>4, <2>5 DEF SleepPhase
  <2>7. Tame'
    BY <2>3, <2>4, <2>5 DEF Tame
  <2>. QED  BY <2>6, <2>7
<1>8. CASE k = 2
  <2>1. b.disp \in [Sig!Sig -> Acts] /\ var.pid = 0 /\ disp = b.disp /\ MainMask = b.mask
    BY <1>8 DEF SleepPhase
  <2>2. Sig!Instr = <<"sigaction", "ALRM", "empty", "oldact">>
    BY <1>3, <1>8 DEF IsSleep
  <2>3. Sig!Sigaction
    BY <2>2, ActionOf
  <2>4. /\ var' = [var EXCEPT !["oldact"] = disp["ALRM"]] /\ disp' = [disp EXCEPT !["ALRM"] = "empty"] /\ mask' = mask
        /\ who' = who /\ Sig!Advance
    BY <2>2, <2>3 DEF Sig!Sigaction, Sig!History
  <2>5. /\ var'.before = var.before /\ var'.oldact2 = var.oldact2 /\ var'.oldmask = var.oldmask
        /\ var'.pid = var.pid /\ var'.oldact = disp["ALRM"]
    BY <1>5, <2>4 DEF VarNames
  <2>6. Len(stack') = 1 /\ stack'[1].ip = 3 /\ ~stack'[1].wait /\ MainMask = mask /\ MainMask' = mask'
    BY <1>6, <1>8, <2>4
  <2>7. disp' = [b.disp EXCEPT !["ALRM"] = "empty"] /\ var'.oldact = b.disp["ALRM"] /\ MainMask' = b.mask
    BY <1>5, <2>1, <2>4, <2>5, <2>6
  <2>8. SleepPhase'
    BY <2>1, <2>5, <2>6, <2>7 DEF SleepPhase
  <2>9. Tame'
    BY <1>5, <2>4, <2>5, <2>6 DEF Tame, Mild, Sig!Sig
  <2>. QED  BY <2>8, <2>9
<1>9. CASE k = 3
  <2>1. /\ b.disp \in [Sig!Sig -> Acts] /\ var.pid = 0 /\ disp = [b.disp EXCEPT !["ALRM"] = "empty"]
        /\ var.oldact = b.disp["ALRM"] /\ MainMask = b.mask
    BY <1>9 DEF SleepPhase
  <2>2. Sig!Instr = <<"mask", mask \cup {"ALRM"}, "oldmask">>
    BY <1>3, <1>9 DEF IsSleep
  <2>3. Sig!Sigprocmask
    BY <2>2, ActionOf
  <2>4. /\ var' = [var EXCEPT !["oldmask"] = mask] /\ disp' = disp
        /\ who' = who /\ Sig!Advance
    BY <2>2, <2>3 DEF Sig!Sigprocmask, Sig!History
  <2>5. /\ var'.before = var.before /\ var'.oldact = var.oldact /\ var'.oldact2 = var.oldact2
        /\ var'.pid = var.pid /\ var'.oldmask = mask
    BY <1>5, <2>4 DEF VarNames
  <2>6. Len(stack') = 1 /\ stack'[1].ip = 4 /\ ~stack'[1].wait /\ MainMask = mask /\ MainMask' = mask'
    BY <1>6, <1>9, <2>4
  <2>7. disp' = [b.disp EXCEPT !["ALRM"] = "empty"] /\ var'.oldact = b.disp["ALRM"] /\ var'.oldmask = b.mask
    BY <1>5, <2>1, <2>4, <2>5, <2>6
  <2>8. SleepPhase'
    BY <2>1, <2>5, <2>6, <2>7 DEF SleepPhase
  <2>9. Tame'
    BY <1>5, <2>4, <2>5, <2>6 DEF Tame, Mild, Sig!Sig
  <2>. QED  BY <2>8, <2>9
<1>10. CASE k = 4
  <2>1. /\ b.disp \in [Sig!Sig -> Acts] /\ var.pid = 0 /\ disp = [b.disp EXCEPT !["ALRM"] = "empty"]
        /\ var.oldact = b.disp["ALRM"] /\ var.oldmask = b.mask
    BY <1>10 DEF SleepPhase
  <2>2. Sig!Instr = <<"alarm", Seconds>>
    BY <1>3, <1>10 DEF IsSleep
  <2>3. Sig!Alarm
    BY <2>2, ActionOf
  <2>4. /\ var' = [var EXCEPT !["unslept"] = timer] /\ disp' = disp
        /\ who' = who /\ Sig!Advance
    BY <2>2, <2>3 DEF Sig!Alarm, Sig!History
  <2>5. /\ var'.before = var.before /\ var'.oldact = var.oldact /\ var'.oldact2 = var.oldact2
        /\ var'.oldmask = var.oldmask /\ var'.pid = var.pid
    BY <1>5, <2>4 DEF VarNames
  <2>6. Len(stack') = 1 /\ stack'[1].ip = 5 /\ ~stack'[1].wait /\ MainMask = mask /\ MainMask' = mask'
    BY <1>6, <1>10, <2>4
  <2>7. disp' = [b.disp EXCEPT !["ALRM"] = "empty"] /\ var'.oldact = b.disp["ALRM"] /\ var'.oldmask = b.mask
    BY <1>5, <2>1, <2>4, <2>5, <2>6
  <2>8. SleepPhase'
    BY <2>1, <2>5, <2>6, <2>7 DEF SleepPhase
  <2>9. Tame'
    BY <1>5, <2>4, <2>5, <2>6 DEF Tame, Mild, Sig!Sig
  <2>. QED  BY <2>8, <2>9
<1>11. CASE k = 5
  <2>1. Sig!Instr = <<"suspend", var.oldmask \ {"ALRM"}>>
    BY <1>3, <1>11 DEF IsSleep
  <2>2. Sig!Suspend
    BY <2>1, ActionOf
  <2>3. UNCHANGED <<who, disp, var, child>>
    BY <2>2 DEF Sig!Suspend, Sig!History
  <2>4. Len(stack') = 1 /\ stack'[1].ip = 5
    BY <1>11, <2>2, SuspendKept
  <2>5. SleepPhase'
    BY <1>11, <2>3, <2>4 DEF SleepPhase
  <2>6. Tame'
    BY <2>3, <2>4 DEF Tame
  <2>. QED  BY <2>5, <2>6
<1>12. CASE k = 6
  <2>1. /\ b.disp \in [Sig!Sig -> Acts] /\ var.pid = 0 /\ disp = [b.disp EXCEPT !["ALRM"] = "empty"]
        /\ var.oldact = b.disp["ALRM"] /\ var.oldmask = b.mask
    BY <1>12 DEF SleepPhase
  <2>2. Sig!Instr = <<"alarm", 0>>
    BY <1>3, <1>12 DEF IsSleep
  <2>3. Sig!Alarm
    BY <2>2, ActionOf
  <2>4. /\ var' = [var EXCEPT !["unslept"] = timer] /\ disp' = disp
        /\ who' = who /\ Sig!Advance
    BY <2>2, <2>3 DEF Sig!Alarm, Sig!History
  <2>5. /\ var'.before = var.before /\ var'.oldact = var.oldact /\ var'.oldact2 = var.oldact2
        /\ var'.oldmask = var.oldmask /\ var'.pid = var.pid
    BY <1>5, <2>4 DEF VarNames
  <2>6. Len(stack') = 1 /\ stack'[1].ip = 7 /\ ~stack'[1].wait /\ MainMask = mask /\ MainMask' = mask'
    BY <1>6, <1>12, <2>4
  <2>7. disp' = [b.disp EXCEPT !["ALRM"] = "empty"] /\ var'.oldact = b.disp["ALRM"] /\ var'.oldmask = b.mask
    BY <1>5, <2>1, <2>4, <2>5, <2>6
  <2>8. SleepPhase'
    BY <2>1, <2>5, <2>6, <2>7 DEF SleepPhase
  <2>9. Tame'
    BY <1>5, <2>4, <2>5, <2>6 DEF Tame, Mild, Sig!Sig
  <2>. QED  BY <2>8, <2>9
<1>13. CASE k = 7
  <2>1. /\ b.disp \in [Sig!Sig -> Acts] /\ var.pid = 0 /\ disp = [b.disp EXCEPT !["ALRM"] = "empty"]
        /\ var.oldact = b.disp["ALRM"] /\ var.oldmask = b.mask
    BY <1>13 DEF SleepPhase
  <2>2. Sig!Instr = <<"sigaction", "ALRM", var.oldact, "ret">>
    BY <1>3, <1>13 DEF IsSleep
  <2>3. Sig!Sigaction
    BY <2>2, ActionOf
  <2>4. /\ var' = [var EXCEPT !["ret"] = disp["ALRM"]] /\ disp' = [disp EXCEPT !["ALRM"] = var.oldact] /\ mask' = mask
        /\ who' = who /\ Sig!Advance
    BY <2>2, <2>3 DEF Sig!Sigaction, Sig!History
  <2>5. /\ var'.before = var.before /\ var'.oldact = var.oldact /\ var'.oldact2 = var.oldact2
        /\ var'.oldmask = var.oldmask /\ var'.pid = var.pid
    BY <1>5, <2>4 DEF VarNames
  <2>6. Len(stack') = 1 /\ stack'[1].ip = 8 /\ ~stack'[1].wait /\ MainMask = mask /\ MainMask' = mask'
    BY <1>6, <1>13, <2>4
  <2>7. disp' = b.disp /\ var'.oldmask = b.mask
    BY <1>5, <2>1, <2>4, <2>5, <2>6
  <2>8. SleepPhase'
    BY <2>1, <2>5, <2>6, <2>7 DEF SleepPhase
  <2>9. Tame'
    BY <1>5, <2>4, <2>5, <2>6 DEF Tame, Mild, Sig!Sig
  <2>. QED  BY <2>8, <2>9
<1>14. CASE k = 8
  <2>1. b.disp \in [Sig!Sig -> Acts] /\ var.pid = 0 /\ disp = b.disp /\ var.oldmask = b.mask
    BY <1>14 DEF SleepPhase
  <2>2. Sig!Instr = <<"mask", var.oldmask, "oldmask">>
    BY <1>3, <1>14 DEF IsSleep
  <2>3. Sig!Sigprocmask
    BY <2>2, ActionOf
  <2>4. /\ var' = [var EXCEPT !["oldmask"] = mask] /\ disp' = disp /\ mask' = var.oldmask
        /\ who' = who /\ Sig!Advance
    BY <2>2, <2>3 DEF Sig!Sigprocmask, Sig!History
  <2>5. /\ var'.before = var.before /\ var'.oldact = var.oldact /\ var'.oldact2 = var.oldact2
        /\ var'.pid = var.pid /\ var'.oldmask = mask
    BY <1>5, <2>4 DEF VarNames
  <2>6. Len(stack') = 1 /\ stack'[1].ip = 9 /\ ~stack'[1].wait /\ MainMask = mask /\ MainMask' = mask'
    BY <1>6, <1>14, <2>4
  <2>7. disp' = b.disp /\ MainMask' = b.mask
    BY <1>5, <2>1, <2>4, <2>5, <2>6
  <2>8. SleepPhase'
    BY <2>1, <2>5, <2>6, <2>7 DEF SleepPhase
  <2>9. Tame'
    BY <1>5, <2>4, <2>5, <2>6 DEF Tame, Mild, Sig!Sig
  <2>. QED  BY <2>8, <2>9
<1>15. CASE k = 9
  <2>1. b.disp \in [Sig!Sig -> Acts] /\ var.pid = 0
    BY <1>15 DEF SleepPhase
  <2>2. Sig!Instr = <<"left">>
    BY <1>3, <1>15 DEF IsSleep
  <2>3. Sig!Wakes
    BY <2>2, ActionOf
  <2>4. /\ var' = var /\ disp' = disp
        /\ who' = who /\ Sig!Advance
    BY <2>2, <2>3 DEF Sig!Wakes, Sig!History
  <2>5. /\ var'.before = var.before /\ var'.oldact = var.oldact /\ var'.oldact2 = var.oldact2
        /\ var'.oldmask = var.oldmask /\ var'.pid = var.pid
    BY <1>5, <2>4 DEF VarNames
  <2>6. Len(stack') = 1 /\ stack'[1].ip = 10 /\ ~stack'[1].wait /\ MainMask = mask /\ MainMask' = mask'
    BY <1>6, <1>15, <2>4
  <2>8. SleepPhase'
    BY <2>1, <2>5, <2>6 DEF SleepPhase
  <2>9. Tame'
    BY <1>5, <2>4, <2>5, <2>6 DEF Tame, Mild, Sig!Sig
  <2>. QED  BY <2>8, <2>9
<1>. QED  BY <1>4, <1>7, <1>8, <1>9, <1>10, <1>11, <1>12, <1>13, <1>14, <1>15

(* system() step by step. *)
LEMMA SystemMain ==
    ASSUME Machine, Tame, SystemPhase, who \in {"system2", "system2_reaping"}, Len(stack) = 1,
           Sig!ProgramStep \/ Sig!Input, ~Sig!Return
    PROVE  Tame' /\ SystemPhase'
<1>. DEFINE c == Sig!Code(who)  h == IF who = "system2" THEN "empty" ELSE "sig_cld"  k == stack[1].ip  b == var.before
<1>1. Sig!Top = stack[1]
  BY DEF Sig!Top
<1>2. Sig!CanRun /\ k \in Nat \ {0} /\ k <= Len(c) /\ Sig!Top.fn = who /\ ~Sig!Top.wait
  BY <1>1, ActionOf, RunningInstr
<1>3. IsSystem2(c, h) /\ Sig!Instr = c[k]
  <2>1. c = Sig!MainSystem(Sig!Call(Sig!System2), h)
    BY Zenon DEF Sig!Code
  <2>. QED  BY <1>1, <1>2, <2>1, System2Code DEF Sig!Instr
<1>. HIDE DEF c
<1>4. k \in 1 .. 13
  <2>1. \A x \in Nat \ {0} : x <= 13 => x \in 1 .. 13
    OBVIOUS
  <2>. QED  BY <1>2, <1>3, <2>1 DEF IsSystem2
<1>5. disp \in [Sig!Sig -> Acts] /\ DOMAIN var = VarNames /\ DOMAIN child = ChildNames
  BY DEF Machine, DataInv, SavedActs
<1>6. ASSUME who' = who, Sig!Advance
      PROVE  Len(stack') = 1 /\ stack'[1].ip = k + 1 /\ ~stack'[1].wait /\ MainMask = mask /\ MainMask' = mask'
  BY <1>2, <1>6, MainAdvance
<1>. DEFINE ChildKept == child'.disp = child.disp /\ child'.mask = child.mask
<1>. DEFINE PidPhase == var.pid = 1 => k \notin 1 .. 7 /\ child.disp = b.disp /\ child.mask = b.mask
<1>7. CASE k = 1
  <2>1. PidPhase
    BY <1>7 DEF SystemPhase
  <2>2. Sig!Instr = <<"sigaction", "INT", "empty", "ret">>
    BY <1>3, <1>7 DEF IsSystem2
  <2>3. Sig!Sigaction
    BY <2>2, ActionOf
  <2>4. /\ var' = [var EXCEPT !["ret"] = disp["INT"]] /\ who' = who /\ Sig!Advance
        /\ disp' = [disp EXCEPT !["INT"] = "empty"] /\ mask' = mask /\ child' = child
    BY <2>2, <2>3 DEF Sig!Sigaction, Sig!History
  <2>5. /\ var'.before = var.before /\ var'.oldact = var.oldact /\ var'.oldact2 = var.oldact2
        /\ var'.oldmask = var.oldmask /\ var'.pid = var.pid /\ ChildKept
    BY <1>5, <2>4 DEF VarNames, ChildNames
  <2>6. Len(stack') = 1 /\ stack'[1].ip = 2 /\ ~stack'[1].wait /\ MainMask = mask /\ MainMask' = mask'
    BY <1>6, <1>7, <2>4
  <2>8. SystemPhase'
    BY <1>5, <1>7, <2>1, <2>4, <2>5, <2>6 DEF SystemPhase
  <2>9. Tame'
    BY <1>5, <2>4, <2>5, <2>6 DEF Tame, Mild, Sig!Sig
  <2>. QED  BY <2>8, <2>9
<1>8. CASE k = 2
  <2>1. PidPhase
    BY <1>8 DEF SystemPhase
  <2>2. Sig!Instr = <<"sigaction", "CHLD", h, "ret">>
    BY <1>3, <1>8 DEF IsSystem2
  <2>3. Sig!Sigaction
    BY <2>2, ActionOf
  <2>4. /\ var' = [var EXCEPT !["ret"] = disp["CHLD"]] /\ who' = who /\ Sig!Advance
        /\ disp' = [disp EXCEPT !["CHLD"] = h] /\ mask' = mask /\ child' = child
    BY <2>2, <2>3 DEF Sig!Sigaction, Sig!History
  <2>5. /\ var'.before = var.before /\ var'.oldact = var.oldact /\ var'.oldact2 = var.oldact2
        /\ var'.oldmask = var.oldmask /\ var'.pid = var.pid /\ ChildKept
    BY <1>5, <2>4 DEF VarNames, ChildNames
  <2>6. Len(stack') = 1 /\ stack'[1].ip = 3 /\ ~stack'[1].wait /\ MainMask = mask /\ MainMask' = mask'
    BY <1>6, <1>8, <2>4
  <2>8. SystemPhase'
    BY <1>5, <1>8, <2>1, <2>4, <2>5, <2>6 DEF SystemPhase
  <2>9. Tame'
    BY <1>5, <2>4, <2>5, <2>6 DEF Tame, Mild, Sig!Sig
  <2>. QED  BY <2>8, <2>9
<1>9. CASE k = 3
  <2>1. PidPhase
    BY <1>9 DEF SystemPhase
  <2>2. Sig!Instr = <<"set", "before", [disp |-> disp, mask |-> mask]>>
    BY <1>3, <1>9 DEF IsSystem2
  <2>3. Sig!Set
    BY <2>2, ActionOf
  <2>4. /\ var' = [var EXCEPT !["before"] = [disp |-> disp, mask |-> mask]] /\ who' = who /\ Sig!Advance
        /\ disp' = disp /\ mask' = mask /\ child' = child
    BY <2>2, <2>3 DEF Sig!Set, Sig!History
  <2>5. /\ var'.oldact = var.oldact /\ var'.oldact2 = var.oldact2 /\ var'.oldmask = var.oldmask
        /\ var'.pid = var.pid /\ var'.before.disp = disp /\ var'.before.mask = mask /\ ChildKept
    BY <1>5, <2>4 DEF VarNames, ChildNames
  <2>6. Len(stack') = 1 /\ stack'[1].ip = 4 /\ ~stack'[1].wait /\ MainMask = mask /\ MainMask' = mask'
    BY <1>6, <1>9, <2>4
  <2>8. SystemPhase'
    BY <1>5, <1>9, <2>1, <2>4, <2>5, <2>6 DEF SystemPhase
  <2>9. Tame'
    BY <1>5, <2>4, <2>5, <2>6 DEF Tame, Mild, Sig!Sig
  <2>. QED  BY <2>8, <2>9
<1>10. CASE k = 4
  <2>1. b.disp \in [Sig!Sig -> Acts] /\ disp = b.disp /\ MainMask = b.mask /\ PidPhase
    BY <1>10 DEF SystemPhase
  <2>2. Sig!Instr = <<"sigaction", "INT", "IGN", "oldact">>
    BY <1>3, <1>10 DEF IsSystem2
  <2>3. Sig!Sigaction
    BY <2>2, ActionOf
  <2>4. /\ var' = [var EXCEPT !["oldact"] = disp["INT"]] /\ who' = who /\ Sig!Advance
        /\ disp' = [disp EXCEPT !["INT"] = "IGN"] /\ mask' = mask /\ child' = child
    BY <2>2, <2>3 DEF Sig!Sigaction, Sig!History
  <2>5. /\ var'.before = var.before /\ var'.oldact2 = var.oldact2 /\ var'.oldmask = var.oldmask
        /\ var'.pid = var.pid /\ var'.oldact = disp["INT"] /\ ChildKept
    BY <1>5, <2>4 DEF VarNames, ChildNames
  <2>6. Len(stack') = 1 /\ stack'[1].ip = 5 /\ ~stack'[1].wait /\ MainMask = mask /\ MainMask' = mask'
    BY <1>6, <1>10, <2>4
  <2>7. disp' = [b.disp EXCEPT !["INT"] = "IGN"] /\ var'.oldact = b.disp["INT"] /\ MainMask' = b.mask
    BY <1>5, <2>1, <2>4, <2>5, <2>6 DEF Sig!Sig
  <2>8. SystemPhase'
    BY <1>5, <1>10, <2>1, <2>4, <2>5, <2>6, <2>7 DEF SystemPhase
  <2>9. Tame'
    BY <1>5, <2>4, <2>5, <2>6 DEF Tame, Mild, Sig!Sig
  <2>. QED  BY <2>8, <2>9
<1>11. CASE k = 5
  <2>1. /\ b.disp \in [Sig!Sig -> Acts] /\ disp = [b.disp EXCEPT !["INT"] = "IGN"] /\ var.oldact = b.disp["INT"]
        /\ MainMask = b.mask /\ PidPhase
    BY <1>11 DEF SystemPhase
  <2>2. Sig!Instr = <<"sigaction", "QUIT", "IGN", "oldact2">>
    BY <1>3, <1>11 DEF IsSystem2
  <2>3. Sig!Sigaction
    BY <2>2, ActionOf
  <2>4. /\ var' = [var EXCEPT !["oldact2"] = disp["QUIT"]] /\ who' = who /\ Sig!Advance
        /\ disp' = [disp EXCEPT !["QUIT"] = "IGN"] /\ mask' = mask /\ child' = child
    BY <2>2, <2>3 DEF Sig!Sigaction, Sig!History
  <2>5. /\ var'.before = var.before /\ var'.oldact = var.oldact /\ var'.oldmask = var.oldmask
        /\ var'.pid = var.pid /\ var'.oldact2 = disp["QUIT"] /\ ChildKept
    BY <1>5, <2>4 DEF VarNames, ChildNames
  <2>6. Len(stack') = 1 /\ stack'[1].ip = 6 /\ ~stack'[1].wait /\ MainMask = mask /\ MainMask' = mask'
    BY <1>6, <1>11, <2>4
  <2>7. /\ disp' = [b.disp EXCEPT !["INT"] = "IGN", !["QUIT"] = "IGN"] /\ var'.oldact2 = b.disp["QUIT"]
        /\ MainMask' = b.mask
    BY <1>5, <2>1, <2>4, <2>5, <2>6 DEF Sig!Sig
  <2>8. SystemPhase'
    BY <1>5, <1>11, <2>1, <2>4, <2>5, <2>6, <2>7 DEF SystemPhase
  <2>9. Tame'
    BY <1>5, <2>4, <2>5, <2>6 DEF Tame, Mild, Sig!Sig
  <2>. QED  BY <2>8, <2>9
<1>12. CASE k = 6
  <2>1. /\ b.disp \in [Sig!Sig -> Acts] /\ disp = [b.disp EXCEPT !["INT"] = "IGN", !["QUIT"] = "IGN"]
        /\ var.oldact = b.disp["INT"] /\ var.oldact2 = b.disp["QUIT"] /\ MainMask = b.mask /\ PidPhase
    BY <1>12 DEF SystemPhase
  <2>2. Sig!Instr = <<"mask", mask \cup {"CHLD"}, "oldmask">>
    BY <1>3, <1>12 DEF IsSystem2
  <2>3. Sig!Sigprocmask
    BY <2>2, ActionOf
  <2>4. var' = [var EXCEPT !["oldmask"] = mask] /\ who' = who /\ Sig!Advance /\ disp' = disp /\ child' = child
    BY <2>2, <2>3 DEF Sig!Sigprocmask, Sig!History
  <2>5. /\ var'.before = var.before /\ var'.oldact = var.oldact /\ var'.oldact2 = var.oldact2
        /\ var'.pid = var.pid /\ var'.oldmask = mask /\ ChildKept
    BY <1>5, <2>4 DEF VarNames, ChildNames
  <2>6. Len(stack') = 1 /\ stack'[1].ip = 7 /\ ~stack'[1].wait /\ MainMask = mask /\ MainMask' = mask'
    BY <1>6, <1>12, <2>4
  <2>7. var'.oldmask = b.mask
    BY <1>5, <2>1, <2>4, <2>5, <2>6 DEF Sig!Sig
  <2>8. SystemPhase'
    BY <1>5, <1>12, <2>1, <2>4, <2>5, <2>6, <2>7 DEF SystemPhase
  <2>9. Tame'
    BY <1>5, <2>4, <2>5, <2>6 DEF Tame, Mild, Sig!Sig
  <2>. QED  BY <2>8, <2>9
<1>13. CASE k = 7
  <2>1. /\ b.disp \in [Sig!Sig -> Acts] /\ disp = [b.disp EXCEPT !["INT"] = "IGN", !["QUIT"] = "IGN"]
        /\ var.oldact = b.disp["INT"] /\ var.oldact2 = b.disp["QUIT"] /\ var.oldmask = b.mask /\ PidPhase
    BY <1>13 DEF SystemPhase
  <2>2. Sig!Instr = <<"fork", [disp EXCEPT !["INT"] = var.oldact, !["QUIT"] = var.oldact2], var.oldmask>>
    BY <1>3, <1>13 DEF IsSystem2
  <2>3. Sig!Fork
    BY <2>2, ActionOf
  <2>4. who' = who /\ Sig!Advance /\ disp' = disp /\ mask' = mask
    BY <2>3 DEF Sig!Fork, Sig!History
  <2>5. Len(stack') = 1 /\ stack'[1].ip = 8 /\ ~stack'[1].wait
    BY <1>6, <1>13, <2>4
  <2>6. [disp EXCEPT !["INT"] = var.oldact, !["QUIT"] = var.oldact2] = b.disp
    BY <2>1 DEF Sig!Sig
  <2>7. CASE /\ child' = [status |-> "runs", disp |-> b.disp, mask |-> var.oldmask]
             /\ var' = [var EXCEPT !.pid = 1]
    <3>1. /\ var'.before = b /\ var'.oldact = var.oldact /\ var'.oldact2 = var.oldact2 /\ var'.oldmask = var.oldmask
          /\ child'.disp = b.disp /\ child'.mask = b.mask
      BY <1>5, <2>1, <2>7 DEF VarNames
    <3>. QED  BY <1>13, <2>1, <2>4, <2>5, <3>1 DEF SystemPhase, Tame
  <2>8. CASE var' = [var EXCEPT !.pid = -1, !.status = "failed"]
    <3>1. /\ var'.before = b /\ var'.oldact = var.oldact /\ var'.oldact2 = var.oldact2 /\ var'.oldmask = var.oldmask
          /\ var'.pid # 1
      BY <1>5, <2>8 DEF VarNames
    <3>. QED  BY <1>13, <2>1, <2>4, <2>5, <3>1 DEF SystemPhase, Tame
  <2>. QED  BY <2>2, <2>3, <2>6, <2>7, <2>8 DEF Sig!Fork
<1>14. CASE k = 8
  <2>1. Sig!Instr = <<"skip", var.pid = -1, 1>>
    BY <1>3, <1>14 DEF IsSystem2
  <2>2. Sig!Skip
    BY <2>1, ActionOf
  <2>3. UNCHANGED <<who, disp, mask, var, child>> /\ (Sig!Goto(9) \/ Sig!Goto(10))
    <3>1. UNCHANGED <<who, disp, mask, var, child>> /\ Sig!Goto(8 + 1 + IF Sig!Instr[2] THEN Sig!Instr[3] ELSE 0)
      BY <1>1, <1>14, <2>2 DEF Sig!Skip, Sig!History
    <3>2. Sig!Instr[3] = 1
      BY <2>1
    <3>3. CASE Sig!Instr[2]
      <4>1. 8 + 1 + (IF Sig!Instr[2] THEN Sig!Instr[3] ELSE 0) = 10
        BY <3>2, <3>3
      <4>. QED  BY <3>1, <4>1
    <3>4. CASE ~Sig!Instr[2]
      <4>1. 8 + 1 + (IF Sig!Instr[2] THEN Sig!Instr[3] ELSE 0) = 9
        BY <3>4
      <4>. QED  BY <3>1, <4>1
    <3>. QED  BY <3>3, <3>4
  <2>4. ASSUME NEW ip \in {9, 10}, Sig!Goto(ip)
        PROVE  Len(stack') = 1 /\ stack'[1].ip \in {9, 10} /\ ~stack'[1].wait
    <3>1. ip \in Nat \ {0} /\ who' = who /\ StackInv
      BY <2>3 DEF Machine
    <3>2. Len(stack') = 1 /\ Sig!Top'.ip = ip /\ ~Sig!Top'.wait
      BY <1>2, <2>4, <3>1, GotoKept
    <3>. QED  BY <3>2 DEF Sig!Top
  <2>5. Len(stack') = 1 /\ stack'[1].ip \in {9, 10} /\ ~stack'[1].wait
    BY <2>3, <2>4
  <2>6. SystemPhase'
    BY <1>14, <2>3, <2>5 DEF SystemPhase
  <2>7. Tame'
    BY <2>3, <2>5 DEF Tame
  <2>. QED  BY <2>6, <2>7
<1>15. CASE k = 9
  <2>1. /\ b.disp \in [Sig!Sig -> Acts] /\ disp = [b.disp EXCEPT !["INT"] = "IGN", !["QUIT"] = "IGN"]
        /\ var.oldact = b.disp["INT"] /\ var.oldact2 = b.disp["QUIT"] /\ var.oldmask = b.mask /\ PidPhase
    BY <1>15 DEF SystemPhase
  <2>2. Sig!Instr = <<"waitpid", "status">>
    BY <1>3, <1>15 DEF IsSystem2
  <2>3. Sig!Waitpid
    BY <2>2, ActionOf
  <2>4. /\ var' = [var EXCEPT !["status"] = IF child.status = "zombie" THEN "code" ELSE "error"] /\ who' = who
        /\ Sig!Advance /\ disp' = disp
        /\ child' = [child EXCEPT !.status = IF @ = "zombie" THEN "reaped" ELSE @]
    BY <2>2, <2>3 DEF Sig!Waitpid, Sig!History
  <2>5. /\ var'.before = var.before /\ var'.oldact = var.oldact /\ var'.oldact2 = var.oldact2
        /\ var'.oldmask = var.oldmask /\ var'.pid = var.pid /\ ChildKept
    BY <1>5, <2>4 DEF VarNames, ChildNames
  <2>6. Len(stack') = 1 /\ stack'[1].ip = 10 /\ ~stack'[1].wait /\ MainMask = mask /\ MainMask' = mask'
    BY <1>6, <1>15, <2>4
  <2>8. SystemPhase'
    BY <1>5, <1>15, <2>1, <2>4, <2>5, <2>6 DEF SystemPhase
  <2>9. Tame'
    BY <1>5, <2>4, <2>5, <2>6 DEF Tame, Mild, Sig!Sig
  <2>. QED  BY <2>8, <2>9
<1>16. CASE k = 10
  <2>1. /\ b.disp \in [Sig!Sig -> Acts] /\ disp = [b.disp EXCEPT !["INT"] = "IGN", !["QUIT"] = "IGN"]
        /\ var.oldact = b.disp["INT"] /\ var.oldact2 = b.disp["QUIT"] /\ var.oldmask = b.mask /\ PidPhase
    BY <1>16 DEF SystemPhase
  <2>2. Sig!Instr = <<"sigaction", "INT", var.oldact, "ret">>
    BY <1>3, <1>16 DEF IsSystem2
  <2>3. Sig!Sigaction
    BY <2>2, ActionOf
  <2>4. /\ var' = [var EXCEPT !["ret"] = disp["INT"]] /\ who' = who /\ Sig!Advance
        /\ disp' = [disp EXCEPT !["INT"] = var.oldact] /\ mask' = mask /\ child' = child
    BY <2>2, <2>3 DEF Sig!Sigaction, Sig!History
  <2>5. /\ var'.before = var.before /\ var'.oldact = var.oldact /\ var'.oldact2 = var.oldact2
        /\ var'.oldmask = var.oldmask /\ var'.pid = var.pid /\ ChildKept
    BY <1>5, <2>4 DEF VarNames, ChildNames
  <2>6. Len(stack') = 1 /\ stack'[1].ip = 11 /\ ~stack'[1].wait /\ MainMask = mask /\ MainMask' = mask'
    BY <1>6, <1>16, <2>4
  <2>7. disp' = [b.disp EXCEPT !["QUIT"] = "IGN"]
    BY <1>5, <2>1, <2>4, <2>5, <2>6 DEF Sig!Sig
  <2>8. SystemPhase'
    BY <1>5, <1>16, <2>1, <2>4, <2>5, <2>6, <2>7 DEF SystemPhase
  <2>9. Tame'
    BY <1>5, <2>4, <2>5, <2>6 DEF Tame, Mild, Sig!Sig
  <2>. QED  BY <2>8, <2>9
<1>17. CASE k = 11
  <2>1. /\ b.disp \in [Sig!Sig -> Acts] /\ disp = [b.disp EXCEPT !["QUIT"] = "IGN"]
        /\ var.oldact2 = b.disp["QUIT"] /\ var.oldmask = b.mask /\ PidPhase
    BY <1>17 DEF SystemPhase
  <2>2. Sig!Instr = <<"sigaction", "QUIT", var.oldact2, "ret">>
    BY <1>3, <1>17 DEF IsSystem2
  <2>3. Sig!Sigaction
    BY <2>2, ActionOf
  <2>4. /\ var' = [var EXCEPT !["ret"] = disp["QUIT"]] /\ who' = who /\ Sig!Advance
        /\ disp' = [disp EXCEPT !["QUIT"] = var.oldact2] /\ mask' = mask /\ child' = child
    BY <2>2, <2>3 DEF Sig!Sigaction, Sig!History
  <2>5. /\ var'.before = var.before /\ var'.oldact = var.oldact /\ var'.oldact2 = var.oldact2
        /\ var'.oldmask = var.oldmask /\ var'.pid = var.pid /\ ChildKept
    BY <1>5, <2>4 DEF VarNames, ChildNames
  <2>6. Len(stack') = 1 /\ stack'[1].ip = 12 /\ ~stack'[1].wait /\ MainMask = mask /\ MainMask' = mask'
    BY <1>6, <1>17, <2>4
  <2>7. disp' = b.disp
    BY <1>5, <2>1, <2>4, <2>5, <2>6 DEF Sig!Sig
  <2>8. SystemPhase'
    BY <1>5, <1>17, <2>1, <2>4, <2>5, <2>6, <2>7 DEF SystemPhase
  <2>9. Tame'
    BY <1>5, <2>4, <2>5, <2>6 DEF Tame, Mild, Sig!Sig
  <2>. QED  BY <2>8, <2>9
<1>18. CASE k = 12
  <2>1. b.disp \in [Sig!Sig -> Acts] /\ disp = b.disp /\ var.oldmask = b.mask /\ PidPhase
    BY <1>18 DEF SystemPhase
  <2>2. Sig!Instr = <<"mask", var.oldmask, "oldmask">>
    BY <1>3, <1>18 DEF IsSystem2
  <2>3. Sig!Sigprocmask
    BY <2>2, ActionOf
  <2>4. /\ var' = [var EXCEPT !["oldmask"] = mask] /\ who' = who /\ Sig!Advance /\ disp' = disp
        /\ mask' = var.oldmask /\ child' = child
    BY <2>2, <2>3 DEF Sig!Sigprocmask, Sig!History
  <2>5. /\ var'.before = var.before /\ var'.oldact = var.oldact /\ var'.oldact2 = var.oldact2
        /\ var'.pid = var.pid /\ var'.oldmask = mask /\ ChildKept
    BY <1>5, <2>4 DEF VarNames, ChildNames
  <2>6. Len(stack') = 1 /\ stack'[1].ip = 13 /\ ~stack'[1].wait /\ MainMask = mask /\ MainMask' = mask'
    BY <1>6, <1>18, <2>4
  <2>7. MainMask' = b.mask
    BY <1>5, <2>1, <2>4, <2>5, <2>6 DEF Sig!Sig
  <2>8. SystemPhase'
    BY <1>5, <1>18, <2>1, <2>4, <2>5, <2>6, <2>7 DEF SystemPhase
  <2>9. Tame'
    BY <1>5, <2>4, <2>5, <2>6 DEF Tame, Mild, Sig!Sig
  <2>. QED  BY <2>8, <2>9
<1>19. CASE k = 13
  <2>1. b.disp \in [Sig!Sig -> Acts] /\ PidPhase
    BY <1>19 DEF SystemPhase
  <2>2. Sig!Instr = <<"left">>
    BY <1>3, <1>19 DEF IsSystem2
  <2>3. Sig!Wakes
    BY <2>2, ActionOf
  <2>4. var' = var /\ who' = who /\ Sig!Advance /\ disp' = disp /\ mask' = mask /\ child' = child
    BY <2>2, <2>3 DEF Sig!Wakes, Sig!History
  <2>5. /\ var'.before = var.before /\ var'.oldact = var.oldact /\ var'.oldact2 = var.oldact2
        /\ var'.oldmask = var.oldmask /\ var'.pid = var.pid /\ ChildKept
    BY <1>5, <2>4 DEF VarNames, ChildNames
  <2>6. Len(stack') = 1 /\ stack'[1].ip = 14 /\ ~stack'[1].wait /\ MainMask = mask /\ MainMask' = mask'
    BY <1>6, <1>19, <2>4
  <2>8. SystemPhase'
    BY <1>5, <1>19, <2>1, <2>4, <2>5, <2>6 DEF SystemPhase
  <2>9. Tame'
    BY <1>5, <2>4, <2>5, <2>6 DEF Tame, Mild, Sig!Sig
  <2>. QED  BY <2>8, <2>9
<1>. QED  BY <1>4, <1>7, <1>8, <1>9, <1>10, <1>11, <1>12, <1>13, <1>14, <1>15, <1>16, <1>17, <1>18, <1>19

(* The calls from their start to their end. *)
LEMMA CallerStart == Sig!SigprogInit => CallerInv
<1>. SUFFICES ASSUME Sig!SigprogInit, who \in Callers PROVE CallerInv
  BY DEF CallerInv
<1>1. stack = <<[fn |-> who, ip |-> 1, wait |-> FALSE, old |-> {}]>>
  BY DEF Sig!SigprogInit, Sig!Frame
<1>2. Len(stack) = 1 /\ stack[1].ip = 1 /\ ~stack[1].wait
  BY <1>1
<1>3. var.pid = 0 /\ var.oldact = "DFL" /\ var.oldact2 = "DFL"
  BY DEF Sig!SigprogInit, Sig!NoVars
<1>4. \A s \in Sig!Sig : disp[s] \in Mild
  <2>1. PICK d \in Sig!Inherited(who) : disp = [s \in Sig!Sig |-> IF s \in DOMAIN d THEN d[s] ELSE "DFL"]
    BY DEF Sig!SigprogInit
  <2>2. \A s \in DOMAIN d : d[s] \in Mild
    BY DEF Sig!Inherited, Mild, Callers
  <2>. QED  BY <2>1, <2>2 DEF Mild
<1>5. Tame
  BY <1>2, <1>3, <1>4 DEF Tame, Mild
<1>6. SleepPhase /\ SystemPhase
  BY <1>2, <1>3 DEF SleepPhase, SystemPhase
<1>. QED  BY <1>5, <1>6 DEF CallerInv

(* Every step of every actor keeps the invariant.                          *)
LEMMA CallerStep == Machine /\ CallerInv /\ [Sig!SigprogNext]_sigprogVars => CallerInv'
<1>. SUFFICES ASSUME Machine, CallerInv, [Sig!SigprogNext]_sigprogVars, who' \in Callers PROVE CallerInv'
  BY DEF CallerInv
<1>1. who' = who
  BY DEF sigprogVars, Sig!SigprogNext, Sig!ProgramStep, Sig!Input, Sig!Deliver, Sig!Tick, Sig!ChildEnds,
     Sig!Send, Sig!Sigaction,
         Sig!Sigprocmask, Sig!Alarm, Sig!Suspend, Sig!SetJmp, Sig!LongJump, Sig!Kill, Sig!Set, Sig!Skip,
         Sig!Fork, Sig!Waitpid,
         Sig!Wakes, Sig!Return, Sig!History
<1>2. who \in Callers /\ Tame /\ (IF who = "sleep" THEN SleepPhase ELSE SystemPhase)
  BY <1>1 DEF CallerInv
<1>3. CASE Quiet /\ Tame'
  BY <1>1, <1>2, <1>3, QuietPhase DEF CallerInv
<1>4. CASE UNCHANGED sigprogVars
  BY <1>4, <1>2 DEF sigprogVars, CallerInv, Tame, SleepPhase, SystemPhase, MainMask
<1>5. CASE Sig!Tick \/ Sig!ChildEnds \/ Sig!Send
  BY <1>2, <1>3, <1>5, KernelQuiet
<1>6. CASE Sig!Return
  BY <1>2, <1>3, <1>6, ReturnQuiet
<1>7. CASE Sig!Deliver
  <2>1. /\ Tame'
        /\ Quiet \/ (who = "sleep" /\ stack[1].ip = 5 /\ stack'[1].ip = 6 /\ UNCHANGED <<who, disp, var, child>>)
    BY <1>2, <1>7, DeliverQuiet
  <2>2. CASE who = "sleep" /\ stack[1].ip = 5 /\ stack'[1].ip = 6 /\ UNCHANGED <<who, disp, var, child>>
    <3>1. SleepPhase'
      BY <1>2, <2>2 DEF SleepPhase
    <3>. QED  BY <1>1, <2>1, <2>2, <3>1 DEF CallerInv
  <2>. QED  BY <1>3, <2>1, <2>2
<1>8. CASE (Sig!ProgramStep \/ Sig!Input) /\ ~Sig!Return
  <2>1. CASE Len(stack) # 1
    BY <1>2, <1>3, <1>8, <2>1, HandlerQuiet
  <2>2. CASE Len(stack) = 1 /\ who = "sleep"
    BY <1>1, <1>2, <1>8, <2>2, SleepMain DEF CallerInv
  <2>3. CASE Len(stack) = 1 /\ who # "sleep"
    <3>1. who \in {"system2", "system2_reaping"}
      BY <1>2, <2>3 DEF Callers
    <3>. QED  BY <1>1, <1>2, <1>8, <2>3, <3>1, SystemMain DEF CallerInv
  <2>. QED  BY <2>1, <2>2, <2>3
<1>. QED  BY <1>4, <1>5, <1>6, <1>7, <1>8 DEF Sig!SigprogNext

(* At its return a call has given everything back.                         *)
LEMMA CallerEnd == Machine /\ CallerInv => CallerRestored
<1>. SUFFICES ASSUME Machine, CallerInv, Sig!AtReturn
     PROVE  /\ disp = var.before.disp /\ mask = var.before.mask
            /\ var.pid = 1 => child.disp = var.before.disp /\ child.mask = var.before.mask
  BY DEF CallerRestored, Sig!CallerRestored
<1>. DEFINE k == stack[1].ip
<1>1. Len(stack) = 1 /\ Sig!CanRun /\ Sig!Instr[1] = "left" /\ Sig!Top = stack[1]
  BY DEF Sig!AtReturn, Sig!At, Sig!Top
<1>2. /\ k \in Nat \ {0} /\ k <= Len(Sig!Code(who)) /\ Sig!Top.fn = who
      /\ GoodInstr(who, k, Sig!Instr) /\ Sig!Instr = Sig!Code(who)[k]
  BY <1>1, RunningInstr DEF Sig!Instr
<1>3. who \in Callers
  BY <1>1, <1>2 DEF GoodInstr
<1>4. Tame /\ (IF who = "sleep" THEN SleepPhase ELSE SystemPhase) /\ MainMask = mask
  BY <1>1, <1>3 DEF CallerInv, MainMask
<1>5. CASE who = "sleep"
  <2>1. IsSleep(Sig!Code(who))
    BY <1>5, SleepCode
  <2>2. k \in 1 .. 9
    <3>1. \A x \in Nat \ {0} : x <= 9 => x \in 1 .. 9
      OBVIOUS
    <3>. QED  BY <1>2, <2>1, <3>1 DEF IsSleep
  <2>3. k = 9
    BY <1>1, <1>2, <2>1, <2>2 DEF IsSleep
  <2>. QED  BY <1>4, <1>5, <2>3 DEF SleepPhase
<1>6. CASE who # "sleep"
  <2>. DEFINE c == Sig!Code(who)  h == IF who = "system2" THEN "empty" ELSE "sig_cld"
  <2>1. c = Sig!MainSystem(Sig!Call(Sig!System2), h)
    <3>1. who \in {"system2", "system2_reaping"}
      BY <1>3, <1>6 DEF Callers
    <3>. QED  BY <3>1, Zenon DEF Sig!Code
  <2>2. IsSystem2(c, h)
    BY <2>1, System2Code
  <2>. HIDE DEF c
  <2>3. k \in 1 .. 13 /\ Sig!Instr = c[k]
    <3>1. \A x \in Nat \ {0} : x <= 13 => x \in 1 .. 13
      OBVIOUS
    <3>. QED  BY <1>2, <2>2, <3>1 DEF IsSystem2, c
  <2>4. k = 13
    BY <1>1, <2>2, <2>3 DEF IsSystem2
  <2>. QED  BY <1>4, <1>6, <2>4 DEF SystemPhase
<1>. QED  BY <1>5, <1>6

(* sleep() and system() give the caller back its handlers and its mask,    *)
(* and the command of system() starts with them (lib/sleep.c:40-44,        *)
(* ch10_system2.c:37-40 and 53-63), for every number of signals from       *)
(* outside and every argument of sleep().                                  *)
THEOREM CallerGetsBack == Spec => []CallerRestored
<1>1. Init => Machine /\ CallerInv
  BY MachineStart, CallerStart DEF Init
<1>2. Machine /\ CallerInv /\ [Next]_all => (Machine /\ CallerInv)'
  BY SignalsPart, MachineStep, CallerStep
<1>3. Machine /\ CallerInv => CallerRestored
  BY CallerEnd
<1>. QED  BY <1>1, <1>2, <1>3, PTL DEF Spec

-----------------------------------------------------------------------------
(* How the signal programs end.  The machine's invariant is refined by     *)
(* which handlers and signals belong to which program, and then by what    *)
(* each program's instructions leave behind.                               *)

(* Which handler a program has for which signal, besides SIG_DFL, SIG_IGN. *)
OwnAct(s, h) ==
    \/ h \in {"DFL", "IGN"}
    \/ /\ h = "empty" /\ who \notin {"pause", "alarm", "jobctl", "sigchld", "sigpending"}
       /\ who = "sigjmp" => s = "ALRM"
    \/ h = "sig_int_busy" /\ s = "INT" /\ who = "pause"
    \/ h = "sig_alrm_jump" /\ s = "ALRM" /\ who \in {"pause", "alarm"}
    \/ h = "sig_tstp" /\ s = "TSTP" /\ who = "jobctl"
    \/ h = "sig_cld" /\ s = "CHLD" /\ who \in {"system2_reaping", "system_reaping", "sigchld"}
    \/ h = "sig_int_quit" /\ s = "QUIT" /\ who = "global"
    \/ h = "sig_quit" /\ s = "QUIT" /\ who = "sigpending"
    \/ h = "sig_usr1" /\ s = "USR1" /\ who = "sigjmp"
(* The signals that a program can get.                                     *)
Alarmed == who \in {"sleep", "mysleep", "pause", "alarm", "sigjmp"}
Forking == who \in {"system2", "system2_reaping", "system", "system_reaping", "sigchld"}
Source(s) == \/ s \in Sig!FromOutside
             \/ s = "ALRM" /\ Alarmed
             \/ s = "CHLD" /\ Forking
             \/ s = "ABRT" /\ who = "abort"
SavedSig == IF who = "abort" THEN "ABRT" ELSE IF who \in {"sleep", "mysleep"} THEN "ALRM" ELSE "INT"
OwnInv ==
    /\ \A s \in Sig!Sig : OwnAct(s, disp[s])
    /\ OwnAct(SavedSig, var.oldact) /\ OwnAct("QUIT", var.oldact2)
    /\ \A s \in sig_pending : Source(s)
    /\ timer # 0 => Alarmed
    /\ child.status # "none" => Forking
    /\ \A c \in caught : Source(c.sig)
    /\ \A k \in 2 .. Len(stack) : \E s \in Sig!Sig : Sig!HasCaught(s) /\ OwnAct(s, stack[k].fn)

Unarmed == timer = 0 /\ "ALRM" \notin sig_pending
(* The alarm of sleep() is over when its handler is taken away, unless     *)
(* SIGINT ended the wait, or the caller has a handler of its own.          *)
SleepCall == IF who = "sleep" THEN stack[1].ip - 1 ELSE stack[1].ip
SleepAlarm ==
    LET k == SleepCall
    IN  Sig!HasCaught("INT") \/
        /\ ended # "ALRM"
        /\ k \in 0 .. 9 /\ (stack[1].wait => k = 4)
        /\ k \in 2 .. 6 => disp["ALRM"] = "empty"
        /\ k \notin 2 .. 6 => disp["ALRM"] = "empty" \/ Unarmed
        /\ k \in {2, 3, 5, 6} => var.oldact = "empty" \/ Unarmed
        /\ k = 4 /\ "ALRM" \in sig_pending => var.oldact = "empty" \/ timer = 0

(* abort(): nothing but SIGABRT ends it, and from the second sigaction()   *)
(* on the signal has its default action and cannot be caught again.        *)
AbortPhase ==
    LET k == stack[1].ip
    IN  /\ ended \in {"no", "ABRT"} /\ k \in 1 .. 9 /\ ~stack[1].wait
        /\ k = 2 => var.oldact = disp["ABRT"]
        /\ k = 3 => disp["ABRT"] = "IGN"
        /\ k \in 4 .. 6 => disp["ABRT"] # "IGN"
        /\ k \in 7 .. 9 => Len(stack) = 1 /\ disp["ABRT"] = "DFL"
        /\ k \in 8 .. 9 => "ABRT" \notin mask
        /\ k = 9 /\ ended = "no" => "ABRT" \in sig_pending

(* ch10_jobctl.c: once SIGTSTP is caught it is pending whenever main()     *)
(* runs or the handler returns, so main() never makes another call.        *)
JobctlPhase ==
    IF Sig!HasCaught("TSTP")
    THEN /\ ended = "no" /\ ~stack[1].wait
         /\ \/ Len(stack) = 1 /\ "TSTP" \in sig_pending /\ disp["TSTP"] = "sig_tstp" /\ "TSTP" \notin mask
            \/ /\ Len(stack) = 2 /\ stack[2].ip \in 1 .. 5
               /\ "TSTP" \in mask /\ "TSTP" \notin stack[2].old
               /\ stack[2].ip \in {1, 2, 5} => disp["TSTP"] = "sig_tstp"
               /\ stack[2].ip \in {3, 4} => disp["TSTP"] = "DFL"
               /\ stack[2].ip \in {4, 5} => "TSTP" \in sig_pending
    ELSE Len(stack) = 1 /\ "TSTP" \notin mask /\ ~stack[1].wait

(* system() with the signal calls: SIGCHLD is blocked until the status is  *)
(* taken, and no handler runs while the command does.                      *)
ChildPhase ==
    LET k == stack[1].ip
    IN  /\ k \in 1 .. 14 /\ (ended = "exit" => k = 14)
        /\ k \in 5 .. 10 => Len(stack) = 1
        /\ k \in 7 .. 12 => "CHLD" \in MainMask
        /\ child.status = "none" => "CHLD" \notin sig_pending
        /\ k \in 1 .. 7 => child.status = "none"
        /\ k \in 8 .. 14 => var.pid = 1 \/ (k # 9 /\ var.pid = -1 /\ var.status = "failed" /\ child.status = "none")
        /\ k \in 8 .. 9 /\ var.pid = 1 => child.status \in {"runs", "zombie"}
        /\ k \in 10 .. 14 /\ var.pid = 1 => child.status = "reaped" /\ var.status = "code"
        /\ \A c \in caught : ~c.command

(* ch08_system.c: a handler of SIGCHLD runs after the command has ended,   *)
(* one of them waits at a time, and it or main() gets the status.          *)
Over == child.status \in {"zombie", "reaped"}
ReapMain ==
    LET k == stack[1].ip
    IN  /\ k \in 1 .. 6 /\ (ended = "exit" => k = 6) /\ ~stack[1].wait
        /\ child.status \in {"none", "runs", "zombie", "reaped"}
        /\ k \in 1 .. 3 => child.status = "none" /\ var.pid = 0
        /\ k \in 4 .. 6 => var.pid \in {1, -1} /\ (k = 5 => var.pid = 1)
        /\ k \in 1 .. 5 => var.status # "code"
        /\ var.pid = 1 => child.status # "none" /\ (k = 6 => child.status = "reaped")
        /\ var.pid # 1 => var.status # "code" /\ child.status = "none"
        /\ child.status = "reaped" => (var.status = "code") # (var.reaped = "code")
        /\ child.status # "reaped" => var.status # "code" /\ var.reaped # "code"
        /\ "CHLD" \in sig_pending => Over /\ var.reaped # "code"
Reaping(k) == stack[k].fn = "sig_cld" /\ stack[k].ip \in 1 .. 2
ReapFrames ==
    \A m \in 2 .. Len(stack) : Reaping(m) => /\ Over /\ var.reaped # "code" /\ "CHLD" \notin sig_pending
                                            /\ \A j \in 2 .. Len(stack) : Reaping(j) => m = j
ReapPhase == ReapMain /\ ReapFrames

(* ch10_pause.c and ch10_alarm.c: no alarm before setjmp(), and without    *)
(* SIGINT the handler that jumps is the only one on the stack.             *)
AlarmCall == IF who = "pause" THEN stack[1].ip - 1 ELSE stack[1].ip
AlarmJump ==
    /\ ended # "undefined"
    /\ \/ var.jmp.set
       \/ /\ Unarmed /\ AlarmCall \in 0 .. 2 /\ ~stack[1].wait
          /\ \A m \in 2 .. Len(stack) : stack[m].fn # "sig_alrm_jump"
    /\ Sig!HasCaught("INT") \/ (cut = {} /\ Len(stack) <= 2 /\ (Len(stack) = 2 => "ALRM" \in mask))

(* ch10_sigjmp_func.c: SIGUSR1 cannot come while main() handles it, the    *)
(* alarm cannot be pending unless the handler waits for it.                *)
UsrJmp ==
    /\ stack[1].wait => stack[1].ip = 6
    /\ var.jmp.set => var.jmp.saves /\ "ALRM" \notin var.jmp.mask
    /\ stack[1].ip \notin 1 .. 3 \/ var.flag # 0 => var.jmp.set
UsrFrame == /\ stack[2].fn = "sig_usr1" /\ "ALRM" \notin stack[2].old /\ stack[2].ip \in 1 .. 6
            /\ stack[2].ip \in 2 .. 5 => var.jmp.set
UsrOne == Len(stack) = 1 /\ Unarmed /\ "ALRM" \notin mask \cup OldMask
UsrTwo == /\ Len(stack) = 2 /\ UsrFrame /\ "USR1" \in mask /\ "ALRM" \notin mask
          /\ stack[2].ip # 3 => Unarmed
UsrThree == /\ Len(stack) = 3 /\ UsrFrame /\ stack[2].ip = 3 /\ {"USR1", "ALRM"} \subseteq mask
            /\ stack[3].fn = "empty" /\ "USR1" \in stack[3].old /\ "ALRM" \notin stack[3].old
UsrJump == ended # "undefined" /\ cut = {} /\ UsrJmp /\ (UsrOne \/ UsrTwo \/ UsrThree)

(* The programs without a jump.                                            *)
Stays == ended # "undefined" /\ cut = {}
OutcomeInv ==
    /\ who \in {"sleep", "mysleep"} => SleepAlarm
    /\ who = "abort" => AbortPhase
    /\ who = "jobctl" => JobctlPhase
    /\ who \in {"system2", "system2_reaping"} => ChildPhase
    /\ who = "system_reaping" => ReapPhase
    /\ who \in {"pause", "alarm"} => AlarmJump
    /\ who = "sigjmp" => UsrJump
    /\ who \notin {"pause", "alarm", "sigjmp"} => Stays

(* The program says the arguments of its instructions.                     *)
OwnInstr(fn, c) ==
    /\ c[1] = "sigaction" => /\ OwnAct(c[2], c[3])
                             /\ (c[4] = "oldact" => c[2] = SavedSig) /\ (c[4] = "oldact2" => c[2] = "QUIT")
    /\ c[1] = "set" /\ c[2] = "oldact" => OwnAct(SavedSig, c[3])
    /\ c[1] = "alarm" => Alarmed
    /\ c[1] = "fork" => Forking
    /\ c[1] = "kill" => Source(c[2])
    /\ c[1] = "longjmp" => fn \in {"sig_alrm_jump", "sig_usr1"}
OwnCode(fn) == \A k \in 1 .. Len(Sig!Code(fn)) : OwnInstr(fn, Sig!Code(fn)[k])
OwnSaved == /\ \A s \in Sig!Sig : OwnAct(s, disp[s])
            /\ OwnAct(SavedSig, var.oldact) /\ OwnAct("QUIT", var.oldact2)

LEMMA OwnHandlers ==
    ASSUME OwnSaved, NEW fn \in Handlers, NEW s \in Sig!Sig, OwnAct(s, fn)
    PROVE  OwnCode(fn)
<1>1. CASE fn = "empty"
  BY <1>1 DEF OwnCode, Sig!Code
<1>6. CASE fn = "sig_int_busy"
  BY <1>6 DEF OwnCode, OwnInstr, Sig!Code, Sig!SigIntBusy
<1>7. CASE fn = "sig_int_quit"
  BY <1>7 DEF OwnCode, OwnInstr, Sig!Code, Sig!SigIntQuit
<1>8. CASE fn = "sig_alrm_jump"
  BY <1>8 DEF OwnCode, OwnInstr, Sig!Code, Sig!SigAlrm
<1>2. CASE fn = "sig_tstp"
  <2>1. who = "jobctl"
    BY <1>2 DEF OwnAct
  <2>. QED  BY <1>2, <2>1 DEF OwnCode, OwnInstr, OwnAct, Source, Sig!FromOutside, Sig!Code, Sig!SigTstp
<1>3. CASE fn = "sig_cld"
  <2>1. who \in {"system2_reaping", "system_reaping", "sigchld"}
    BY <1>3 DEF OwnAct
  <2>. QED  BY <1>3, <2>1 DEF OwnCode, OwnInstr, OwnAct, Sig!Code, Sig!SigCld
<1>4. CASE fn = "sig_quit"
  <2>1. who = "sigpending"
    BY <1>4 DEF OwnAct
  <2>. QED  BY <1>4, <2>1 DEF OwnCode, OwnInstr, OwnAct, Sig!Code, Sig!SigQuit
<1>5. CASE fn = "sig_usr1"
  <2>1. who = "sigjmp"
    BY <1>5 DEF OwnAct
  <2>. QED  BY <1>5, <2>1 DEF OwnCode, OwnInstr, Alarmed, Sig!Code, Sig!SigUsr1
<1>. QED  BY <1>1, <1>2, <1>3, <1>4, <1>5, <1>6, <1>7, <1>8 DEF Handlers

LEMMA OwnPrograms ==
    ASSUME OwnSaved, who \in Sig!Programs
    PROVE  OwnCode(who)
<1>. USE DEF OwnInstr, SavedSig, Alarmed, Forking, Sig!Sig, OwnSaved
<1>1. CASE who = "mysleep"
  BY <1>1 DEF OwnCode, OwnAct, Sig!Code, Sig!MySleep, Sig!Sleep
<1>2. CASE who = "alarm"
  BY <1>2 DEF OwnCode, OwnAct, Sig!Code, Sig!MainAlarm
<1>3. CASE who = "abort"
  BY <1>3 DEF OwnCode, OwnAct, Source, Sig!Code, Sig!Abort
<1>4. CASE who = "jobctl"
  BY <1>4 DEF OwnCode, OwnAct, Sig!Code, Sig!MainJobctl
<1>5. CASE who = "sigchld"
  BY <1>5 DEF OwnCode, OwnAct, Sig!Code, Sig!MainSigchld
<1>6. CASE who = "sigsuspend"
  BY <1>6 DEF OwnCode, OwnAct, Sig!Code, Sig!MainSigsuspend
<1>7. CASE who = "global"
  BY <1>7 DEF OwnCode, OwnAct, Sig!Code, Sig!MainGlobal
<1>8. CASE who = "sigpending"
  <2>. DEFINE c == Sig!Code("sigpending")
              st == IF "QUIT" \in sig_pending THEN "pending" ELSE "not_pending"
              m == mask \cup {"QUIT"}
              o == var.oldmask
  <2>1. c = << <<"sigaction", "QUIT", "sig_quit", "ret">>, <<"mask", m, "oldmask">>, <<"doze">>,
               <<"set", "status", st>>, <<"mask", o, "oldmask">>, <<"doze">> >>
    BY DEF Sig!Code, Sig!MainSigpending
  <2>2. OwnAct("QUIT", "sig_quit")
    BY <1>8 DEF OwnAct
  <2>. HIDE DEF st, m, o, c
  <2>3. \A k \in 1 .. Len(c) : OwnInstr(who, c[k])
    BY <2>1, <2>2
  <2>. QED  BY <1>8, <2>3 DEF c, OwnCode
<1>9. CASE who = "sigjmp"
  BY <1>9 DEF OwnCode, OwnAct, Sig!Code, Sig!MainSigjmp
<1>10. CASE who = "signal"
  BY <1>10 DEF OwnCode, OwnAct, Sig!Code, Sig!MainSignal
<1>11. CASE who = "sleep"
  <2>. DEFINE c == Sig!Code("sleep")
  <2>. HIDE DEF c
  <2>1. Len(c) = 9 /\ \A k \in 1 .. 9 : OwnInstr(who, c[k])
    BY <1>11, SleepCode DEF IsSleep, c, OwnAct
  <2>. QED  BY <1>11, <2>1 DEF c, OwnCode
<1>12. CASE who = "pause"
  <2>. DEFINE c == Sig!Code("pause")
  <2>. HIDE DEF c
  <2>1. Len(c) = 7 /\ \A k \in 1 .. 7 : OwnInstr(who, c[k])
    BY <1>12, PauseCode DEF c, OwnAct
  <2>. QED  BY <1>12, <2>1 DEF c, OwnCode
<1>13. CASE who \in {"system2", "system2_reaping"}
  <2>. DEFINE c == Sig!Code(who)  h == IF who = "system2" THEN "empty" ELSE "sig_cld"
  <2>1. c = Sig!MainSystem(Sig!Call(Sig!System2), h)
    BY <1>13 DEF Sig!Code
  <2>2. OwnAct("CHLD", h) /\ OwnAct("INT", "empty") /\ OwnAct("INT", "IGN") /\ OwnAct("QUIT", "IGN")
    BY <1>13 DEF OwnAct
  <2>3. OwnAct("INT", var.oldact) /\ OwnAct("QUIT", var.oldact2) /\ Forking /\ SavedSig = "INT"
    BY <1>13
  <2>. HIDE DEF c, h, OwnInstr, SavedSig, Forking, Alarmed
  <2>4. IsSystem2(c, h)
    BY <2>1, System2Code, Zenon
  <2>5. \A k \in 1 .. 6 : OwnInstr(who, c[k])
    BY <2>2, <2>3, <2>4 DEF OwnInstr, IsSystem2
  <2>6. \A k \in 7 .. 13 : OwnInstr(who, c[k])
    BY <1>13, <2>2, <2>3, <2>4 DEF OwnInstr, IsSystem2
  <2>7. Len(c) = 13 /\ \A k \in 1 .. 13 : k \in 1 .. 6 \/ k \in 7 .. 13
    BY <2>4 DEF IsSystem2
  <2>8. \A k \in 1 .. Len(c) : OwnInstr(who, c[k])
    BY <2>5, <2>6, <2>7
  <2>. QED  BY <2>8 DEF c, OwnCode
<1>14. CASE who \in {"system", "system_reaping"}
  <2>. DEFINE c == Sig!Code(who)  h == IF who = "system" THEN "empty" ELSE "sig_cld"
  <2>1. c = Sig!MainSystem(Sig!PlainSystem, h)
    BY <1>14 DEF Sig!Code
  <2>2. OwnAct("CHLD", h) /\ OwnAct("INT", "empty") /\ Forking
    BY <1>14 DEF OwnAct
  <2>. HIDE DEF c, h, OwnInstr
  <2>4. IsPlain(c, h)
    BY <2>1, PlainCode, Zenon
  <2>5. Len(c) = 5 /\ \A k \in 1 .. 5 : OwnInstr(who, c[k])
    BY <1>14, <2>2, <2>4 DEF OwnInstr, IsPlain
  <2>. QED  BY <2>5 DEF c, OwnCode
<1>. HIDE DEF OwnInstr, SavedSig, Alarmed, Forking, Sig!Sig, OwnSaved
<1>. QED  BY <1>1, <1>2, <1>3, <1>4, <1>5, <1>6, <1>7, <1>8, <1>9, <1>10, <1>11, <1>12, <1>13, <1>14 DEF Sig!Programs

(* What a step of a running function does: the instruction is a tuple, the *)
(* frame goes on to another instruction and the frames below it stay.      *)
Executes == (Sig!ProgramStep \/ Sig!Input) /\ ~Sig!Return
Moved(j) ==
    /\ Len(stack') = Len(stack) /\ stack'[Len(stack)].ip = j /\ ~stack'[Len(stack)].wait
    /\ stack'[Len(stack)].fn = Sig!Top.fn /\ stack'[Len(stack)].old = Sig!Top.old
    /\ \A k \in 1 .. Len(stack) - 1 : stack'[k] = stack[k]
    /\ UNCHANGED <<who, ended, caught, cut>>
Changed(x, v) == var'[x] = v /\ \A y \in VarNames \ {x} : var'[y] = var[y]

LEMMA Advanced ==
    ASSUME Machine, Executes, Sig!Advance, UNCHANGED <<who, ended, caught, cut>>
    PROVE  Moved(Sig!Top.ip + 1)
<1>1. Sig!CanRun
  BY ActionOf DEF Executes
<1>2. Sig!Goto(Sig!Top.ip + 1) /\ Sig!Top.ip + 1 \in Nat \ {0} /\ ~Sig!Top.wait /\ StackInv
  BY <1>1, RunningInstr DEF Sig!Advance, Machine
<1>3. /\ Len(stack') = Len(stack) /\ Sig!Top'.ip = Sig!Top.ip + 1 /\ ~Sig!Top'.wait
      /\ Sig!Top'.fn = Sig!Top.fn /\ Sig!Top'.old = Sig!Top.old
      /\ \A k \in 1 .. Len(stack) - 1 : stack'[k] = stack[k]
  BY <1>2, GotoKept
<1>4. Sig!Top' = stack'[Len(stack)]
  BY <1>3 DEF Sig!Top
<1>. QED  BY <1>3, <1>4 DEF Moved

LEMMA Assigned ==
    ASSUME Machine, NEW x \in VarNames, NEW v, var' = [var EXCEPT ![x] = v]
    PROVE  Changed(x, v)
BY VarSet DEF Machine, DataInv, Changed

LEMMA DoSigaction ==
    ASSUME Machine, Executes, NEW s, NEW h, NEW x \in VarNames, Sig!Instr = <<"sigaction", s, h, x>>
    PROVE  /\ Moved(Sig!Top.ip + 1) /\ disp' = [disp EXCEPT ![s] = h] /\ Changed(x, disp[s])
           /\ sig_pending' = IF h = "IGN" \/ (h = "DFL" /\ s = "CHLD") THEN sig_pending \ {s} ELSE sig_pending
           /\ UNCHANGED <<mask, timer, child>>
<1>1. Sig!Sigaction
  BY ActionOf DEF Executes
<1>2. /\ Sig!Advance /\ UNCHANGED <<who, ended, caught, cut, mask, timer, child>>
      /\ disp' = [disp EXCEPT ![s] = h] /\ var' = [var EXCEPT ![x] = disp[s]]
      /\ sig_pending' = IF h = "IGN" \/ (h = "DFL" /\ s = "CHLD") THEN sig_pending \ {s} ELSE sig_pending
  BY <1>1 DEF Sig!Sigaction, Sig!History
<1>3. Moved(Sig!Top.ip + 1)
  BY <1>2, Advanced
<1>4. Changed(x, disp[s])
  BY <1>2, Assigned
<1>. QED  BY <1>2, <1>3, <1>4

LEMMA DoMask ==
    ASSUME Machine, Executes, NEW m, Sig!Instr = <<"mask", m, "oldmask">>
    PROVE  /\ Moved(Sig!Top.ip + 1) /\ mask' = m /\ Changed("oldmask", mask)
           /\ UNCHANGED <<disp, sig_pending, timer, child>>
<1>1. Sig!Sigprocmask
  BY ActionOf DEF Executes
<1>2. /\ Sig!Advance /\ UNCHANGED <<who, ended, caught, cut, disp, sig_pending, timer, child>>
      /\ mask' = m /\ var' = [var EXCEPT !["oldmask"] = mask]
  BY <1>1 DEF Sig!Sigprocmask, Sig!History
<1>3. Moved(Sig!Top.ip + 1)
  BY <1>2, Advanced
<1>4. Changed("oldmask", mask)
  BY <1>2, Assigned DEF VarNames
<1>. QED  BY <1>2, <1>3, <1>4

LEMMA DoAlarm ==
    ASSUME Machine, Executes, NEW t, Sig!Instr = <<"alarm", t>>
    PROVE  /\ Moved(Sig!Top.ip + 1) /\ timer' = t /\ Changed("unslept", timer)
           /\ UNCHANGED <<disp, mask, sig_pending, child>>
<1>1. Sig!Alarm
  BY ActionOf DEF Executes
<1>2. /\ Sig!Advance /\ UNCHANGED <<who, ended, caught, cut, disp, sig_pending, mask, child>>
      /\ timer' = t /\ var' = [var EXCEPT !["unslept"] = timer]
  BY <1>1 DEF Sig!Alarm, Sig!History
<1>3. Moved(Sig!Top.ip + 1)
  BY <1>2, Advanced
<1>4. Changed("unslept", timer)
  BY <1>2, Assigned DEF VarNames
<1>. QED  BY <1>2, <1>3, <1>4

LEMMA DoSet ==
    ASSUME Machine, Executes, NEW x \in VarNames, NEW v, Sig!Instr = <<"set", x, v>>
    PROVE  Moved(Sig!Top.ip + 1) /\ Changed(x, v) /\ UNCHANGED <<disp, mask, sig_pending, timer, child>>
<1>1. Sig!Set
  BY ActionOf DEF Executes
<1>2. /\ Sig!Advance /\ UNCHANGED <<who, ended, caught, cut, disp, mask, sig_pending, timer, child>>
      /\ var' = [var EXCEPT ![x] = v]
  BY <1>1 DEF Sig!Set, Sig!History
<1>3. Moved(Sig!Top.ip + 1)
  BY <1>2, Advanced
<1>4. Changed(x, v)
  BY <1>2, Assigned
<1>. QED  BY <1>2, <1>3, <1>4

LEMMA DoKill ==
    ASSUME Machine, Executes, NEW s, Sig!Instr = <<"kill", s>>
    PROVE  /\ Moved(Sig!Top.ip + 1) /\ sig_pending' = Sig!Raised(s)
           /\ UNCHANGED <<disp, mask, timer, var, child>>
<1>1. Sig!Kill
  BY ActionOf DEF Executes
<1>2. /\ Sig!Advance /\ UNCHANGED <<who, ended, caught, cut, disp, mask, timer, var, child>>
      /\ sig_pending' = Sig!Raised(s)
  BY <1>1 DEF Sig!Kill, Sig!History
<1>3. Moved(Sig!Top.ip + 1)
  BY <1>2, Advanced
<1>. QED  BY <1>2, <1>3

LEMMA DoWait ==
    ASSUME Machine, Executes, NEW x \in VarNames, Sig!Instr = <<"waitpid", x>>
    PROVE  /\ Moved(Sig!Top.ip + 1) /\ child.status # "runs"
           /\ Changed(x, IF child.status = "zombie" THEN "code" ELSE "error")
           /\ child'.status = IF child.status = "zombie" THEN "reaped" ELSE child.status
           /\ UNCHANGED <<disp, mask, sig_pending, timer>>
<1>1. Sig!Waitpid
  BY ActionOf DEF Executes
<1>2. /\ Sig!Advance /\ UNCHANGED <<who, ended, caught, cut, disp, mask, sig_pending, timer>>
      /\ child.status # "runs" /\ var' = [var EXCEPT ![x] = IF child.status = "zombie" THEN "code" ELSE "error"]
      /\ child' = [child EXCEPT !.status = IF @ = "zombie" THEN "reaped" ELSE @]
  BY <1>1 DEF Sig!Waitpid, Sig!History
<1>3. Moved(Sig!Top.ip + 1)
  BY <1>2, Advanced
<1>4. Changed(x, IF child.status = "zombie" THEN "code" ELSE "error")
  BY <1>2, Assigned
<1>5. child'.status = IF child.status = "zombie" THEN "reaped" ELSE child.status
  BY <1>2 DEF Machine, DataInv, ChildNames
<1>. QED  BY <1>2, <1>3, <1>4, <1>5

LEMMA DoFork ==
    ASSUME Machine, Executes, NEW d, NEW m, Sig!Instr = <<"fork", d, m>>
    PROVE  /\ Moved(Sig!Top.ip + 1) /\ UNCHANGED <<disp, mask, sig_pending, timer>>
           /\ \A y \in VarNames \ {"pid", "status"} : var'[y] = var[y]
           /\ \/ child'.status = "runs" /\ var'.pid = 1 /\ var'.status = var.status
              \/ UNCHANGED child /\ var'.pid = -1 /\ var'.status = "failed"
<1>1. Sig!Fork
  BY ActionOf DEF Executes
<1>2. /\ Sig!Advance /\ UNCHANGED <<who, ended, caught, cut, disp, mask, sig_pending, timer>>
      /\ \/ child'.status = "runs" /\ var' = [var EXCEPT !.pid = 1]
         \/ UNCHANGED child /\ var' = [var EXCEPT !.pid = -1, !.status = "failed"]
  BY <1>1 DEF Sig!Fork, Sig!History
<1>3. Moved(Sig!Top.ip + 1)
  BY <1>2, Advanced
<1>4. /\ \A y \in VarNames \ {"pid", "status"} : var'[y] = var[y]
      /\ \/ child'.status = "runs" /\ var'.pid = 1 /\ var'.status = var.status
         \/ UNCHANGED child /\ var'.pid = -1 /\ var'.status = "failed"
  BY <1>2 DEF Machine, DataInv, VarNames
<1>. QED  BY <1>2, <1>3, <1>4

LEMMA DoSetJmp ==
    ASSUME Machine, Executes, NEW b, Sig!Instr = <<"setjmp", b>>
    PROVE  /\ Moved(Sig!Top.ip + 1) /\ UNCHANGED <<disp, mask, sig_pending, timer, child>>
           /\ Changed("jmp", [set |-> TRUE, depth |-> Len(stack), ip |-> Sig!Top.ip + 1, saves |-> b, mask |-> mask])
<1>. DEFINE j == [set |-> TRUE, depth |-> Len(stack), ip |-> Sig!Top.ip + 1, saves |-> b, mask |-> mask]
<1>1. Sig!SetJmp
  BY ActionOf DEF Executes
<1>2. /\ Sig!Advance /\ UNCHANGED <<who, ended, caught, cut, disp, mask, sig_pending, timer, child>>
      /\ var' = [var EXCEPT !["jmp"] = j]
  BY <1>1 DEF Sig!SetJmp, Sig!History
<1>. HIDE DEF j
<1>3. Moved(Sig!Top.ip + 1)
  BY <1>2, Advanced
<1>4. Changed("jmp", j)
  BY <1>2, Assigned DEF VarNames
<1>. QED  BY <1>2, <1>3, <1>4 DEF j

(* read() and what only waits. *)
LEMMA DoWake ==
    ASSUME Machine, Executes, Sig!Instr[1] \in {"left", "doze", "await", "read"}
    PROVE  /\ Moved(Sig!Top.ip + 1) /\ UNCHANGED <<disp, mask, sig_pending, timer, var, child>>
           /\ Sig!Instr[1] = "await" => Sig!Instr[2]
<1>1. Sig!Wakes \/ Sig!Input
  BY ActionOf DEF Executes
<1>2. /\ Sig!Advance /\ UNCHANGED <<who, ended, caught, cut, disp, mask, sig_pending, timer, var, child>>
      /\ Sig!Instr[1] = "await" => Sig!Instr[2]
  BY <1>1 DEF Sig!Wakes, Sig!Input, Sig!At, Sig!History
<1>3. Moved(Sig!Top.ip + 1)
  BY <1>2, Advanced
<1>. QED  BY <1>2, <1>3

LEMMA DoSkip ==
    ASSUME Machine, Executes, NEW b, NEW d \in Int, Sig!Instr = <<"skip", b, d>>
    PROVE  /\ IF b THEN Moved(Sig!Top.ip + 1 + d) ELSE Moved(Sig!Top.ip + 1)
           /\ UNCHANGED <<disp, mask, sig_pending, timer, var, child>>
<1>1. Sig!Skip /\ Sig!CanRun
  BY ActionOf DEF Executes
<1>2. /\ UNCHANGED <<who, ended, caught, cut, disp, mask, sig_pending, timer, var, child>>
      /\ Sig!Goto(Sig!Top.ip + 1 + IF b THEN d ELSE 0)
  BY <1>1 DEF Sig!Skip, Sig!History
<1>3. ~Sig!Top.wait /\ Sig!Top.ip \in Nat \ {0} /\ Sig!Top.ip + d >= 0 /\ StackInv
  BY <1>1, RunningInstr DEF GoodInstr, Machine
<1>4. ASSUME NEW ip \in Nat \ {0}, Sig!Goto(ip) PROVE Moved(ip)
  <2>1. /\ Len(stack') = Len(stack) /\ Sig!Top'.ip = ip /\ ~Sig!Top'.wait
        /\ Sig!Top'.fn = Sig!Top.fn /\ Sig!Top'.old = Sig!Top.old
        /\ \A k \in 1 .. Len(stack) - 1 : stack'[k] = stack[k]
    BY <1>2, <1>3, <1>4, GotoKept
  <2>2. Sig!Top' = stack'[Len(stack)]
    BY <2>1 DEF Sig!Top
  <2>. QED  BY <1>2, <2>1, <2>2 DEF Moved
<1>. DEFINE k == Sig!Top.ip
<1>5. k \in Nat \ {0} /\ k + d >= 0 /\ Sig!Goto(k + 1 + IF b THEN d ELSE 0)
  BY <1>2, <1>3
<1>. HIDE DEF k
<1>6. CASE b
  <2>1. k + 1 + d \in Nat \ {0} /\ Sig!Goto(k + 1 + d)
    BY <1>5, <1>6
  <2>2. Moved(k + 1 + d)
    BY <1>4, <2>1
  <2>. QED  BY <1>2, <1>6, <2>2 DEF k
<1>7. CASE ~b
  <2>1. k + 1 \in Nat \ {0} /\ Sig!Goto(k + 1)
    <3>1. k + 1 + (IF b THEN d ELSE 0) = k + 1
      BY <1>5, <1>7
    <3>. QED  BY <1>5, <3>1
  <2>2. Moved(k + 1)
    BY <1>4, <2>1
  <2>. QED  BY <1>2, <1>7, <2>2 DEF k
<1>. QED  BY <1>6, <1>7

LEMMA DoSuspend ==
    ASSUME Machine, Executes, NEW m, Sig!Instr = <<"suspend", m>>
    PROVE  /\ Len(stack) = 1 /\ Len(stack') = 1 /\ stack'[1].ip = stack[1].ip /\ stack'[1].old = mask
           /\ mask' = m /\ UNCHANGED <<who, disp, sig_pending, timer, var, child, ended, caught, cut>>
<1>1. Sig!Suspend
  BY ActionOf DEF Executes
<1>2. Len(stack) = 1 /\ Len(stack') = 1 /\ stack'[1].ip = stack[1].ip /\ stack'[1].old = mask
  BY <1>1, SuspendKept
<1>3. mask' = m /\ UNCHANGED <<who, disp, sig_pending, timer, var, child, ended, caught, cut>>
  BY <1>1 DEF Sig!Suspend, Sig!History
<1>. QED  BY <1>2, <1>3

LEMMA DoLongJump ==
    ASSUME Machine, Executes, Sig!Instr[1] = "longjmp"
    PROVE  /\ UNCHANGED <<who, disp, sig_pending, timer, child, caught>>
           /\ \/ /\ var.jmp.set /\ Len(stack') = 1 /\ stack'[1].ip = var.jmp.ip /\ ~stack'[1].wait
                 /\ mask' = (IF var.jmp.saves THEN var.jmp.mask ELSE mask) /\ Changed("jumped", TRUE)
                 /\ cut' = cut \cup {stack[k].fn : k \in 2 .. Len(stack) - 1} /\ UNCHANGED ended
              \/ ~var.jmp.set /\ ended' = "undefined" /\ UNCHANGED <<stack, mask, var, cut>>
<1>1. Sig!LongJump
  BY ActionOf DEF Executes
<1>2. UNCHANGED <<who, disp, sig_pending, timer, child, caught>>
  BY <1>1 DEF Sig!LongJump
<1>3. CASE ~var.jmp.set /\ ended' = "undefined" /\ UNCHANGED <<stack, mask, var, cut>>
  BY <1>2, <1>3
<1>4. CASE /\ var.jmp.set
           /\ stack' = [SubSeq(stack, 1, var.jmp.depth) EXCEPT
                            ![var.jmp.depth].ip = var.jmp.ip, ![var.jmp.depth].wait = FALSE]
           /\ mask' = IF var.jmp.saves THEN var.jmp.mask ELSE mask
           /\ var' = [var EXCEPT !.jumped = TRUE]
           /\ cut' = cut \cup {stack[k].fn : k \in var.jmp.depth + 1 .. Len(stack) - 1}
           /\ UNCHANGED ended
  <2>1. var.jmp.depth = 1 /\ var.jmp.ip \in Nat \ {0} /\ StackInv
    BY <1>4 DEF Machine, DataInv, JumpInv
  <2>2. stack' = [SubSeq(stack, 1, 1) EXCEPT ![1].ip = var.jmp.ip, ![1].wait = FALSE]
    BY <1>4, <2>1
  <2>3. Len(stack') = 1 /\ stack'[1].ip = var.jmp.ip /\ ~stack'[1].wait
    BY <1>2, <2>1, <2>2, JumpKept
  <2>4. Changed("jumped", TRUE)
    BY <1>4, Assigned DEF VarNames
  <2>5. cut' = cut \cup {stack[k].fn : k \in 2 .. Len(stack) - 1}
    <3>1. var.jmp.depth + 1 = 2
      BY <2>1
    <3>. QED  BY <1>4, <3>1
  <2>. QED  BY <1>2, <1>4, <2>3, <2>4, <2>5
<1>. QED  BY <1>1, <1>3, <1>4 DEF Sig!LongJump

(* What the kernel's steps do.                                             *)
Gains(s) == sig_pending \subseteq sig_pending' /\ sig_pending' \subseteq sig_pending \cup {s}
Kernel == Sig!Tick \/ Sig!ChildEnds \/ Sig!Send
LEMMA KernelDoes ==
    ASSUME Machine, Kernel
    PROVE  /\ UNCHANGED <<who, stack, disp, mask, var, ended, caught, cut>>
           /\ \/ timer # 0 /\ UNCHANGED <<child, sig_pending>>
              \/ timer # 0 /\ timer' = 0 /\ UNCHANGED child /\ Gains("ALRM")
              \/ child.status = "runs" /\ child'.status = "zombie" /\ UNCHANGED timer /\ Gains("CHLD")
              \/ UNCHANGED <<timer, child>> /\ \E s \in Sig!FromOutside : Gains(s)
<1>1. UNCHANGED <<who, stack, disp, mask, var, ended, caught, cut>>
  BY DEF Kernel, Sig!Tick, Sig!ChildEnds, Sig!Send, Sig!History
<1>2. ASSUME NEW s, sig_pending' = Sig!Raised(s) PROVE Gains(s)
  BY <1>2 DEF Gains, Sig!Raised
<1>3. CASE Sig!Tick
  <2>1. timer > 0 /\ timer' = timer - 1 /\ UNCHANGED child
        /\ sig_pending' = IF timer = 1 THEN Sig!Raised("ALRM") ELSE sig_pending
    BY <1>3 DEF Sig!Tick
  <2>2. timer # 0 /\ (timer = 1 => timer' = 0)
    BY <2>1
  <2>. QED  BY <1>1, <1>2, <2>1, <2>2
<1>4. CASE Sig!ChildEnds
  <2>1. child'.status = "zombie"
    BY <1>4 DEF Sig!ChildEnds, Machine, DataInv, ChildNames
  <2>. QED  BY <1>1, <1>2, <1>4, <2>1 DEF Sig!ChildEnds
<1>5. CASE Sig!Send
  BY <1>1, <1>2, <1>5 DEF Sig!Send
<1>. QED  BY <1>3, <1>4, <1>5 DEF Kernel

(* A signal is caught, ignored or ends the process.                        *)
Handled(s) ==
    /\ disp[s] \in Handlers /\ mask' = mask \cup {s} /\ UNCHANGED ended
    /\ caught' = caught \cup {[sig |-> s, waiting |-> stack[1].wait, command |-> child.status = "runs"]}
    /\ Len(stack') = Len(stack) + 1 /\ ~stack'[1].wait
    /\ stack'[Len(stack) + 1].fn = disp[s] /\ stack'[Len(stack) + 1].ip = 1
    /\ stack'[Len(stack) + 1].old = OldMask
    /\ stack'[Len(stack)].ip = (IF Sig!Top.wait THEN Sig!Top.ip + 1 ELSE Sig!Top.ip)
    /\ stack'[Len(stack)].fn = Sig!Top.fn /\ stack'[Len(stack)].old = Sig!Top.old
    /\ \A k \in 1 .. Len(stack) - 1 : stack'[k] = stack[k]
Dropped(s) == Sig!Ignored(s) /\ UNCHANGED <<stack, mask, ended, caught>>
Kills(s) == disp[s] = "DFL" /\ ended' = (IF s = "TSTP" THEN "stop" ELSE s) /\ UNCHANGED <<stack, mask, caught>>
LEMMA DeliverDoes ==
    ASSUME Machine, Sig!Deliver
    PROVE  \E s \in Sig!Sig :
             /\ ended = "no" /\ s \in sig_pending /\ s \notin mask /\ sig_pending' = sig_pending \ {s}
             /\ UNCHANGED <<who, disp, timer, var, child, cut>>
             /\ Handled(s) \/ Dropped(s) \/ Kills(s)
<1>1. PICK s \in Sig!Deliverable :
        /\ ended = "no" /\ sig_pending' = sig_pending \ {s}
        /\ \/ /\ disp[s] \notin {"DFL", "IGN"} /\ Caught(s) /\ mask' = mask \cup {s} /\ UNCHANGED ended
              /\ caught' = caught \cup {[sig |-> s, waiting |-> stack[1].wait, command |-> child.status = "runs"]}
           \/ Sig!Ignored(s) /\ UNCHANGED <<stack, mask, ended, caught>>
           \/ /\ disp[s] = "DFL" /\ ended' = (IF s = "TSTP" THEN "stop" ELSE s)
              /\ UNCHANGED <<stack, mask, caught>>
        /\ UNCHANGED <<who, disp, timer, var, child, cut>>
  BY Zenon DEF Sig!Deliver, Caught, OldMask, Pushed, Replaced, Interrupted, Sig!Here
<1>2. s \in Sig!Sig /\ s \in sig_pending /\ s \notin mask /\ disp[s] \in Acts
  BY DEF Machine, DataInv, SavedActs, Sig!Deliverable
<1>3. CASE /\ disp[s] \notin {"DFL", "IGN"} /\ Caught(s) /\ mask' = mask \cup {s} /\ UNCHANGED ended
           /\ caught' = caught \cup {[sig |-> s, waiting |-> stack[1].wait, command |-> child.status = "runs"]}
  <2>1. disp[s] \in Handlers
    BY <1>2, <1>3 DEF Acts
  <2>2. /\ StackInv' /\ Len(stack') = Len(stack) + 1
        /\ stack'[Len(stack) + 1] = Sig!Frame(disp[s], OldMask)
        /\ stack'[Len(stack)].ip = (IF Sig!Top.wait THEN Sig!Top.ip + 1 ELSE Sig!Top.ip)
        /\ stack'[Len(stack)].old = Sig!Top.old /\ stack'[Len(stack)].fn = Sig!Top.fn
        /\ \A k \in 1 .. Len(stack) - 1 : stack'[k] = stack[k]
    BY <1>1, <1>3, <2>1, PushKept DEF Machine, Caught
  <2>3. /\ stack'[Len(stack) + 1].fn = disp[s] /\ stack'[Len(stack) + 1].ip = 1
        /\ stack'[Len(stack) + 1].old = OldMask
    BY <2>2 DEF Sig!Frame
  <2>4. ~stack'[1].wait
    <3>1. Len(stack) \in Nat /\ Len(stack) >= 1
      BY StackLength DEF Machine, StackInv
    <3>2. 1 \in 1 .. Len(stack') /\ Len(stack') # 1
      BY <2>2, <3>1
    <3>. QED  BY <2>2, <3>2 DEF StackInv
  <2>5. Handled(s)
    BY <1>3, <2>1, <2>2, <2>3, <2>4 DEF Handled
  <2>. QED  BY <1>1, <1>2, <2>5
<1>4. CASE Sig!Ignored(s) /\ UNCHANGED <<stack, mask, ended, caught>>
  BY <1>1, <1>2, <1>4 DEF Dropped
<1>5. CASE disp[s] = "DFL" /\ ended' = (IF s = "TSTP" THEN "stop" ELSE s) /\ UNCHANGED <<stack, mask, caught>>
  BY <1>1, <1>2, <1>5 DEF Kills
<1>. QED  BY <1>1, <1>3, <1>4, <1>5

LEMMA ReturnDoes ==
    ASSUME Machine, Sig!Return
    PROVE  /\ ended = "no" /\ Sig!Deliverable = {} /\ Sig!Top.ip > Len(Sig!Code(Sig!Top.fn))
           /\ UNCHANGED <<who, disp, sig_pending, timer, var, child, caught, cut>>
           /\ \/ /\ Len(stack) > 1 /\ Len(stack') = Len(stack) - 1 /\ mask' = Sig!Top.old /\ UNCHANGED ended
                 /\ \A k \in 1 .. Len(stack) - 1 : stack'[k] = stack[k]
              \/ Len(stack) = 1 /\ ended' = "exit" /\ UNCHANGED <<stack, mask>>
<1>1. /\ ended = "no" /\ Sig!Deliverable = {} /\ Sig!Top.ip > Len(Sig!Code(Sig!Top.fn))
      /\ UNCHANGED <<who, disp, sig_pending, timer, var, child, caught, cut>>
  BY DEF Sig!Return, Sig!History
<1>2. CASE /\ Len(stack) > 1 /\ mask' = Sig!Top.old
           /\ stack' = SubSeq(stack, 1, Len(stack) - 1) /\ UNCHANGED ended
  <2>1. Len(stack') = Len(stack) - 1 /\ \A k \in 1 .. Len(stack) - 1 : stack'[k] = stack[k]
    BY <1>1, <1>2, FramePopped DEF Machine
  <2>. QED  BY <1>1, <1>2, <2>1
<1>3. CASE Len(stack) = 1 /\ ended' = "exit" /\ UNCHANGED <<stack, mask>>
  BY <1>1, <1>3
<1>. QED  BY <1>2, <1>3 DEF Sig!Return

LEMMA OneOf ==
    ASSUME [Sig!SigprogNext]_sigprogVars
    PROVE  UNCHANGED sigprogVars \/ Kernel \/ Sig!Deliver \/ Sig!Return \/ Executes
BY DEF Sig!SigprogNext, Kernel, Executes, Sig!ProgramStep

(* The instruction that runs has arguments of its program.                 *)
LEMMA OwnRunning ==
    ASSUME Machine, OwnInv, Sig!CanRun
    PROVE  OwnInstr(Sig!Top.fn, Sig!Instr)
<1>1. OwnCode(Sig!Top.fn)
  <2>1. OwnSaved
    BY DEF OwnInv, OwnSaved
  <2>2. CASE Len(stack) = 1
    <3>1. Sig!Top.fn = who /\ who \in Sig!Programs
      BY <2>2, RunningInstr DEF Machine, StackInv
    <3>. QED  BY <2>1, <3>1, OwnPrograms
  <2>3. CASE Len(stack) \in 2 .. Len(stack)
    <3>1. Sig!Top.fn \in Handlers /\ \E s \in Sig!Sig : OwnAct(s, Sig!Top.fn)
      BY <2>3 DEF Machine, StackInv, OwnInv, Sig!Top
    <3>. QED  BY <2>1, <3>1, OwnHandlers
  <2>. QED  BY <2>2, <2>3, StackLength DEF Machine
<1>2. Sig!Top.ip \in Nat \ {0} /\ Sig!Top.ip <= Len(Sig!Code(Sig!Top.fn)) /\ GoodCode(Sig!Top.fn)
  <2>1. Sig!Top.fn \in Sig!Programs \/ Sig!Top.fn \in Handlers
    BY StackLength DEF Machine, StackInv, Sig!Top
  <2>. QED  BY <2>1, RunningInstr, GoodHandlers, GoodPrograms DEF Machine, DataInv
<1>3. Sig!Top.ip \in 1 .. Len(Sig!Code(Sig!Top.fn))
  BY <1>2 DEF GoodCode
<1>. QED  BY <1>1, <1>3 DEF OwnCode, Sig!Instr

(* A step of a function starts no handler. *)
Steady == /\ UNCHANGED <<who, caught>>
          /\ \A k \in 2 .. Len(stack') : k \in 2 .. Len(stack) /\ stack'[k].fn = stack[k].fn
LEMMA MovedSteady ==
    ASSUME StackInv, NEW j, Moved(j)
    PROVE  Steady
<1>. DEFINE m == Len(stack)
<1>1. m \in Nat /\ Sig!Top = stack[m] /\ m = Len(stack)
  BY StackLength DEF Sig!Top
<1>. HIDE DEF m
<1>2. \A k \in 2 .. m : k = m \/ k \in 1 .. m - 1
  BY <1>1
<1>. QED  BY <1>1, <1>2 DEF Moved, Steady

LEMMA ExecutesSteady == Machine /\ Executes => Steady
<1>. SUFFICES ASSUME Machine, Executes PROVE Steady
  OBVIOUS
<1>1. CASE Sig!Advance /\ UNCHANGED <<who, ended, caught, cut>>
  BY <1>1, Advanced, MovedSteady DEF Machine
<1>2. CASE UNCHANGED <<who, caught, stack>>
  BY <1>2 DEF Steady
<1>3. CASE Sig!Suspend
  <2>1. Len(stack') = 1 /\ UNCHANGED <<who, caught>>
    BY <1>3, SuspendKept DEF Sig!Suspend, Sig!History
  <2>. QED  BY <2>1 DEF Steady
<1>4. CASE Sig!LongJump
  <2>1. Sig!Instr[1] = "longjmp"
    BY <1>4 DEF Sig!LongJump, Sig!At
  <2>2. UNCHANGED <<who, caught>> /\ (Len(stack') = 1 \/ stack' = stack)
    BY <2>1, DoLongJump
  <2>. QED  BY <1>2, <2>2 DEF Steady
<1>5. CASE Sig!Skip
  <2>1. Sig!Instr[1] = "skip" /\ Sig!CanRun
    BY <1>5 DEF Sig!Skip, Sig!At
  <2>2. GoodInstr(Sig!Top.fn, Sig!Top.ip, Sig!Instr) /\ ~Sig!Top.wait /\ Sig!Top.ip \in Nat \ {0}
    BY <2>1, RunningInstr
  <2>3. Sig!Instr[3] \in Int /\ Sig!Top.ip + Sig!Instr[3] >= 0
    BY <2>1, <2>2 DEF GoodInstr
  <2>4. UNCHANGED <<who, ended, caught, cut>> /\ Sig!Goto(Sig!Top.ip + 1 + IF Sig!Instr[2] THEN Sig!Instr[3] ELSE 0)
    BY <1>5 DEF Sig!Skip, Sig!History
  <2>. DEFINE k == Sig!Top.ip  d == IF Sig!Instr[2] THEN Sig!Instr[3] ELSE 0
  <2>5. d \in Int /\ k \in Nat \ {0} /\ k + d >= 0
    BY <2>2, <2>3
  <2>. HIDE DEF k, d
  <2>6. k + 1 + d \in Nat \ {0}
    BY <2>5
  <2>7. Sig!Goto(k + 1 + d)
    BY <2>4 DEF k, d
  <2>8. /\ Len(stack') = Len(stack) /\ Sig!Top'.fn = Sig!Top.fn
        /\ \A x \in 1 .. Len(stack) - 1 : stack'[x] = stack[x]
    BY <2>2, <2>4, <2>6, <2>7, GotoKept DEF Machine
  <2>. DEFINE m == Len(stack)
  <2>9. m \in Nat /\ Sig!Top = stack[m] /\ Sig!Top' = stack'[m] /\ m = Len(stack)
    BY <2>8, StackLength DEF Sig!Top, Machine
  <2>. HIDE DEF m
  <2>10. \A x \in 2 .. m : x = m \/ x \in 1 .. m - 1
    BY <2>9
  <2>. QED  BY <2>4, <2>8, <2>9, <2>10 DEF Steady
<1>6. Sig!Skip \/ Sig!LongJump \/ Sig!Suspend \/ (Sig!Advance /\ UNCHANGED <<who, ended, caught, cut>>)
  BY DEF Executes, Sig!ProgramStep, Sig!Input, Sig!Sigaction, Sig!Sigprocmask, Sig!Alarm, Sig!SetJmp, Sig!Kill,
     Sig!Set, Sig!Fork, Sig!Waitpid, Sig!Wakes, Sig!History
<1>. QED  BY <1>1, <1>3, <1>4, <1>5, <1>6

(* What no step that starts no handler changes. *)
OwnRest == /\ OwnSaved
           /\ \A s \in sig_pending : Source(s)
           /\ timer # 0 => Alarmed
           /\ child.status # "none" => Forking
LEMMA OwnSteady ==
    ASSUME OwnInv, Steady, OwnRest'
    PROVE  OwnInv'
<1>1. \A s : Sig!HasCaught(s)' <=> Sig!HasCaught(s)
  BY DEF Steady, Sig!HasCaught
<1>2. \A s : Source(s)' <=> Source(s)
  BY DEF Steady, Source, Alarmed, Forking, Sig!FromOutside
<1>3. \A c \in caught' : Source(c.sig)'
  BY <1>2 DEF Steady, OwnInv
<1>4. ASSUME NEW k \in 2 .. Len(stack')
      PROVE  (\E s \in Sig!Sig : Sig!HasCaught(s) /\ OwnAct(s, stack[k].fn))'
  <2>1. k \in 2 .. Len(stack) /\ stack'[k].fn = stack[k].fn /\ who' = who
    BY <1>4 DEF Steady
  <2>2. PICK s \in Sig!Sig : Sig!HasCaught(s) /\ OwnAct(s, stack[k].fn)
    BY <2>1 DEF OwnInv
  <2>3. OwnAct(s, stack[k].fn)'
    BY <2>1, <2>2 DEF OwnAct
  <2>. QED  BY <1>1, <2>2, <2>3
<1>5. (\A k \in 2 .. Len(stack) : \E s \in Sig!Sig : Sig!HasCaught(s) /\ OwnAct(s, stack[k].fn))'
  BY <1>4
<1>. QED  BY <1>3, <1>5 DEF OwnRest, OwnInv, OwnSaved

LEMMA OwnExecutes == Machine /\ OwnInv /\ Executes => OwnInv'
<1>. SUFFICES ASSUME Machine, OwnInv, Executes PROVE OwnInv'
  OBVIOUS
<1>1. Steady
  BY ExecutesSteady
<1>. DEFINE c == Sig!Instr
<1>2. OwnInstr(Sig!Top.fn, c) /\ GoodInstr(Sig!Top.fn, Sig!Top.ip, c)
  BY OwnRunning, RunningInstr, ActionOf DEF Executes
<1>3. \A s, h : OwnAct(s, h)' <=> OwnAct(s, h)
  BY <1>1 DEF Steady, OwnAct
<1>4. (\A s : Source(s)' <=> Source(s)) /\ (Alarmed' <=> Alarmed) /\ (Forking' <=> Forking) /\ SavedSig' = SavedSig
  BY <1>1 DEF Steady, Source, Alarmed, Forking, Sig!FromOutside, SavedSig
<1>5. DOMAIN var = VarNames /\ disp \in [Sig!Sig -> Acts] /\ OwnRest /\ SavedSig \in Sig!Sig
  BY DEF Machine, DataInv, SavedActs, OwnInv, OwnRest, OwnSaved, SavedSig, Sig!Sig
<1>. HIDE DEF c
<1>6. ASSUME UNCHANGED disp, \A y \in {"oldact", "oldact2"} : var'[y] = var[y], sig_pending' \subseteq sig_pending,
             timer' # 0 => Alarmed, child'.status # "none" => Forking
      PROVE  OwnRest'
  BY <1>3, <1>4, <1>5, <1>6 DEF OwnRest, OwnSaved
<1>7. CASE Sig!Sigaction
  <2>1. c[1] = "sigaction"
    BY <1>7 DEF Sig!Sigaction, Sig!At, c
  <2>. DEFINE s == c[2]  h == c[3]  x == c[4]
  <2>2. OwnAct(s, h) /\ (x = "oldact" => s = SavedSig) /\ (x = "oldact2" => s = "QUIT")
    BY <1>2, <2>1 DEF OwnInstr
  <2>3. s \in Sig!Sig /\ x \in {"oldact", "oldact2", "ret"}
    BY <1>2, <2>1 DEF GoodInstr
  <2>4. /\ disp' = [disp EXCEPT ![s] = h] /\ var' = [var EXCEPT ![x] = disp[s]]
        /\ sig_pending' \subseteq sig_pending /\ UNCHANGED <<timer, child>>
    BY <1>7 DEF Sig!Sigaction, c
  <2>. HIDE DEF s, h, x
  <2>5. \A t \in Sig!Sig : OwnAct(t, disp'[t])
    BY <1>5, <2>2, <2>4 DEF OwnRest, OwnSaved
  <2>6. OwnAct(SavedSig, var'["oldact"]) /\ OwnAct("QUIT", var'["oldact2"])
    <3>1. x \in VarNames
      BY <2>3 DEF VarNames
    <3>2. Changed(x, disp[s])
      BY <2>4, <3>1, Assigned
    <3>3. OwnAct(s, disp[s]) /\ OwnAct(SavedSig, var["oldact"]) /\ OwnAct("QUIT", var["oldact2"])
      BY <1>5, <2>3 DEF OwnRest, OwnSaved
    <3>. QED  BY <2>2, <3>2, <3>3 DEF Changed, VarNames
  <2>7. OwnRest'
    BY <1>3, <1>4, <1>5, <2>4, <2>5, <2>6 DEF OwnRest, OwnSaved
  <2>. QED  BY <1>1, <2>7, OwnSteady
<1>8. CASE Sig!Set
  <2>1. c[1] = "set" /\ var' = [var EXCEPT ![c[2]] = c[3]] /\ UNCHANGED <<disp, sig_pending, timer, child>>
    BY <1>8 DEF Sig!Set, Sig!At, c
  <2>2. c[2] \in {"before", "oldact", "status", "flag"} /\ (c[2] = "oldact" => OwnAct(SavedSig, c[3]))
    BY <1>2, <2>1 DEF OwnInstr, GoodInstr
  <2>3. Changed(c[2], c[3])
    <3>1. c[2] \in VarNames
      BY <2>2 DEF VarNames
    <3>. QED  BY <2>1, <3>1, Assigned
  <2>4. OwnAct(SavedSig, var'["oldact"]) /\ var'["oldact2"] = var["oldact2"]
    BY <1>5, <2>2, <2>3 DEF Changed, VarNames, OwnRest, OwnSaved
  <2>5. OwnRest'
    BY <1>3, <1>4, <1>5, <2>1, <2>4 DEF OwnRest, OwnSaved
  <2>. QED  BY <1>1, <2>5, OwnSteady
<1>9. CASE Sig!Alarm
  <2>1. c[1] = "alarm" /\ var' = [var EXCEPT !["unslept"] = timer] /\ UNCHANGED <<disp, sig_pending, child>>
    BY <1>9 DEF Sig!Alarm, Sig!At, c
  <2>2. Alarmed
    BY <1>2, <2>1 DEF OwnInstr
  <2>3. Changed("unslept", timer)
    BY <2>1, Assigned DEF VarNames
  <2>4. \A y \in {"oldact", "oldact2"} : var'[y] = var[y]
    BY <2>3 DEF Changed, VarNames
  <2>5. OwnRest'
    BY <1>5, <1>6, <2>1, <2>2, <2>4 DEF OwnRest
  <2>. QED  BY <1>1, <2>5, OwnSteady
<1>10. CASE Sig!Fork
  <2>1. /\ c[1] = "fork" /\ UNCHANGED <<disp, sig_pending, timer>>
        /\ var' = [var EXCEPT !.pid = 1] \/ var' = [var EXCEPT !.pid = -1, !.status = "failed"]
    BY <1>10 DEF Sig!Fork, Sig!At, c
  <2>2. Forking
    BY <1>2, <2>1 DEF OwnInstr
  <2>3. \A y \in {"oldact", "oldact2"} : var'[y] = var[y]
    BY <1>5, <2>1 DEF VarNames
  <2>4. OwnRest'
    BY <1>5, <1>6, <2>1, <2>2, <2>3 DEF OwnRest
  <2>. QED  BY <1>1, <2>4, OwnSteady
<1>11. CASE Sig!Waitpid
  <2>1. /\ c[1] = "waitpid" /\ UNCHANGED <<disp, sig_pending, timer>> /\ child.status # "runs"
        /\ child' = [child EXCEPT !.status = IF @ = "zombie" THEN "reaped" ELSE @]
        /\ \E v : var' = [var EXCEPT ![c[2]] = v]
    BY <1>11 DEF Sig!Waitpid, Sig!At, c
  <2>2. c[2] \in {"status", "reaped"}
    BY <1>2, <2>1 DEF GoodInstr
  <2>3. \A y \in {"oldact", "oldact2"} : var'[y] = var[y]
    BY <2>1, <2>2, Assigned DEF Changed, VarNames
  <2>4. child'.status # "none" => child.status # "none"
    BY <2>1 DEF Machine, DataInv, ChildNames
  <2>5. OwnRest'
    BY <1>5, <1>6, <2>1, <2>3, <2>4 DEF OwnRest
  <2>. QED  BY <1>1, <2>5, OwnSteady
<1>12. CASE Sig!Kill
  <2>1. c[1] = "kill" /\ sig_pending' = Sig!Raised(c[2]) /\ UNCHANGED <<disp, timer, var, child>>
    BY <1>12 DEF Sig!Kill, Sig!At, c
  <2>2. \A s \in sig_pending' : Source(s)
    BY <1>2, <1>5, <2>1 DEF OwnInstr, OwnRest, Sig!Raised
  <2>3. OwnRest'
    BY <1>3, <1>4, <1>5, <2>1, <2>2 DEF OwnRest, OwnSaved
  <2>. QED  BY <1>1, <2>3, OwnSteady
<1>13. CASE Sig!Sigprocmask
  <2>1. c[1] = "mask" /\ var' = [var EXCEPT ![c[3]] = mask] /\ UNCHANGED <<disp, sig_pending, timer, child>>
    BY <1>13 DEF Sig!Sigprocmask, Sig!At, c
  <2>2. c[3] = "oldmask"
    BY <1>2, <2>1 DEF GoodInstr
  <2>3. \A y \in {"oldact", "oldact2"} : var'[y] = var[y]
    BY <2>1, <2>2, Assigned DEF Changed, VarNames
  <2>4. OwnRest'
    BY <1>5, <1>6, <2>1, <2>3 DEF OwnRest
  <2>. QED  BY <1>1, <2>4, OwnSteady
<1>14. CASE Sig!Suspend \/ Sig!Skip \/ Sig!Wakes \/ Sig!Input
  <2>1. UNCHANGED <<disp, sig_pending, timer, var, child>>
    BY <1>14 DEF Sig!Suspend, Sig!Skip, Sig!Wakes, Sig!Input
  <2>2. OwnRest'
    BY <1>5, <1>6, <2>1 DEF OwnRest
  <2>. QED  BY <1>1, <2>2, OwnSteady
<1>15. CASE Sig!SetJmp \/ Sig!LongJump
  <2>1. /\ UNCHANGED <<disp, sig_pending, timer, child>>
        /\ UNCHANGED var \/ (\E v : var' = [var EXCEPT !["jmp"] = v]) \/ (\E v : var' = [var EXCEPT !["jumped"] = v])
    BY <1>15 DEF Sig!SetJmp, Sig!LongJump
  <2>2. \A y \in {"oldact", "oldact2"} : var'[y] = var[y]
    BY <2>1, Assigned DEF Changed, VarNames
  <2>3. OwnRest'
    BY <1>5, <1>6, <2>1, <2>2 DEF OwnRest
  <2>. QED  BY <1>1, <2>3, OwnSteady
<1>. QED  BY <1>7, <1>8, <1>9, <1>10, <1>11, <1>12, <1>13, <1>14, <1>15 DEF Executes, Sig!ProgramStep

LEMMA OwnStart == Sig!SigprogInit => OwnInv
<1>. SUFFICES ASSUME Sig!SigprogInit PROVE OwnInv
  OBVIOUS
<1>1. Len(stack) = 1
  BY DEF Sig!SigprogInit, Sig!Frame
<1>2. /\ sig_pending = {} /\ caught = {} /\ var.oldact = "DFL" /\ var.oldact2 = "DFL"
      /\ child.status = "none"
  BY DEF Sig!SigprogInit, Sig!NoVars
<1>3. timer # 0 => Alarmed
  BY DEF Sig!SigprogInit, Alarmed
<1>4. \A s \in Sig!Sig : OwnAct(s, disp[s])
  <2>1. PICK d \in Sig!Inherited(who) : disp = [s \in Sig!Sig |-> IF s \in DOMAIN d THEN d[s] ELSE "DFL"]
    BY DEF Sig!SigprogInit
  <2>2. \A s \in DOMAIN d : d[s] \in {"DFL", "IGN"} \/ (d[s] = "empty" /\ who \in {"sleep", "mysleep", "abort"})
    BY DEF Sig!Inherited
  <2>. QED  BY <2>1, <2>2 DEF OwnAct
<1>5. OwnAct(SavedSig, "DFL") /\ OwnAct("QUIT", "DFL")
  BY DEF OwnAct
<1>. QED  BY <1>1, <1>2, <1>3, <1>4, <1>5 DEF OwnInv

(* A program has only its own handlers and gets only its own signals.      *)
LEMMA CaughtNow ==
    ASSUME NEW s, Handled(s)
    PROVE  Sig!HasCaught(s)' /\ \A t : Sig!HasCaught(t)' <=> Sig!HasCaught(t) \/ t = s
<1>. DEFINE e == [sig |-> s, waiting |-> stack[1].wait, command |-> child.status = "runs"]
<1>1. caught' = caught \cup {e} /\ e.sig = s
  BY DEF Handled
<1>. HIDE DEF e
<1>. QED  BY <1>1 DEF Sig!HasCaught

LEMMA OwnStep == Machine /\ OwnInv /\ [Sig!SigprogNext]_sigprogVars => OwnInv'
<1>. SUFFICES ASSUME Machine, OwnInv, [Sig!SigprogNext]_sigprogVars PROVE OwnInv'
  OBVIOUS
<1>1. OwnRest
  BY DEF OwnInv, OwnRest, OwnSaved
<1>2. ASSUME UNCHANGED <<who, disp, var>>, \A s \in sig_pending' : Source(s), timer' # 0 => Alarmed,
             child'.status # "none" => Forking
      PROVE  OwnRest'
  <2>1. \A s, h : OwnAct(s, h)' <=> OwnAct(s, h)
    BY <1>2 DEF OwnAct
  <2>2. (\A s : Source(s)' <=> Source(s)) /\ (Alarmed' <=> Alarmed) /\ (Forking' <=> Forking) /\ SavedSig' = SavedSig
    BY <1>2 DEF Source, Alarmed, Forking, Sig!FromOutside, SavedSig
  <2>. QED  BY <1>1, <1>2, <2>1, <2>2 DEF OwnRest, OwnSaved
<1>3. CASE UNCHANGED sigprogVars
  <2>1. OwnRest'
    BY <1>1, <1>2, <1>3 DEF sigprogVars, OwnRest
  <2>2. Steady
    BY <1>3 DEF sigprogVars, Steady
  <2>. QED  BY <2>1, <2>2, OwnSteady
<1>4. CASE Kernel
  <2>1. UNCHANGED <<who, stack, disp, var, caught>>
    BY <1>4, KernelDoes
  <2>2. \/ timer # 0 /\ UNCHANGED <<child, sig_pending>>
        \/ timer # 0 /\ timer' = 0 /\ UNCHANGED child /\ Gains("ALRM")
        \/ child.status = "runs" /\ child'.status = "zombie" /\ UNCHANGED timer /\ Gains("CHLD")
        \/ UNCHANGED <<timer, child>> /\ \E s \in Sig!FromOutside : Gains(s)
    BY <1>4, KernelDoes
  <2>3. \A s \in sig_pending' : Source(s)
    BY <1>1, <2>2 DEF Gains, OwnRest, Source
  <2>4. OwnRest'
    BY <1>1, <1>2, <2>1, <2>2, <2>3 DEF OwnRest
  <2>5. Steady
    BY <2>1 DEF Steady
  <2>. QED  BY <2>4, <2>5, OwnSteady
<1>5. CASE Sig!Deliver
  <2>1. PICK s \in Sig!Sig :
           /\ s \in sig_pending /\ sig_pending' = sig_pending \ {s} /\ UNCHANGED <<who, disp, timer, var, child>>
           /\ Handled(s) \/ Dropped(s) \/ Kills(s)
    BY <1>5, DeliverDoes
  <2>2. OwnRest'
    BY <1>1, <1>2, <2>1 DEF OwnRest
  <2>3. CASE Dropped(s) \/ Kills(s)
    <3>1. Steady
      BY <2>1, <2>3 DEF Steady, Dropped, Kills
    <3>. QED  BY <2>2, <3>1, OwnSteady
  <2>4. CASE Handled(s)
    <3>. DEFINE m == Len(stack)
    <3>1. m \in Nat /\ m >= 1 /\ Sig!Top = stack[m] /\ m = Len(stack)
      BY StackLength DEF Sig!Top, Machine, StackInv
    <3>2. /\ Len(stack') = m + 1 /\ stack'[m + 1].fn = disp[s] /\ stack'[m].fn = stack[m].fn
          /\ \A k \in 1 .. m - 1 : stack'[k] = stack[k]
      BY <2>4, <3>1 DEF Handled
    <3>. HIDE DEF m
    <3>3. \A k \in 2 .. m + 1 : k = m + 1 \/ (k \in 2 .. m /\ (k = m \/ k \in 1 .. m - 1))
      BY <3>1
    <3>4. ASSUME NEW k \in 2 .. Len(stack')
          PROVE  (\E t \in Sig!Sig : Sig!HasCaught(t) /\ OwnAct(t, stack[k].fn))'
      <4>1. CASE k = m + 1
        <5>1. OwnAct(s, disp[s]) /\ stack'[k].fn = disp[s] /\ who' = who
          BY <1>1, <2>1, <3>2, <4>1 DEF OwnRest, OwnSaved
        <5>2. OwnAct(s, stack[k].fn)'
          BY <5>1 DEF OwnAct
        <5>. QED  BY <2>4, <5>2, CaughtNow
      <4>2. CASE k \in 2 .. m /\ (k = m \/ k \in 1 .. m - 1)
        <5>1. stack'[k].fn = stack[k].fn /\ who' = who
          BY <2>1, <3>2, <4>2
        <5>2. PICK t \in Sig!Sig : Sig!HasCaught(t) /\ OwnAct(t, stack[k].fn)
          BY <3>1, <4>2 DEF OwnInv
        <5>3. OwnAct(t, stack[k].fn)'
          BY <5>1, <5>2 DEF OwnAct
        <5>. QED  BY <2>4, <5>2, <5>3, CaughtNow
      <4>. QED  BY <3>2, <3>3, <4>1, <4>2
    <3>5. (\A k \in 2 .. Len(stack) : \E t \in Sig!Sig : Sig!HasCaught(t) /\ OwnAct(t, stack[k].fn))'
      BY <3>4
    <3>6. \A c \in caught' : Source(c.sig)'
      <4>1. \A t : Source(t)' <=> Source(t)
        BY <2>1 DEF Source, Alarmed, Forking, Sig!FromOutside
      <4>2. Source(s)
        BY <1>1, <2>1 DEF OwnRest
      <4>. QED  BY <2>4, <4>1, <4>2 DEF Handled, OwnInv
    <3>. QED  BY <2>2, <3>5, <3>6 DEF OwnRest, OwnInv, OwnSaved
  <2>. QED  BY <2>1, <2>3, <2>4
<1>6. CASE Sig!Return
  <2>1. /\ UNCHANGED <<who, disp, sig_pending, timer, var, child, caught>>
        /\ \/ Len(stack) > 1 /\ Len(stack') = Len(stack) - 1 /\ \A k \in 1 .. Len(stack) - 1 : stack'[k] = stack[k]
           \/ UNCHANGED stack
    BY <1>6, ReturnDoes
  <2>2. OwnRest'
    BY <1>1, <1>2, <2>1 DEF OwnRest
  <2>3. Steady
    <3>. DEFINE m == Len(stack)
    <3>1. m \in Nat /\ m = Len(stack)
      BY StackLength DEF Machine
    <3>. HIDE DEF m
    <3>2. \A k \in 2 .. m - 1 : k \in 2 .. m /\ k \in 1 .. m - 1
      BY <3>1
    <3>. QED  BY <2>1, <3>1, <3>2 DEF Steady
  <2>. QED  BY <2>2, <2>3, OwnSteady
<1>7. CASE Executes
  BY <1>7, OwnExecutes
<1>. QED  BY <1>3, <1>4, <1>5, <1>6, <1>7, OneOf

(* Main() runs when no handler does. *)
LEMMA InMain ==
    ASSUME Machine, Executes, Len(stack) = 1
    PROVE  /\ ended = "no" /\ Sig!Deliverable = {} /\ Sig!Top = stack[1] /\ ~stack[1].wait
           /\ stack[1].ip \in Nat \ {0} /\ stack[1].ip <= Len(Sig!Code(who))
           /\ Sig!Instr = Sig!Code(who)[stack[1].ip]
<1>1. Sig!CanRun /\ Sig!Top = stack[1]
  BY ActionOf DEF Executes, Sig!Top
<1>. QED  BY <1>1, RunningInstr DEF Sig!CanRun, Sig!Instr

LEMMA MovedMain ==
    ASSUME Len(stack) = 1, NEW j, Moved(j)
    PROVE  Len(stack') = 1 /\ stack'[1].ip = j /\ ~stack'[1].wait /\ UNCHANGED <<who, ended, caught, cut>>
BY DEF Moved

LEMMA HandledMain ==
    ASSUME Machine, NEW s, Handled(s)
    PROVE  stack'[1].ip = IF stack[1].wait THEN stack[1].ip + 1 ELSE stack[1].ip
<1>1. CASE Len(stack) = 1
  BY <1>1 DEF Handled, Sig!Top
<1>2. CASE Len(stack) # 1
  <2>1. 1 \in 1 .. Len(stack) - 1 /\ ~stack[1].wait
    BY <1>2, StackLength DEF Machine, StackInv
  <2>. QED  BY <2>1 DEF Handled
<1>. QED  BY <1>1, <1>2

LEMMA ReturnMain == ASSUME Machine, Sig!Return PROVE stack'[1] = stack[1]
<1>1. UNCHANGED stack \/ (Len(stack) > 1 /\ \A k \in 1 .. Len(stack) - 1 : stack'[k] = stack[k])
  BY ReturnDoes
<1>2. Len(stack) > 1 => 1 \in 1 .. Len(stack) - 1
  BY StackLength DEF Machine
<1>. QED  BY <1>1, <1>2

(* What was caught stays so; "empty" makes no call.                        *)
LEMMA CaughtStays == ASSUME [Sig!SigprogNext]_sigprogVars, NEW s, Sig!HasCaught(s) PROVE Sig!HasCaught(s)'
<1>1. caught \subseteq caught'
  BY DEF sigprogVars, Sig!SigprogNext, Sig!ProgramStep, Sig!Input, Sig!Deliver, Sig!Tick, Sig!ChildEnds, Sig!Send,
     Sig!Sigaction, Sig!Sigprocmask, Sig!Alarm, Sig!Suspend, Sig!SetJmp, Sig!LongJump, Sig!Kill, Sig!Set, Sig!Skip,
     Sig!Fork, Sig!Waitpid, Sig!Wakes, Sig!Return, Sig!History
<1>. QED  BY <1>1 DEF Sig!HasCaught

LEMMA NotEmpty == ASSUME Machine, Executes PROVE Sig!Top.fn # "empty"
<1>1. Sig!Top.ip \in Nat \ {0} /\ Sig!Top.ip <= Len(Sig!Code(Sig!Top.fn))
  BY ActionOf, RunningInstr DEF Executes
<1>. QED  BY <1>1, HandlerCode

LEMMA OnlyMain ==
    ASSUME Machine, OwnInv, Executes, who \in {"sleep", "mysleep", "abort"}
    PROVE  Len(stack) = 1
<1>1. CASE Len(stack) \in 2 .. Len(stack)
  <2>1. Sig!Top.fn \in Handlers /\ \E s \in Sig!Sig : OwnAct(s, Sig!Top.fn)
    BY <1>1 DEF Machine, StackInv, OwnInv, Sig!Top
  <2>. QED  BY <2>1, NotEmpty DEF OwnAct, Handlers
<1>. QED  BY <1>1, StackLength DEF Machine

(* sleep() and mysleep(), which have the same calls. *)
LEMMA SleepInstr ==
    ASSUME Machine, Executes, who \in {"sleep", "mysleep"}, Len(stack) = 1
    PROVE  \/ SleepCall = 0 /\ Sig!Instr = <<"set", "before", [disp |-> disp, mask |-> mask]>>
           \/ SleepCall = 1 /\ Sig!Instr = <<"sigaction", "ALRM", "empty", "oldact">>
           \/ SleepCall = 2 /\ Sig!Instr = <<"mask", mask \cup {"ALRM"}, "oldmask">>
           \/ SleepCall = 3 /\ Sig!Instr = <<"alarm", Seconds>>
           \/ SleepCall = 4 /\ Sig!Instr = <<"suspend", var.oldmask \ {"ALRM"}>>
           \/ SleepCall = 5 /\ Sig!Instr = <<"alarm", 0>>
           \/ SleepCall = 6 /\ Sig!Instr = <<"sigaction", "ALRM", var.oldact, "ret">>
           \/ SleepCall = 7 /\ Sig!Instr = <<"mask", var.oldmask, "oldmask">>
           \/ SleepCall = 8 /\ Sig!Instr = <<"left">>
<1>. DEFINE k == stack[1].ip
<1>1. k \in Nat \ {0} /\ k <= Len(Sig!Code(who)) /\ Sig!Instr = Sig!Code(who)[k]
  BY InMain
<1>2. CASE who = "sleep"
  <2>1. IsSleep(Sig!Code(who))
    BY <1>2, SleepCode
  <2>2. SleepCall = k - 1
    BY <1>2 DEF SleepCall
  <2>. HIDE DEF k
  <2>3. k \in 1 .. 9
    BY <1>1, <2>1 DEF IsSleep
  <2>. QED  BY <1>1, <2>1, <2>2, <2>3 DEF IsSleep
<1>3. CASE who = "mysleep"
  <2>. DEFINE c == Sig!Code(who)
  <2>1. /\ Len(c) = 7
        /\ c[1] = <<"sigaction", "ALRM", "empty", "oldact">>
        /\ c[2] = <<"mask", mask \cup {"ALRM"}, "oldmask">>
        /\ c[3] = <<"alarm", Seconds>>
        /\ c[4] = <<"suspend", var.oldmask \ {"ALRM"}>>
        /\ c[5] = <<"alarm", 0>>
        /\ c[6] = <<"sigaction", "ALRM", var.oldact, "ret">>
        /\ c[7] = <<"mask", var.oldmask, "oldmask">>
    BY <1>3 DEF Sig!Code, Sig!MySleep, Sig!Sleep
  <2>2. SleepCall = k
    BY <1>3 DEF SleepCall
  <2>. HIDE DEF k, c
  <2>3. k \in 1 .. 7 /\ Sig!Instr = c[k]
    BY <1>1, <2>1 DEF c
  <2>. QED  BY <2>1, <2>2, <2>3
<1>. QED  BY <1>2, <1>3

LEMMA SleepStart == Sig!SigprogInit /\ who \in {"sleep", "mysleep"} => SleepAlarm
<1>. SUFFICES ASSUME Sig!SigprogInit, who \in {"sleep", "mysleep"} PROVE SleepAlarm
  OBVIOUS
<1>1. stack[1].ip = 1 /\ ~stack[1].wait /\ ended = "no" /\ sig_pending = {}
  BY DEF Sig!SigprogInit, Sig!Frame
<1>2. disp["ALRM"] = "empty" \/ timer = 0
  BY DEF Sig!SigprogInit
<1>. QED  BY <1>1, <1>2 DEF SleepAlarm, SleepCall, Unarmed

(* main() of sleep(), call by call. *)
LEMMA SleepExecutes ==
    ASSUME Machine, SleepAlarm, who \in {"sleep", "mysleep"}, Len(stack) = 1, Executes, ~Sig!HasCaught("INT")
    PROVE  SleepAlarm'
<1>. DEFINE k == SleepCall
<1>1. /\ disp["ALRM"] = "empty" \/ (k \notin 2 .. 6 /\ Unarmed)
      /\ k \in {2, 3, 5, 6} => var.oldact = "empty" \/ Unarmed
  BY DEF SleepAlarm
<1>2. disp \in [Sig!Sig -> Acts]
  BY DEF Machine, DataInv, SavedActs
<1>3. ASSUME Moved(Sig!Top.ip + 1), NEW j \in 0 .. 8, k = j
      PROVE  ended' # "ALRM" /\ ~stack'[1].wait /\ k' = j + 1
  <2>1. ended' = ended /\ who' = who /\ stack'[1].ip = stack[1].ip + 1 /\ ~stack'[1].wait /\ ended = "no"
    BY <1>3, MovedMain, InMain
  <2>2. stack[1].ip \in Nat \ {0}
    BY InMain
  <2>. QED  BY <1>3, <2>1, <2>2 DEF SleepCall
<1>. HIDE DEF k
<1>4. CASE k = 0 /\ Sig!Instr = <<"set", "before", [disp |-> disp, mask |-> mask]>>
  <2>1. Moved(Sig!Top.ip + 1) /\ UNCHANGED <<disp, sig_pending, timer>>
    BY <1>4, DoSet DEF VarNames
  <2>2. ended' # "ALRM" /\ ~stack'[1].wait /\ k' = 1
    BY <1>3, <1>4, <2>1
  <2>. QED  BY <1>1, <1>4, <2>1, <2>2 DEF SleepAlarm, Unarmed, k
<1>5. CASE k = 1 /\ Sig!Instr = <<"sigaction", "ALRM", "empty", "oldact">>
  <2>1. /\ Moved(Sig!Top.ip + 1) /\ disp' = [disp EXCEPT !["ALRM"] = "empty"] /\ Changed("oldact", disp["ALRM"])
        /\ UNCHANGED <<sig_pending, timer>>
    BY <1>5, DoSigaction DEF VarNames
  <2>2. ended' # "ALRM" /\ ~stack'[1].wait /\ k' = 2
    BY <1>3, <1>5, <2>1
  <2>3. disp'["ALRM"] = "empty" /\ var'.oldact = disp["ALRM"]
    BY <1>2, <2>1 DEF Changed, Sig!Sig
  <2>. QED  BY <1>1, <1>5, <2>1, <2>2, <2>3 DEF SleepAlarm, Unarmed, k
<1>6. CASE k = 2 /\ Sig!Instr = <<"mask", mask \cup {"ALRM"}, "oldmask">>
  <2>1. Moved(Sig!Top.ip + 1) /\ Changed("oldmask", mask) /\ UNCHANGED <<disp, sig_pending, timer>>
    BY <1>6, DoMask
  <2>2. ended' # "ALRM" /\ ~stack'[1].wait /\ k' = 3
    BY <1>3, <1>6, <2>1
  <2>3. var'.oldact = var.oldact
    BY <2>1 DEF Changed, VarNames
  <2>. QED  BY <1>1, <1>6, <2>1, <2>2, <2>3 DEF SleepAlarm, Unarmed, k
<1>7. CASE k = 3 /\ Sig!Instr = <<"alarm", Seconds>>
  <2>1. Moved(Sig!Top.ip + 1) /\ Changed("unslept", timer) /\ UNCHANGED <<disp, sig_pending>>
    BY <1>7, DoAlarm
  <2>2. ended' # "ALRM" /\ ~stack'[1].wait /\ k' = 4
    BY <1>3, <1>7, <2>1
  <2>3. var'.oldact = var.oldact
    BY <2>1 DEF Changed, VarNames
  <2>. QED  BY <1>1, <1>7, <2>1, <2>2, <2>3 DEF SleepAlarm, Unarmed, k
<1>8. CASE k = 4 /\ Sig!Instr = <<"suspend", var.oldmask \ {"ALRM"}>>
  <2>1. stack'[1].ip = stack[1].ip /\ UNCHANGED <<who, disp, sig_pending, timer, var, ended, caught>>
    BY <1>8, DoSuspend
  <2>2. k' = 4
    BY <1>8, <2>1 DEF k, SleepCall
  <2>. QED  BY <1>8, <2>1, <2>2 DEF SleepAlarm, Unarmed, k
<1>9. CASE k = 5 /\ Sig!Instr = <<"alarm", 0>>
  <2>1. Moved(Sig!Top.ip + 1) /\ Changed("unslept", timer) /\ UNCHANGED <<disp, sig_pending>> /\ timer' = 0
    BY <1>9, DoAlarm
  <2>2. ended' # "ALRM" /\ ~stack'[1].wait /\ k' = 6
    BY <1>3, <1>9, <2>1
  <2>3. var'.oldact = var.oldact
    BY <2>1 DEF Changed, VarNames
  <2>. QED  BY <1>1, <1>9, <2>1, <2>2, <2>3 DEF SleepAlarm, Unarmed, k
<1>10. CASE k = 6 /\ Sig!Instr = <<"sigaction", "ALRM", var.oldact, "ret">>
  <2>1. /\ Moved(Sig!Top.ip + 1) /\ disp' = [disp EXCEPT !["ALRM"] = var.oldact]
        /\ sig_pending' \subseteq sig_pending /\ UNCHANGED timer
    BY <1>10, DoSigaction DEF VarNames
  <2>2. ended' # "ALRM" /\ ~stack'[1].wait /\ k' = 7
    BY <1>3, <1>10, <2>1
  <2>3. disp'["ALRM"] = var.oldact
    BY <1>2, <2>1 DEF Sig!Sig
  <2>. QED  BY <1>1, <1>10, <2>1, <2>2, <2>3 DEF SleepAlarm, Unarmed, k
<1>11. CASE k = 7 /\ Sig!Instr = <<"mask", var.oldmask, "oldmask">>
  <2>1. Moved(Sig!Top.ip + 1) /\ UNCHANGED <<disp, sig_pending, timer>>
    BY <1>11, DoMask
  <2>2. ended' # "ALRM" /\ ~stack'[1].wait /\ k' = 8
    BY <1>3, <1>11, <2>1
  <2>. QED  BY <1>1, <1>11, <2>1, <2>2 DEF SleepAlarm, Unarmed, k
<1>12. CASE k = 8 /\ Sig!Instr = <<"left">>
  <2>1. Moved(Sig!Top.ip + 1) /\ UNCHANGED <<disp, sig_pending, timer>>
    BY <1>12, DoWake
  <2>2. ended' # "ALRM" /\ ~stack'[1].wait /\ k' = 9
    BY <1>3, <1>12, <2>1
  <2>. QED  BY <1>1, <1>12, <2>1, <2>2 DEF SleepAlarm, Unarmed, k
<1>. QED  BY <1>4, <1>5, <1>6, <1>7, <1>8, <1>9, <1>10, <1>11, <1>12, SleepInstr DEF k

LEMMA SleepStep ==
    ASSUME Machine, OwnInv, SleepAlarm, who \in {"sleep", "mysleep"}, [Sig!SigprogNext]_sigprogVars
    PROVE  SleepAlarm'
<1>1. CASE Sig!HasCaught("INT")
  BY <1>1, CaughtStays DEF SleepAlarm
<1>. SUFFICES ASSUME ~Sig!HasCaught("INT") PROVE SleepAlarm'
  BY <1>1
<1>2. stack[1].ip \in Nat \ {0} /\ \A s \in sig_pending : s = "INT" \/ s = "ALRM"
  <2>1. stack[1].ip \in Nat \ {0}
    BY StackLength DEF Machine, StackInv, FrameOk
  <2>. QED  BY <2>1 DEF OwnInv, Source, Forking, Sig!FromOutside
<1>3. CASE UNCHANGED sigprogVars
  BY <1>3 DEF sigprogVars, SleepAlarm, SleepCall, Unarmed
<1>4. CASE Kernel
  <2>1. /\ UNCHANGED <<who, stack, disp, var, ended, caught>>
        /\ \/ timer # 0 /\ UNCHANGED sig_pending
           \/ timer # 0 /\ timer' = 0 /\ Gains("ALRM")
           \/ child.status = "runs" /\ UNCHANGED timer /\ Gains("CHLD")
           \/ UNCHANGED timer /\ \E s \in Sig!FromOutside : Gains(s)
    BY <1>4, KernelDoes
  <2>2. child.status # "runs" /\ "ALRM" \notin Sig!FromOutside
    BY DEF OwnInv, Forking, Sig!FromOutside
  <2>3. \/ timer # 0 /\ (sig_pending' = sig_pending \/ timer' = 0)
        \/ UNCHANGED timer /\ ("ALRM" \in sig_pending' => "ALRM" \in sig_pending)
    BY <2>1, <2>2 DEF Gains
  <2>4. SleepCall' = SleepCall
    BY <2>1 DEF SleepCall
  <2>. QED  BY <2>1, <2>3, <2>4 DEF SleepAlarm, Unarmed
<1>5. CASE Sig!Deliver
  <2>1. PICK s \in Sig!Sig :
           /\ ended = "no" /\ s \in sig_pending /\ sig_pending' = sig_pending \ {s}
           /\ UNCHANGED <<who, disp, timer, var>>
           /\ Handled(s) \/ Dropped(s) \/ Kills(s)
    BY <1>5, DeliverDoes
  <2>2. CASE Dropped(s) \/ Kills(s)
    <3>1. UNCHANGED <<stack, caught>> /\ (ended' = "no" \/ (ended' = s /\ disp[s] = "DFL") \/ ended' = "stop")
      BY <2>1, <2>2 DEF Dropped, Kills
    <3>2. SleepCall' = SleepCall
      BY <2>1, <3>1 DEF SleepCall
    <3>3. ended' # "ALRM"
      BY <2>1, <3>1 DEF SleepAlarm, Unarmed
    <3>. QED  BY <2>1, <3>1, <3>2, <3>3 DEF SleepAlarm, Unarmed
  <2>3. CASE Handled(s) /\ s = "INT"
    BY <2>3, CaughtNow DEF SleepAlarm
  <2>4. CASE Handled(s) /\ s = "ALRM"
    <3>1. ended' = ended /\ ~stack'[1].wait
      BY <2>4 DEF Handled
    <3>2. stack'[1].ip = IF stack[1].wait THEN stack[1].ip + 1 ELSE stack[1].ip
      BY <2>4, HandledMain
    <3>3. SleepCall' = IF stack[1].wait THEN SleepCall + 1 ELSE SleepCall
      BY <1>2, <2>1, <3>2 DEF SleepCall
    <3>4. stack[1].wait => SleepCall' = 5
      BY <3>3 DEF SleepAlarm
    <3>. QED  BY <2>1, <2>4, <3>1, <3>3, <3>4 DEF SleepAlarm, Unarmed
  <2>. QED  BY <1>2, <2>1, <2>2, <2>3, <2>4
<1>6. CASE Sig!Return
  <2>1. ended' # "ALRM" /\ UNCHANGED <<who, disp, sig_pending, timer, var, caught>>
    BY <1>6, ReturnDoes
  <2>2. stack'[1] = stack[1]
    BY <1>6, ReturnMain
  <2>3. SleepCall' = SleepCall
    BY <2>1, <2>2 DEF SleepCall
  <2>. QED  BY <2>1, <2>2, <2>3 DEF SleepAlarm, Unarmed
<1>7. CASE Executes
  BY <1>7, OnlyMain, SleepExecutes
<1>. QED  BY <1>3, <1>4, <1>5, <1>6, <1>7, OneOf

(* abort(), call by call. *)
LEMMA AbortCode ==
    LET c == Sig!Code("abort")
    IN  /\ Len(c) = 8
        /\ c[1] = <<"set", "oldact", disp["ABRT"]>>
        /\ c[2] = <<"skip", var.oldact # "IGN", 1>>
        /\ c[3] = <<"sigaction", "ABRT", "DFL", "ret">>
        /\ c[4] = <<"mask", Sig!Sig \ {"ABRT"}, "oldmask">>
        /\ c[5] = <<"kill", "ABRT">>
        /\ c[6] = <<"sigaction", "ABRT", "DFL", "ret">>
        /\ c[7] = <<"mask", Sig!Sig \ {"ABRT"}, "oldmask">>
        /\ c[8] = <<"kill", "ABRT">>
BY DEF Sig!Code, Sig!Abort

LEMMA AbortStart == Sig!SigprogInit /\ who = "abort" => AbortPhase
<1>. SUFFICES ASSUME Sig!SigprogInit, who = "abort" PROVE AbortPhase
  OBVIOUS
<1>1. stack[1].ip = 1 /\ ~stack[1].wait /\ ended = "no"
  BY DEF Sig!SigprogInit, Sig!Frame
<1>. QED  BY <1>1 DEF AbortPhase

LEMMA AbortExecutes ==
    ASSUME Machine, AbortPhase, who = "abort", Len(stack) = 1, Executes
    PROVE  AbortPhase'
<1>. DEFINE k == stack[1].ip  c == Sig!Code("abort")
<1>1. /\ Sig!Deliverable = {} /\ ended = "no" /\ Sig!Top = stack[1] /\ k \in Nat \ {0} /\ k <= Len(c)
      /\ Sig!Instr = c[k]
  BY InMain
<1>. HIDE DEF c
<1>2. k \in 1 .. 8
  BY <1>1, AbortCode DEF c
<1>3. disp \in [Sig!Sig -> Acts]
  BY DEF Machine, DataInv, SavedActs
<1>4. ASSUME NEW j, Moved(j)
      PROVE  ended' = "no" /\ ~stack'[1].wait /\ stack'[1].ip = j /\ Len(stack') = 1
  BY <1>1, <1>4, MovedMain
<1>5. CASE k = 1
  <2>1. Sig!Instr = <<"set", "oldact", disp["ABRT"]>>
    BY <1>1, <1>5, AbortCode DEF c
  <2>2. Moved(2) /\ Changed("oldact", disp["ABRT"]) /\ UNCHANGED disp
    BY <1>1, <1>5, <2>1, DoSet DEF VarNames
  <2>. QED  BY <1>4, <2>2 DEF AbortPhase, Changed
<1>6. CASE k = 2
  <2>1. Sig!Instr = <<"skip", var.oldact # "IGN", 1>>
    BY <1>1, <1>6, AbortCode DEF c
  <2>2. UNCHANGED disp /\ IF var.oldact # "IGN" THEN Moved(Sig!Top.ip + 1 + 1) ELSE Moved(Sig!Top.ip + 1)
    BY <2>1, DoSkip, 1 \in Int, Zenon
  <2>3. Sig!Top.ip + 1 + 1 = 4 /\ Sig!Top.ip + 1 = 3
    BY <1>1, <1>6
  <2>4. IF var.oldact # "IGN" THEN Moved(4) ELSE Moved(3)
    BY <2>2, <2>3
  <2>. QED  BY <1>4, <1>6, <2>2, <2>4 DEF AbortPhase
<1>7. CASE k = 3
  <2>1. Sig!Instr = <<"sigaction", "ABRT", "DFL", "ret">>
    BY <1>1, <1>7, AbortCode DEF c
  <2>2. Moved(4) /\ disp' = [disp EXCEPT !["ABRT"] = "DFL"]
    BY <1>1, <1>7, <2>1, DoSigaction DEF VarNames
  <2>. QED  BY <1>3, <1>4, <2>2 DEF AbortPhase, Sig!Sig
<1>8. CASE k = 4
  <2>1. Sig!Instr = <<"mask", Sig!Sig \ {"ABRT"}, "oldmask">>
    BY <1>1, <1>8, AbortCode DEF c
  <2>2. Moved(5) /\ UNCHANGED disp
    BY <1>1, <1>8, <2>1, DoMask
  <2>. QED  BY <1>4, <1>8, <2>2 DEF AbortPhase
<1>9. CASE k = 5
  <2>1. Sig!Instr = <<"kill", "ABRT">>
    BY <1>1, <1>9, AbortCode DEF c
  <2>2. Moved(6) /\ UNCHANGED disp
    BY <1>1, <1>9, <2>1, DoKill
  <2>. QED  BY <1>4, <1>9, <2>2 DEF AbortPhase
<1>10. CASE k = 6
  <2>1. Sig!Instr = <<"sigaction", "ABRT", "DFL", "ret">>
    BY <1>1, <1>10, AbortCode DEF c
  <2>2. Moved(7) /\ disp' = [disp EXCEPT !["ABRT"] = "DFL"]
    BY <1>1, <1>10, <2>1, DoSigaction DEF VarNames
  <2>. QED  BY <1>3, <1>4, <2>2 DEF AbortPhase, Sig!Sig
<1>11. CASE k = 7
  <2>1. Sig!Instr = <<"mask", Sig!Sig \ {"ABRT"}, "oldmask">>
    BY <1>1, <1>11, AbortCode DEF c
  <2>2. Moved(8) /\ UNCHANGED disp /\ "ABRT" \notin mask'
    BY <1>1, <1>11, <2>1, DoMask
  <2>. QED  BY <1>4, <1>11, <2>2 DEF AbortPhase
<1>12. CASE k = 8
  <2>1. Sig!Instr = <<"kill", "ABRT">>
    BY <1>1, <1>12, AbortCode DEF c
  <2>2. Moved(9) /\ UNCHANGED <<disp, mask>> /\ sig_pending' = Sig!Raised("ABRT")
    BY <1>1, <1>12, <2>1, DoKill
  <2>3. "ABRT" \in sig_pending'
    BY <1>12, <2>2 DEF AbortPhase, Sig!Raised, Sig!Ignored
  <2>. QED  BY <1>4, <1>12, <2>2, <2>3 DEF AbortPhase
<1>. QED  BY <1>2, <1>5, <1>6, <1>7, <1>8, <1>9, <1>10, <1>11, <1>12

LEMMA AbortStep ==
    ASSUME Machine, OwnInv, AbortPhase, who = "abort", [Sig!SigprogNext]_sigprogVars
    PROVE  AbortPhase'
<1>1. \A s \in sig_pending : s = "ABRT"
  BY DEF OwnInv, Source, Forking, Alarmed, Sig!FromOutside
<1>2. CASE UNCHANGED sigprogVars
  BY <1>2 DEF sigprogVars, AbortPhase
<1>3. CASE Kernel
  <2>1. /\ UNCHANGED <<who, stack, disp, mask, var, ended>>
        /\ \/ timer # 0
           \/ child.status = "runs"
           \/ \E s \in Sig!FromOutside : Gains(s)
    BY <1>3, KernelDoes
  <2>2. FALSE
    BY <2>1 DEF OwnInv, Forking, Alarmed, Sig!FromOutside
  <2>. QED  BY <2>2
<1>4. CASE Sig!Deliver
  <2>1. PICK s \in Sig!Sig :
           /\ ended = "no" /\ s \in sig_pending /\ UNCHANGED <<who, disp, var>>
           /\ Handled(s) \/ Dropped(s) \/ Kills(s)
    BY <1>4, DeliverDoes
  <2>2. s = "ABRT"
    BY <1>1, <2>1
  <2>3. CASE Handled(s)
    <3>1. disp["ABRT"] # "DFL"
      BY <2>2, <2>3 DEF Handled, Handlers
    <3>2. stack'[1].ip = stack[1].ip /\ ~stack'[1].wait /\ ended' = ended
      BY <2>3, HandledMain DEF AbortPhase, Handled
    <3>3. stack[1].ip \notin 7 .. 9
      BY <3>1 DEF AbortPhase
    <3>. QED  BY <2>1, <3>2, <3>3 DEF AbortPhase
  <2>4. CASE Dropped(s)
    <3>1. disp["ABRT"] = "IGN" /\ UNCHANGED <<stack, mask, ended>>
      BY <2>2, <2>4 DEF Dropped, Sig!Ignored
    <3>2. stack[1].ip \notin 7 .. 9
      BY <3>1 DEF AbortPhase
    <3>. QED  BY <2>1, <3>1, <3>2 DEF AbortPhase
  <2>5. CASE Kills(s)
    BY <2>1, <2>2, <2>5 DEF Kills, AbortPhase
  <2>. QED  BY <2>1, <2>3, <2>4, <2>5
<1>5. CASE Sig!Return
  <2>1. /\ ended = "no" /\ Sig!Deliverable = {} /\ Sig!Top.ip > Len(Sig!Code(Sig!Top.fn))
        /\ UNCHANGED <<who, disp, sig_pending, var>>
        /\ (Len(stack) > 1 /\ UNCHANGED ended) \/ Len(stack) = 1
    BY <1>5, ReturnDoes
  <2>2. Len(stack) # 1
    <3>1. ASSUME Len(stack) = 1 PROVE FALSE
      <4>1. Sig!Top.fn = who /\ Sig!Top = stack[1]
        BY <3>1 DEF Sig!Top, Machine, StackInv
      <4>2. stack[1].ip = 9
        BY <2>1, <4>1, AbortCode DEF AbortPhase
      <4>. QED  BY <2>1, <4>2 DEF AbortPhase, Sig!Deliverable
    <3>. QED  BY <3>1
  <2>3. stack'[1] = stack[1] /\ ended' = "no"
    BY <1>5, <2>1, <2>2, ReturnMain
  <2>4. stack[1].ip \notin 7 .. 9
    BY <2>2 DEF AbortPhase
  <2>. QED  BY <2>1, <2>3, <2>4 DEF AbortPhase
<1>6. CASE Executes
  BY <1>6, OnlyMain, AbortExecutes
<1>. QED  BY <1>2, <1>3, <1>4, <1>5, <1>6, OneOf

(* A handler that main() was interrupted by moves on. *)
LEMMA MovedHandler ==
    ASSUME Len(stack) = 2, NEW j, Moved(j)
    PROVE  /\ Len(stack') = 2 /\ stack'[1] = stack[1] /\ stack'[2].ip = j /\ stack'[2].fn = stack[2].fn
           /\ stack'[2].old = stack[2].old /\ UNCHANGED <<who, ended, caught, cut>>
<1>1. Sig!Top = stack[2] /\ 1 \in 1 .. Len(stack) - 1
  BY DEF Sig!Top
<1>. QED  BY <1>1 DEF Moved

LEMMA InHandler ==
    ASSUME Machine, Executes, Len(stack) = 2
    PROVE  /\ ended = "no" /\ Sig!Deliverable = {} /\ Sig!Top = stack[2]
           /\ stack[2].ip \in Nat \ {0} /\ stack[2].ip <= Len(Sig!Code(stack[2].fn))
           /\ Sig!Instr = Sig!Code(stack[2].fn)[stack[2].ip]
<1>1. Sig!CanRun /\ Sig!Top = stack[2]
  BY ActionOf DEF Executes, Sig!Top
<1>. QED  BY <1>1, RunningInstr DEF Sig!CanRun, Sig!Instr

(* ch10_jobctl.c: main() and the handler of SIGTSTP. *)
LEMMA JobctlCode ==
    LET c == Sig!Code("jobctl")
        d == Sig!Code("sig_tstp")
    IN  /\ Len(c) = 5
        /\ c[1] = <<"sigaction", "TSTP", "IGN", "ret">>
        /\ c[2] = <<"skip", var.ret # "DFL", 1>>
        /\ c[3] = <<"sigaction", "TSTP", "sig_tstp", "ret">>
        /\ c[4] = <<"read">>
        /\ c[5] = <<"read">>
        /\ Len(d) = 4
        /\ d[1] = <<"mask", mask \cup {"TSTP"}, "oldmask">>
        /\ d[2] = <<"sigaction", "TSTP", "DFL", "ret">>
        /\ d[3] = <<"kill", "TSTP">>
        /\ d[4] = <<"sigaction", "TSTP", "sig_tstp", "ret">>
BY DEF Sig!Code, Sig!MainJobctl, Sig!SigTstp

LEMMA JobctlStart == Sig!SigprogInit /\ who = "jobctl" => JobctlPhase
<1>. SUFFICES ASSUME Sig!SigprogInit, who = "jobctl" PROVE JobctlPhase
  OBVIOUS
<1>1. Len(stack) = 1 /\ ~stack[1].wait /\ mask = {} /\ caught = {}
  BY DEF Sig!SigprogInit, Sig!Frame
<1>. QED  BY <1>1 DEF JobctlPhase, Sig!HasCaught

(* main() touches neither the mask nor what was caught. *)
LEMMA JobctlMain ==
    ASSUME Machine, JobctlPhase, who = "jobctl", ~Sig!HasCaught("TSTP"), Executes
    PROVE  JobctlPhase'
<1>. DEFINE k == stack[1].ip  c == Sig!Code("jobctl")
<1>1. Len(stack) = 1 /\ "TSTP" \notin mask
  BY DEF JobctlPhase
<1>2. k \in Nat \ {0} /\ k <= Len(c) /\ Sig!Instr = c[k]
  BY <1>1, InMain
<1>. HIDE DEF k, c
<1>3. k \in 1 .. 5
  BY <1>2, JobctlCode DEF c
<1>4. ASSUME NEW j, Moved(j), mask' = mask PROVE JobctlPhase'
  <2>1. Len(stack') = 1 /\ ~stack'[1].wait /\ caught' = caught
    BY <1>1, <1>4, MovedMain
  <2>. QED  BY <1>1, <1>4, <2>1 DEF JobctlPhase, Sig!HasCaught
<1>5. CASE k = 1
  <2>1. Sig!Instr = <<"sigaction", "TSTP", "IGN", "ret">>
    BY <1>2, <1>5, JobctlCode DEF c
  <2>. QED  BY <1>4, <2>1, DoSigaction DEF VarNames
<1>6. CASE k = 2
  <2>1. Sig!Instr = <<"skip", var.ret # "DFL", 1>>
    BY <1>2, <1>6, JobctlCode DEF c
  <2>2. mask' = mask /\ IF var.ret # "DFL" THEN Moved(Sig!Top.ip + 1 + 1) ELSE Moved(Sig!Top.ip + 1)
    BY <2>1, DoSkip, 1 \in Int, Zenon
  <2>. QED  BY <1>4, <2>2
<1>7. CASE k = 3
  <2>1. Sig!Instr = <<"sigaction", "TSTP", "sig_tstp", "ret">>
    BY <1>2, <1>7, JobctlCode DEF c
  <2>. QED  BY <1>4, <2>1, DoSigaction DEF VarNames
<1>8. CASE k \in {4, 5}
  <2>1. Sig!Instr = <<"read">>
    BY <1>2, <1>8, JobctlCode DEF c
  <2>. QED  BY <1>4, <2>1, DoWake
<1>. QED  BY <1>3, <1>5, <1>6, <1>7, <1>8

(* The handler sends SIGTSTP to itself while the signal is blocked. *)
LEMMA JobctlHandler ==
    ASSUME Machine, OwnInv, JobctlPhase, who = "jobctl", Sig!HasCaught("TSTP"), Executes
    PROVE  JobctlPhase'
<1>. DEFINE k == stack[2].ip  c == Sig!Code("sig_tstp")
<1>1. Len(stack) = 2
  <2>1. Sig!Deliverable = {}
    BY ActionOf DEF Executes, Sig!CanRun
  <2>. QED  BY <2>1 DEF JobctlPhase, Sig!Deliverable
<1>2. stack[2].fn = "sig_tstp"
  BY <1>1 DEF Machine, StackInv, OwnInv, OwnAct, Handlers
<1>3. k \in Nat \ {0} /\ k <= Len(c) /\ Sig!Instr = c[k] /\ ended = "no" /\ Sig!Top = stack[2]
  BY <1>1, <1>2, InHandler
<1>. HIDE DEF c
<1>4. k \in 1 .. 4
  BY <1>3, JobctlCode DEF c
<1>5. "TSTP" \in mask /\ "TSTP" \notin stack[2].old /\ ~stack[1].wait
  BY <1>1 DEF JobctlPhase
<1>6. disp \in [Sig!Sig -> Acts]
  BY DEF Machine, DataInv, SavedActs
<1>7. ASSUME NEW j \in 2 .. 5, Moved(j), "TSTP" \in mask',
             j \in {2, 5} => disp'["TSTP"] = "sig_tstp", j \in {3, 4} => disp'["TSTP"] = "DFL",
             j \in {4, 5} => "TSTP" \in sig_pending'
      PROVE  JobctlPhase'
  <2>1. /\ Len(stack') = 2 /\ stack'[1] = stack[1] /\ stack'[2].ip = j /\ stack'[2].old = stack[2].old
        /\ ended' = "no" /\ caught' = caught
    BY <1>1, <1>3, <1>7, MovedHandler
  <2>2. stack'[2].ip \in 1 .. 5 /\ stack'[2].ip # 1
    BY <2>1
  <2>. QED  BY <1>5, <1>7, <2>1, <2>2 DEF JobctlPhase, Sig!HasCaught
<1>8. CASE k = 1
  <2>1. Sig!Instr = <<"mask", mask \cup {"TSTP"}, "oldmask">> /\ disp["TSTP"] = "sig_tstp"
    BY <1>1, <1>3, <1>8, JobctlCode DEF c, JobctlPhase
  <2>2. Moved(2) /\ mask' = mask \cup {"TSTP"} /\ disp' = disp
    BY <1>3, <1>8, <2>1, DoMask
  <2>. QED  BY <1>7, <2>1, <2>2
<1>9. CASE k = 2
  <2>1. Sig!Instr = <<"sigaction", "TSTP", "DFL", "ret">>
    BY <1>3, <1>9, JobctlCode DEF c
  <2>2. Moved(3) /\ disp' = [disp EXCEPT !["TSTP"] = "DFL"] /\ mask' = mask
    BY <1>3, <1>9, <2>1, DoSigaction DEF VarNames
  <2>3. disp'["TSTP"] = "DFL"
    BY <1>6, <2>2 DEF Sig!Sig
  <2>. QED  BY <1>5, <1>7, <2>2, <2>3
<1>10. CASE k = 3
  <2>1. Sig!Instr = <<"kill", "TSTP">> /\ disp["TSTP"] = "DFL"
    BY <1>1, <1>3, <1>10, JobctlCode DEF c, JobctlPhase
  <2>2. Moved(4) /\ disp' = disp /\ mask' = mask /\ sig_pending' = Sig!Raised("TSTP")
    BY <1>3, <1>10, <2>1, DoKill
  <2>3. "TSTP" \in sig_pending'
    BY <2>1, <2>2 DEF Sig!Raised, Sig!Ignored
  <2>. QED  BY <1>5, <1>7, <2>1, <2>2, <2>3
<1>11. CASE k = 4
  <2>1. Sig!Instr = <<"sigaction", "TSTP", "sig_tstp", "ret">> /\ "TSTP" \in sig_pending
    BY <1>1, <1>3, <1>11, JobctlCode DEF c, JobctlPhase
  <2>2. Moved(5) /\ disp' = [disp EXCEPT !["TSTP"] = "sig_tstp"] /\ mask' = mask /\ sig_pending' = sig_pending
    BY <1>3, <1>11, <2>1, DoSigaction DEF VarNames
  <2>3. disp'["TSTP"] = "sig_tstp"
    BY <1>6, <2>2 DEF Sig!Sig
  <2>. QED  BY <1>5, <1>7, <2>1, <2>2, <2>3
<1>. QED  BY <1>4, <1>8, <1>9, <1>10, <1>11

LEMMA JobctlStep ==
    ASSUME Machine, OwnInv, JobctlPhase, who = "jobctl", [Sig!SigprogNext]_sigprogVars
    PROVE  JobctlPhase'
<1>1. \A s \in sig_pending : s = "TSTP"
  BY DEF OwnInv, Source, Forking, Alarmed, Sig!FromOutside
<1>2. CASE UNCHANGED sigprogVars
  BY <1>2 DEF sigprogVars, JobctlPhase, Sig!HasCaught
<1>3. CASE Kernel
  <2>1. UNCHANGED <<who, stack, disp, mask, ended, caught>>
    BY <1>3, KernelDoes
  <2>2. sig_pending \subseteq sig_pending'
    BY <1>3, KernelDoes DEF Gains
  <2>. QED  BY <2>1, <2>2 DEF JobctlPhase, Sig!HasCaught
<1>4. CASE Sig!Deliver
  <2>1. PICK s \in Sig!Sig :
           /\ ended = "no" /\ s \in sig_pending /\ s \notin mask /\ UNCHANGED <<who, disp>>
           /\ Handled(s) \/ Dropped(s) \/ Kills(s)
    BY <1>4, DeliverDoes
  <2>2. s = "TSTP" /\ Len(stack) = 1 /\ ~stack[1].wait /\ Sig!Top = stack[1]
    BY <1>1, <2>1 DEF JobctlPhase, Sig!Top
  <2>3. CASE Handled(s)
    <3>1. /\ disp'["TSTP"] = "sig_tstp" /\ ended' = "no" /\ mask' = mask \cup {"TSTP"}
          /\ Len(stack') = 2 /\ ~stack'[1].wait /\ stack'[2].ip = 1 /\ stack'[2].old = mask
      BY <2>1, <2>2, <2>3 DEF Handled, OldMask, OwnInv, OwnAct, Handlers
    <3>2. Sig!HasCaught("TSTP")'
      BY <2>2, <2>3, CaughtNow
    <3>. QED  BY <2>1, <2>2, <3>1, <3>2 DEF JobctlPhase
  <2>4. CASE Dropped(s) \/ Kills(s)
    <3>1. UNCHANGED <<stack, mask, caught>> /\ disp["TSTP"] # "sig_tstp"
      BY <2>2, <2>4 DEF Dropped, Kills, Sig!Ignored
    <3>. QED  BY <2>2, <3>1 DEF JobctlPhase, Sig!HasCaught
  <2>. QED  BY <2>1, <2>3, <2>4
<1>5. CASE Sig!Return
  <2>1. /\ ended = "no" /\ Sig!Deliverable = {} /\ Sig!Top.ip > Len(Sig!Code(Sig!Top.fn))
        /\ UNCHANGED <<who, disp, sig_pending, caught>>
        /\ \/ Len(stack) > 1 /\ Len(stack') = Len(stack) - 1 /\ mask' = Sig!Top.old /\ UNCHANGED ended
           \/ Len(stack) = 1 /\ UNCHANGED <<stack, mask>>
    BY <1>5, ReturnDoes
  <2>2. CASE Sig!HasCaught("TSTP")
    <3>1. Len(stack) = 2 /\ Sig!Top = stack[2] /\ ~stack[1].wait
      BY <2>1, <2>2 DEF JobctlPhase, Sig!Deliverable, Sig!Top
    <3>2. stack[2].fn = "sig_tstp"
      BY <3>1 DEF Machine, StackInv, OwnInv, OwnAct, Handlers
    <3>3. stack[2].ip = 5
      BY <2>1, <2>2, <3>1, <3>2, JobctlCode DEF JobctlPhase
    <3>4. "TSTP" \in sig_pending /\ disp["TSTP"] = "sig_tstp" /\ "TSTP" \notin stack[2].old
      BY <2>2, <3>1, <3>3 DEF JobctlPhase
    <3>5. stack'[1] = stack[1]
      BY <1>5, ReturnMain
    <3>. QED  BY <2>1, <2>2, <3>1, <3>4, <3>5 DEF JobctlPhase, Sig!HasCaught
  <2>3. CASE ~Sig!HasCaught("TSTP")
    <3>1. Len(stack) = 1 /\ "TSTP" \notin mask /\ ~stack[1].wait
      BY <2>3 DEF JobctlPhase
    <3>2. UNCHANGED <<stack, mask, caught>>
      BY <2>1, <3>1
    <3>. QED  BY <2>3, <3>1, <3>2 DEF JobctlPhase, Sig!HasCaught
  <2>. QED  BY <2>2, <2>3
<1>6. CASE Executes
  BY <1>6, JobctlMain, JobctlHandler
<1>. QED  BY <1>2, <1>3, <1>4, <1>5, <1>6, OneOf

(* The system() of ch10_system2.c; "empty" and sig_cld() are its handlers. *)
LEMMA ChildStart == Sig!SigprogInit /\ who \in {"system2", "system2_reaping"} => ChildPhase
<1>. SUFFICES ASSUME Sig!SigprogInit PROVE ChildPhase
  OBVIOUS
<1>1. stack[1].ip = 1 /\ Len(stack) = 1 /\ ended = "no" /\ caught = {} /\ sig_pending = {} /\ child.status = "none"
  BY DEF Sig!SigprogInit, Sig!Frame
<1>. QED  BY <1>1 DEF ChildPhase

LEMMA ChildExecutes ==
    ASSUME Machine, ChildPhase, who \in {"system2", "system2_reaping"}, Len(stack) = 1, Executes
    PROVE  ChildPhase'
<1>. DEFINE k == stack[1].ip  c == Sig!Code(who)  h == IF who = "system2" THEN "empty" ELSE "sig_cld"
<1>1. k \in Nat \ {0} /\ k <= Len(c) /\ Sig!Instr = c[k] /\ ended = "no" /\ Sig!Top = stack[1]
  BY InMain
<1>2. IsSystem2(c, h)
  <2>1. c = Sig!MainSystem(Sig!Call(Sig!System2), h)
    BY Zenon DEF Sig!Code
  <2>. QED  BY <2>1, System2Code
<1>. HIDE DEF c, h
<1>3. k \in 1 .. 13
  BY <1>1, <1>2 DEF IsSystem2
<1>4. /\ k \in 7 .. 12 => "CHLD" \in mask
      /\ child.status = "none" => "CHLD" \notin sig_pending
      /\ k \in 1 .. 7 => child.status = "none"
      /\ \A e \in caught : ~e.command
  BY DEF ChildPhase, MainMask
<1>5. ASSUME NEW j, Moved(j)
      PROVE  /\ Len(stack') = 1 /\ stack'[1].ip = j /\ ended' = "no" /\ caught' = caught /\ MainMask' = mask'
  <2>1. Len(stack') = 1 /\ stack'[1].ip = j /\ ended' = ended /\ caught' = caught
    BY <1>5, MovedMain
  <2>. QED  BY <1>1, <2>1 DEF MainMask
<1>6. ASSUME k \notin 7 .. 9, Moved(k + 1), UNCHANGED child, var'.pid = var.pid, var'.status = var.status,
             sig_pending' \subseteq sig_pending, k \in 6 .. 11 => "CHLD" \in mask'
      PROVE  ChildPhase'
  <2>1. /\ Len(stack') = 1 /\ stack'[1].ip = k + 1 /\ ended' = "no" /\ caught' = caught /\ MainMask' = mask'
    BY <1>5, <1>6
  <2>2. k >= 10 => var.pid = 1 \/ (var.pid = -1 /\ var.status = "failed" /\ child.status = "none")
    BY <1>3 DEF ChildPhase
  <2>3. k >= 10 /\ var.pid = 1 => child.status = "reaped" /\ var.status = "code"
    BY <1>3 DEF ChildPhase
  <2>. HIDE DEF k
  <2>4. k \in 1 .. 6 \/ k \in 10 .. 13
    BY <1>3, <1>6
  <2>. QED  BY <1>4, <1>6, <2>1, <2>2, <2>3, <2>4 DEF ChildPhase
<1>. HIDE DEF k
<1>7. CASE k \in {1, 2, 4, 5, 10, 11}
  <2>1. /\ k = 1 => Sig!Instr = <<"sigaction", "INT", "empty", "ret">>
        /\ k = 2 => Sig!Instr = <<"sigaction", "CHLD", h, "ret">>
        /\ k = 4 => Sig!Instr = <<"sigaction", "INT", "IGN", "oldact">>
        /\ k = 5 => Sig!Instr = <<"sigaction", "QUIT", "IGN", "oldact2">>
        /\ k = 10 => Sig!Instr = <<"sigaction", "INT", var.oldact, "ret">>
        /\ k = 11 => Sig!Instr = <<"sigaction", "QUIT", var.oldact2, "ret">>
    BY <1>1, <1>2 DEF IsSystem2
  <2>2. PICK s, a : \E x \in {"ret", "oldact", "oldact2"} : Sig!Instr = <<"sigaction", s, a, x>>
    BY <1>7, <2>1
  <2>3. PICK x \in {"ret", "oldact", "oldact2"} : Sig!Instr = <<"sigaction", s, a, x>>
    BY <2>2
  <2>4. x \in VarNames
    BY DEF VarNames
  <2>5. /\ Moved(k + 1) /\ Changed(x, disp[s]) /\ sig_pending' \subseteq sig_pending /\ UNCHANGED <<mask, child>>
    BY <1>1, <2>3, <2>4, DoSigaction DEF k
  <2>6. var'.pid = var.pid /\ var'.status = var.status
    BY <2>5 DEF Changed, VarNames
  <2>. QED  BY <1>4, <1>6, <1>7, <2>5, <2>6
<1>8. CASE k = 3
  <2>1. Sig!Instr = <<"set", "before", [disp |-> disp, mask |-> mask]>>
    BY <1>1, <1>2, <1>8 DEF IsSystem2
  <2>2. Moved(k + 1) /\ Changed("before", [disp |-> disp, mask |-> mask]) /\ UNCHANGED <<sig_pending, child>>
    BY <1>1, <2>1, DoSet DEF VarNames, k
  <2>. QED  BY <1>6, <1>8, <2>2 DEF Changed, VarNames
<1>9. CASE k = 6
  <2>1. Sig!Instr = <<"mask", mask \cup {"CHLD"}, "oldmask">>
    BY <1>1, <1>2, <1>9 DEF IsSystem2
  <2>2. Moved(k + 1) /\ mask' = mask \cup {"CHLD"} /\ Changed("oldmask", mask) /\ UNCHANGED <<sig_pending, child>>
    BY <1>1, <2>1, DoMask DEF k
  <2>. QED  BY <1>6, <1>9, <2>2 DEF Changed, VarNames
<1>10. CASE k = 7
  <2>1. Sig!Instr = <<"fork", [disp EXCEPT !["INT"] = var.oldact, !["QUIT"] = var.oldact2], var.oldmask>>
    BY <1>1, <1>2, <1>10 DEF IsSystem2
  <2>2. /\ Moved(Sig!Top.ip + 1) /\ UNCHANGED <<mask, sig_pending>>
        /\ \/ child'.status = "runs" /\ var'.pid = 1
           \/ UNCHANGED child /\ var'.pid = -1 /\ var'.status = "failed"
    BY <2>1, DoFork
  <2>3. Len(stack') = 1 /\ stack'[1].ip = 8 /\ ended' = "no" /\ caught' = caught /\ MainMask' = mask'
    BY <1>1, <1>5, <1>10, <2>2 DEF k
  <2>. QED  BY <1>4, <1>10, <2>2, <2>3 DEF ChildPhase
<1>11. CASE k = 8
  <2>1. Sig!Instr = <<"skip", var.pid = -1, 1>>
    BY <1>1, <1>2, <1>11 DEF IsSystem2
  <2>2. /\ IF var.pid = -1 THEN Moved(Sig!Top.ip + 1 + 1) ELSE Moved(Sig!Top.ip + 1)
        /\ UNCHANGED <<mask, sig_pending, var, child>>
    BY <2>1, DoSkip, 1 \in Int, Zenon
  <2>3. Sig!Top.ip + 1 + 1 = 10 /\ Sig!Top.ip + 1 = 9
    BY <1>1, <1>11 DEF k
  <2>4. \/ var.pid = 1 /\ child.status \in {"runs", "zombie"}
        \/ var.pid = -1 /\ var.status = "failed" /\ child.status = "none"
    BY <1>11 DEF ChildPhase, k
  <2>5. CASE var.pid = -1
    <3>1. Len(stack') = 1 /\ stack'[1].ip = 10 /\ ended' = "no" /\ caught' = caught /\ MainMask' = mask'
      BY <1>5, <2>2, <2>3, <2>5
    <3>. QED  BY <1>4, <1>11, <2>2, <2>4, <2>5, <3>1 DEF ChildPhase
  <2>6. CASE var.pid # -1
    <3>1. Len(stack') = 1 /\ stack'[1].ip = 9 /\ ended' = "no" /\ caught' = caught /\ MainMask' = mask'
      BY <1>5, <2>2, <2>3, <2>6
    <3>. QED  BY <1>4, <1>11, <2>2, <2>4, <2>6, <3>1 DEF ChildPhase
  <2>. QED  BY <2>5, <2>6
<1>12. CASE k = 9
  <2>1. Sig!Instr = <<"waitpid", "status">>
    BY <1>1, <1>2, <1>12 DEF IsSystem2
  <2>2. /\ Moved(Sig!Top.ip + 1) /\ child.status # "runs"
        /\ Changed("status", IF child.status = "zombie" THEN "code" ELSE "error")
        /\ child'.status = IF child.status = "zombie" THEN "reaped" ELSE child.status
        /\ UNCHANGED <<mask, sig_pending>>
    BY <2>1, DoWait DEF VarNames
  <2>3. var.pid = 1 /\ child.status \in {"runs", "zombie"}
    BY <1>12 DEF ChildPhase, k
  <2>4. child'.status = "reaped" /\ var'.status = "code" /\ var'.pid = 1
    BY <2>2, <2>3 DEF Changed, VarNames
  <2>5. Len(stack') = 1 /\ stack'[1].ip = 10 /\ ended' = "no" /\ caught' = caught /\ MainMask' = mask'
    BY <1>1, <1>5, <1>12, <2>2 DEF k
  <2>. QED  BY <1>4, <1>12, <2>2, <2>4, <2>5 DEF ChildPhase
<1>13. CASE k = 12
  <2>1. Sig!Instr = <<"mask", var.oldmask, "oldmask">>
    BY <1>1, <1>2, <1>13 DEF IsSystem2
  <2>2. Moved(k + 1) /\ Changed("oldmask", mask) /\ UNCHANGED <<sig_pending, child>>
    BY <1>1, <2>1, DoMask DEF k
  <2>. QED  BY <1>6, <1>13, <2>2 DEF Changed, VarNames
<1>14. CASE k = 13
  <2>1. Sig!Instr = <<"left">>
    BY <1>1, <1>2, <1>14 DEF IsSystem2
  <2>2. Moved(k + 1) /\ UNCHANGED <<sig_pending, child, var>>
    BY <1>1, <2>1, DoWake DEF k
  <2>. QED  BY <1>6, <1>14, <2>2
<1>15. k \in {1, 2, 4, 5, 10, 11} \/ k \in {3, 6, 7, 8, 9, 12, 13}
  BY <1>3
<1>. QED  BY <1>7, <1>8, <1>9, <1>10, <1>11, <1>12, <1>13, <1>14, <1>15

(* A handler's wait() finds no child: main() is not between fork() and waitpid(). *)
LEMMA ChildHandler ==
    ASSUME Machine, Tame, ChildPhase, who \in {"system2", "system2_reaping"}, Len(stack) # 1, Executes
    PROVE  ChildPhase'
<1>1. Quiet
  BY HandlerQuiet DEF Executes
<1>2. /\ stack'[1].ip = stack[1].ip /\ MainMask' = MainMask /\ var'.pid = var.pid
      /\ stack[1].ip \notin 5 .. 10 /\ stack[1].ip \in 1 .. 14
  BY <1>1 DEF Quiet, ChildPhase
<1>3. Sig!Top.fn = "sig_cld" /\ Sig!CanRun
  <2>1. Sig!Top.fn = "empty" \/ Sig!Top.fn = "sig_cld"
    BY StackLength DEF Tame, Machine, Sig!Top
  <2>. QED  BY <2>1, NotEmpty, ActionOf DEF Executes
<1>4. Sig!Top.ip \in {1, 2}
  <2>1. Sig!Top.ip \in Nat \ {0} /\ Sig!Top.ip <= 2
    BY <1>3, RunningInstr, HandlerCode
  <2>2. \A x \in Nat \ {0} : x <= 2 => x \in {1, 2}
    OBVIOUS
  <2>. QED  BY <2>1, <2>2
<1>5. child.status # "zombie"
  BY <1>2 DEF ChildPhase
<1>6. /\ UNCHANGED <<ended, caught>> /\ sig_pending' = sig_pending
      /\ child'.status = child.status /\ var'.status = var.status
  <2>1. CASE Sig!Top.ip = 1
    <3>1. Sig!Instr = <<"sigaction", "CHLD", "sig_cld", "ret">>
      BY <1>3, <2>1, HandlerCode DEF Sig!Instr
    <3>2. Moved(Sig!Top.ip + 1) /\ Changed("ret", disp["CHLD"]) /\ UNCHANGED <<sig_pending, child>>
      BY <3>1, DoSigaction DEF VarNames
    <3>. QED  BY <3>2 DEF Changed, VarNames, Moved
  <2>2. CASE Sig!Top.ip = 2
    <3>1. Sig!Instr = <<"waitpid", "reaped">>
      BY <1>3, <2>2, HandlerCode DEF Sig!Instr
    <3>2. /\ Moved(Sig!Top.ip + 1) /\ UNCHANGED sig_pending
          /\ Changed("reaped", IF child.status = "zombie" THEN "code" ELSE "error")
          /\ child'.status = IF child.status = "zombie" THEN "reaped" ELSE child.status
      BY <3>1, DoWait DEF VarNames
    <3>. QED  BY <1>5, <3>2 DEF Changed, VarNames, Moved
  <2>. QED  BY <1>4, <2>1, <2>2
<1>. QED  BY <1>2, <1>6 DEF ChildPhase

LEMMA ChildStep ==
    ASSUME Machine, OwnInv, CallerInv, ChildPhase, who \in {"system2", "system2_reaping"},
           [Sig!SigprogNext]_sigprogVars
    PROVE  ChildPhase'
<1>1. Tame /\ SystemPhase /\ ~stack[1].wait
  BY DEF CallerInv, Callers, Tame
<1>. DEFINE k == stack[1].ip
<1>2. k \in 1 .. 14 /\ (child.status = "runs" => k \in 8 .. 9 /\ var.pid = 1)
  BY DEF ChildPhase
<1>3. \A s \in sig_pending : s \in {"INT", "CHLD"}
  BY DEF OwnInv, Source, Forking, Alarmed, Sig!FromOutside
<1>4. CASE UNCHANGED sigprogVars
  BY <1>4 DEF sigprogVars, ChildPhase, MainMask
<1>5. CASE Kernel
  <2>1. Quiet
    BY <1>1, <1>5, KernelQuiet DEF Kernel
  <2>2. UNCHANGED <<stack, var, ended, caught>> /\ MainMask' = MainMask
    BY <1>5, <2>1, KernelDoes DEF Quiet
  <2>3. \/ child.status = "runs" /\ child'.status = "zombie"
        \/ UNCHANGED child /\ ("CHLD" \in sig_pending' => "CHLD" \in sig_pending)
    <3>1. timer = 0 /\ "CHLD" \notin Sig!FromOutside
      BY DEF OwnInv, Alarmed, Sig!FromOutside
    <3>. QED  BY <1>5, <3>1, KernelDoes DEF Gains
  <2>. QED  BY <1>2, <2>2, <2>3 DEF ChildPhase
<1>6. CASE Sig!Deliver
  <2>1. Quiet
    BY <1>1, <1>6, DeliverQuiet
  <2>2. PICK s \in Sig!Sig :
           /\ ended = "no" /\ s \in sig_pending /\ s \notin mask /\ sig_pending' = sig_pending \ {s}
           /\ UNCHANGED <<who, disp, var, child>>
           /\ Handled(s) \/ Dropped(s) \/ Kills(s)
    BY <1>6, DeliverDoes
  <2>3. stack'[1].ip = k /\ MainMask' = MainMask
    BY <2>1 DEF Quiet
  <2>4. CASE Handled(s)
    <3>1. k \notin 5 .. 10
      <4>1. CASE s = "INT"
        <5>1. disp["INT"] # "IGN"
          BY <2>4, <4>1 DEF Handled, Handlers
        <5>2. k \in 5 .. 10 => disp["INT"] = "IGN"
          BY <1>1 DEF SystemPhase, Sig!Sig
        <5>. QED  BY <5>1, <5>2
      <4>2. CASE s = "CHLD"
        <5>1. k \in 5 .. 7 => FALSE
          BY <2>2, <4>2 DEF ChildPhase
        <5>2. k \in 7 .. 10 => FALSE
          BY <2>2, <4>2 DEF ChildPhase, MainMask
        <5>. HIDE DEF k
        <5>. QED  BY <1>2, <5>1, <5>2
      <4>. QED  BY <1>3, <2>2, <4>1, <4>2
    <3>2. child.status # "runs"
      BY <1>2, <3>1
    <3>3. \A c \in caught' : ~c.command
      <4>1. \A c \in caught' : c \in caught \/ c.command = (child.status = "runs")
        BY <2>4 DEF Handled
      <4>2. \A c \in caught : ~c.command
        BY DEF ChildPhase
      <4>. QED  BY <3>2, <4>1, <4>2
    <3>4. ended' = "no"
      BY <2>2, <2>4 DEF Handled
    <3>. QED  BY <2>2, <2>3, <3>1, <3>3, <3>4 DEF ChildPhase
  <2>5. CASE Dropped(s) \/ Kills(s)
    <3>1. UNCHANGED <<stack, caught>> /\ ended' # "exit"
      BY <2>2, <2>5 DEF Dropped, Kills, Sig!Sig
    <3>. QED  BY <2>2, <2>3, <3>1 DEF ChildPhase
  <2>. QED  BY <2>2, <2>4, <2>5
<1>7. CASE Sig!Return
  <2>1. MainMask' = MainMask /\ stack'[1].ip = k
    BY <1>1, <1>7, ReturnQuiet DEF Quiet
  <2>2. /\ ended = "no" /\ Sig!Top.ip > Len(Sig!Code(Sig!Top.fn))
        /\ UNCHANGED <<who, sig_pending, var, child, caught>>
        /\ (Len(stack) > 1 /\ UNCHANGED ended) \/ (Len(stack) = 1 /\ UNCHANGED stack)
    BY <1>7, ReturnDoes
  <2>3. CASE Len(stack) # 1
    <3>1. k \notin 5 .. 10
      BY <2>3 DEF ChildPhase
    <3>2. ended' = "no"
      BY <2>2, <2>3
    <3>. QED  BY <2>1, <2>2, <3>1, <3>2 DEF ChildPhase
  <2>4. CASE Len(stack) = 1
    <3>1. Sig!Top.fn = who /\ Sig!Top.ip = k
      BY <2>4 DEF Sig!Top, Machine, StackInv
    <3>2. Len(Sig!Code(who)) = 13
      <4>. DEFINE c == Sig!Code(who)  h == IF who = "system2" THEN "empty" ELSE "sig_cld"
      <4>1. c = Sig!MainSystem(Sig!Call(Sig!System2), h)
        BY Zenon DEF Sig!Code
      <4>2. IsSystem2(c, h)
        BY <4>1, System2Code
      <4>. QED  BY <4>2 DEF IsSystem2
    <3>3. k = 14
      <4>. HIDE DEF k
      <4>. QED  BY <1>2, <2>2, <3>1, <3>2
    <3>4. UNCHANGED stack
      BY <2>2, <2>4
    <3>. QED  BY <2>1, <2>2, <3>3, <3>4 DEF ChildPhase
  <2>. QED  BY <2>2, <2>3, <2>4
<1>8. CASE Executes
  BY <1>1, <1>8, ChildExecutes, ChildHandler
<1>. QED  BY <1>4, <1>5, <1>6, <1>7, <1>8, OneOf

(* The function of ch08_system.c under a handler of SIGCHLD that waits. *)
LEMMA ReapStart == Sig!SigprogInit /\ who = "system_reaping" => ReapPhase
<1>. SUFFICES ASSUME Sig!SigprogInit PROVE ReapPhase
  OBVIOUS
<1>1. /\ stack[1].ip = 1 /\ ~stack[1].wait /\ Len(stack) = 1 /\ ended = "no" /\ sig_pending = {}
      /\ child.status = "none"
  BY DEF Sig!SigprogInit, Sig!Frame
<1>2. var.pid = 0 /\ var.status = "none" /\ var.reaped = "none"
  BY DEF Sig!SigprogInit, Sig!NoVars
<1>. QED  BY <1>1, <1>2 DEF ReapPhase, ReapMain, ReapFrames

(* No handler that has not waited yet is added, and nothing it relies on changes. *)
LEMMA FramesSame ==
    ASSUME ReapFrames, UNCHANGED child, var'.reaped = var.reaped,
           "CHLD" \in sig_pending' => "CHLD" \in sig_pending,
           \A m \in 2 .. Len(stack') : m \in 2 .. Len(stack) /\ (Reaping(m)' => Reaping(m))
    PROVE  ReapFrames'
BY DEF ReapFrames, Over

LEMMA ReapExecutes ==
    ASSUME Machine, ReapPhase, who = "system_reaping", Len(stack) = 1, Executes
    PROVE  ReapPhase'
<1>. DEFINE k == stack[1].ip  c == Sig!Code("system_reaping")
<1>1. k \in Nat \ {0} /\ k <= Len(c) /\ Sig!Instr = c[k] /\ ended = "no" /\ Sig!Top = stack[1]
  BY InMain
<1>2. IsPlain(c, "sig_cld")
  <2>1. c = Sig!MainSystem(Sig!PlainSystem, "sig_cld")
    BY DEF Sig!Code
  <2>. QED  BY <2>1, PlainCode
<1>. HIDE DEF c
<1>3. k \in 1 .. 5
  BY <1>1, <1>2 DEF IsPlain
<1>4. ASSUME NEW j, Moved(j)
      PROVE  stack'[1].ip = j /\ ended' = "no" /\ ~stack'[1].wait /\ ReapFrames'
  <2>1. Len(stack') = 1 /\ stack'[1].ip = j /\ ended' = ended /\ ~stack'[1].wait
    BY <1>4, MovedMain
  <2>. QED  BY <1>1, <2>1 DEF ReapFrames
<1>5. ReapMain
  BY DEF ReapPhase
<1>6. CASE k \in {1, 2}
  <2>1. /\ k = 1 => Sig!Instr = <<"sigaction", "INT", "empty", "ret">>
        /\ k = 2 => Sig!Instr = <<"sigaction", "CHLD", "sig_cld", "ret">>
    BY <1>1, <1>2 DEF IsPlain
  <2>2. PICK s, a : Sig!Instr = <<"sigaction", s, a, "ret">>
    BY <1>6, <2>1
  <2>3. Moved(k + 1) /\ Changed("ret", disp[s]) /\ sig_pending' \subseteq sig_pending /\ UNCHANGED child
    BY <1>1, <2>2, DoSigaction DEF VarNames
  <2>4. var'.pid = var.pid /\ var'.status = var.status /\ var'.reaped = var.reaped
    BY <2>3 DEF Changed, VarNames
  <2>5. k + 1 \in {2, 3}
    BY <1>6
  <2>. QED  BY <1>4, <1>5, <1>6, <2>3, <2>4, <2>5 DEF ReapPhase, ReapMain, Over
<1>7. CASE k = 3
  <2>1. Sig!Instr = <<"fork", disp, mask>>
    BY <1>1, <1>2, <1>7 DEF IsPlain
  <2>2. /\ Moved(4) /\ UNCHANGED sig_pending /\ var'.reaped = var.reaped
        /\ \/ child'.status = "runs" /\ var'.pid = 1 /\ var'.status = var.status
           \/ UNCHANGED child /\ var'.pid = -1 /\ var'.status = "failed"
    BY <1>1, <1>7, <2>1, DoFork DEF VarNames
  <2>. QED  BY <1>4, <1>5, <1>7, <2>2 DEF ReapPhase, ReapMain, Over
<1>8. CASE k = 4
  <2>1. Sig!Instr = <<"skip", var.pid = -1, 1>>
    BY <1>1, <1>2, <1>8 DEF IsPlain
  <2>2. /\ IF var.pid = -1 THEN Moved(Sig!Top.ip + 1 + 1) ELSE Moved(Sig!Top.ip + 1)
        /\ UNCHANGED <<sig_pending, var, child>>
    BY <2>1, DoSkip, 1 \in Int, Zenon
  <2>3. Sig!Top.ip + 1 + 1 = 6 /\ Sig!Top.ip + 1 = 5
    BY <1>1, <1>8
  <2>4. IF var.pid = -1 THEN Moved(6) ELSE Moved(5)
    BY <2>2, <2>3
  <2>. QED  BY <1>4, <1>5, <1>8, <2>2, <2>4 DEF ReapPhase, ReapMain, Over
<1>9. CASE k = 5
  <2>1. Sig!Instr = <<"waitpid", "status">>
    BY <1>1, <1>2, <1>9 DEF IsPlain
  <2>2. /\ Moved(6) /\ child.status # "runs" /\ UNCHANGED sig_pending
        /\ Changed("status", IF child.status = "zombie" THEN "code" ELSE "error")
        /\ child'.status = IF child.status = "zombie" THEN "reaped" ELSE child.status
    BY <1>1, <1>9, <2>1, DoWait DEF VarNames
  <2>3. var'.pid = var.pid /\ var'.reaped = var.reaped /\ child'.status = "reaped"
        /\ var'.status = IF child.status = "zombie" THEN "code" ELSE "error"
    BY <1>5, <1>9, <2>2 DEF Changed, VarNames, ReapMain
  <2>. QED  BY <1>4, <1>5, <1>9, <2>2, <2>3 DEF ReapPhase, ReapMain, Over
<1>. QED  BY <1>3, <1>6, <1>7, <1>8, <1>9

(* The handler takes the status if main() did not. *)
LEMMA ReapHandler ==
    ASSUME Machine, OwnInv, ReapPhase, who = "system_reaping", Len(stack) # 1, Executes
    PROVE  ReapPhase'
<1>. DEFINE m == Len(stack)
<1>1. m \in Nat /\ m \in 2 .. m /\ Sig!Top = stack[m] /\ m = Len(stack)
  BY StackLength DEF Machine, Sig!Top
<1>2. Sig!Top.fn = "sig_cld" /\ Sig!CanRun /\ ended = "no"
  <2>1. Sig!Top.fn \in Handlers /\ \E s \in Sig!Sig : OwnAct(s, Sig!Top.fn)
    BY <1>1 DEF Machine, StackInv, OwnInv
  <2>. QED  BY <2>1, NotEmpty, ActionOf DEF Executes, OwnAct, Handlers, Sig!CanRun
<1>3. Sig!Top.ip \in {1, 2}
  <2>1. Sig!Top.ip \in Nat \ {0} /\ Sig!Top.ip <= 2
    BY <1>2, RunningInstr, HandlerCode
  <2>2. \A x \in Nat \ {0} : x <= 2 => x \in {1, 2}
    OBVIOUS
  <2>. QED  BY <2>1, <2>2
<1>4. Reaping(m) /\ Over /\ var.reaped # "code" /\ "CHLD" \notin sig_pending
      /\ \A j \in 2 .. m : Reaping(j) => m = j
  <2>1. Reaping(m)
    BY <1>1, <1>2, <1>3 DEF Reaping
  <2>. QED  BY <1>1, <2>1 DEF ReapPhase, ReapFrames
<1>. HIDE DEF m
<1>5. \A j \in 2 .. m : j = m \/ j \in 1 .. m - 1
  BY <1>1
<1>6. 1 \in 1 .. m - 1
  BY <1>1
<1>7. ASSUME NEW ip, Moved(ip)
      PROVE  /\ Len(stack') = m /\ stack'[1] = stack[1] /\ ended' = "no"
             /\ stack'[m].ip = ip /\ \A j \in 2 .. m : j # m => stack'[j] = stack[j]
  BY <1>1, <1>2, <1>5, <1>6, <1>7 DEF Moved
<1>8. CASE Sig!Top.ip = 1
  <2>1. Sig!Instr = <<"sigaction", "CHLD", "sig_cld", "ret">>
    BY <1>2, <1>8, HandlerCode DEF Sig!Instr
  <2>2. Moved(2) /\ Changed("ret", disp["CHLD"]) /\ sig_pending' = sig_pending /\ UNCHANGED child
    BY <1>8, <2>1, DoSigaction DEF VarNames
  <2>3. var'.pid = var.pid /\ var'.status = var.status /\ var'.reaped = var.reaped
    BY <2>2 DEF Changed, VarNames
  <2>4. ReapMain'
    BY <1>7, <2>2, <2>3 DEF ReapPhase, ReapMain, Over
  <2>5. \A j \in 2 .. Len(stack') : j \in 2 .. Len(stack) /\ (Reaping(j)' => Reaping(j))
    BY <1>1, <1>4, <1>7, <2>2 DEF Reaping
  <2>6. ReapFrames'
    BY <2>2, <2>3, <2>5, FramesSame DEF ReapPhase
  <2>. QED  BY <2>4, <2>6 DEF ReapPhase
<1>9. CASE Sig!Top.ip = 2
  <2>1. Sig!Instr = <<"waitpid", "reaped">>
    BY <1>2, <1>9, HandlerCode DEF Sig!Instr
  <2>2. /\ Moved(3) /\ sig_pending' = sig_pending
        /\ Changed("reaped", IF child.status = "zombie" THEN "code" ELSE "error")
        /\ child'.status = IF child.status = "zombie" THEN "reaped" ELSE child.status
    BY <1>9, <2>1, DoWait DEF VarNames
  <2>3. /\ var'.pid = var.pid /\ var'.status = var.status
        /\ var'.reaped = (IF child.status = "zombie" THEN "code" ELSE "error") /\ child'.status = "reaped"
    BY <1>4, <2>2 DEF Changed, VarNames, Over
  <2>4. ReapMain'
    BY <1>4, <1>7, <2>2, <2>3 DEF ReapPhase, ReapMain, Over
  <2>5. \A j \in 2 .. Len(stack') : ~Reaping(j)'
    BY <1>4, <1>7, <2>2 DEF Reaping
  <2>6. ReapFrames'
    BY <2>5 DEF ReapFrames
  <2>. QED  BY <2>4, <2>6 DEF ReapPhase
<1>. QED  BY <1>3, <1>8, <1>9

LEMMA ReapStep ==
    ASSUME Machine, OwnInv, ReapPhase, who = "system_reaping", [Sig!SigprogNext]_sigprogVars
    PROVE  ReapPhase'
<1>1. \A s \in sig_pending : s \in {"INT", "CHLD"}
  BY DEF OwnInv, Source, Forking, Alarmed, Sig!FromOutside
<1>. DEFINE m == Len(stack)
<1>2. m \in Nat /\ m \in 1 .. m /\ Sig!Top = stack[m] /\ m = Len(stack)
  BY StackLength DEF Machine, Sig!Top
<1>3. CASE UNCHANGED sigprogVars
  BY <1>3 DEF sigprogVars, ReapPhase, ReapMain, ReapFrames, Reaping, Over
<1>4. CASE Kernel
  <2>1. UNCHANGED <<who, stack, disp, mask, var, ended, caught>>
    BY <1>4, KernelDoes
  <2>2. \/ child.status = "runs" /\ child'.status = "zombie"
        \/ UNCHANGED child /\ ("CHLD" \in sig_pending' => "CHLD" \in sig_pending)
    <3>1. timer = 0 /\ "CHLD" \notin Sig!FromOutside
      BY DEF OwnInv, Alarmed, Sig!FromOutside
    <3>. QED  BY <1>4, <3>1, KernelDoes DEF Gains
  <2>3. ReapMain'
    BY <2>1, <2>2 DEF ReapPhase, ReapMain, Over
  <2>4. CASE child.status = "runs"
    <3>1. \A j \in 2 .. Len(stack') : ~Reaping(j)'
      BY <2>1, <2>4 DEF ReapPhase, ReapFrames, Reaping, Over
    <3>. QED  BY <2>3, <3>1 DEF ReapPhase, ReapFrames
  <2>5. CASE child.status # "runs"
    <3>1. \A j \in 2 .. Len(stack') : j \in 2 .. Len(stack) /\ (Reaping(j)' => Reaping(j))
      BY <2>1 DEF Reaping
    <3>2. ReapFrames'
      BY <2>1, <2>2, <2>5, <3>1, FramesSame DEF ReapPhase
    <3>. QED  BY <2>3, <3>2 DEF ReapPhase
  <2>. QED  BY <2>4, <2>5
<1>5. CASE Sig!Deliver
  <2>1. PICK s \in Sig!Sig :
           /\ ended = "no" /\ s \in sig_pending /\ s \notin mask /\ sig_pending' = sig_pending \ {s}
           /\ UNCHANGED <<who, disp, var, child>>
           /\ Handled(s) \/ Dropped(s) \/ Kills(s)
    BY <1>5, DeliverDoes
  <2>2. CASE Dropped(s) \/ Kills(s)
    <3>1. UNCHANGED stack /\ ended' # "exit"
      BY <2>1, <2>2 DEF Dropped, Kills, Sig!Sig
    <3>2. ReapMain'
      BY <2>1, <3>1 DEF ReapPhase, ReapMain, Over
    <3>3. \A j \in 2 .. Len(stack') : j \in 2 .. Len(stack) /\ (Reaping(j)' => Reaping(j))
      BY <3>1 DEF Reaping
    <3>4. ReapFrames'
      BY <2>1, <3>3, FramesSame DEF ReapPhase
    <3>. QED  BY <3>2, <3>4 DEF ReapPhase
  <2>3. CASE Handled(s)
    <3>1. ended' = "no" /\ ~stack'[1].wait /\ stack'[1].ip = stack[1].ip
      BY <2>1, <2>3, HandledMain DEF Handled, ReapPhase, ReapMain
    <3>2. ReapMain'
      BY <2>1, <3>1 DEF ReapPhase, ReapMain, Over
    <3>3. ~Sig!Top.wait
      BY <1>2 DEF Machine, StackInv, ReapPhase, ReapMain
    <3>4. /\ Len(stack') = m + 1 /\ stack'[m + 1].fn = disp[s]
          /\ stack'[m].ip = stack[m].ip /\ stack'[m].fn = stack[m].fn
          /\ \A k \in 1 .. m - 1 : stack'[k] = stack[k]
      BY <1>2, <2>3, <3>3 DEF Handled
    <3>. HIDE DEF m
    <3>5. \A j \in 2 .. m + 1 : j = m + 1 \/ (j \in 2 .. m /\ (j = m \/ j \in 1 .. m - 1))
      BY <1>2
    <3>6. \A j \in 2 .. m + 1 : j # m + 1 => j \in 2 .. m /\ (Reaping(j)' => Reaping(j))
      BY <3>4, <3>5 DEF Reaping
    <3>7. CASE disp[s] = "sig_cld"
      <4>1. s = "CHLD"
        BY <2>1, <3>7 DEF OwnInv, OwnAct
      <4>2. Over /\ var.reaped # "code"
        BY <2>1, <4>1 DEF ReapPhase, ReapMain
      <4>3. \A j \in 2 .. m : ~Reaping(j)
        BY <1>2, <2>1, <4>1 DEF ReapPhase, ReapFrames
      <4>4. \A j \in 2 .. m + 1 : Reaping(j)' => j = m + 1
        BY <3>6, <4>3
      <4>5. Over' /\ var'.reaped # "code" /\ "CHLD" \notin sig_pending'
        BY <2>1, <4>1, <4>2 DEF Over
      <4>6. ReapFrames'
        BY <3>4, <4>4, <4>5 DEF ReapFrames
      <4>. QED  BY <3>2, <4>6 DEF ReapPhase
    <3>8. CASE disp[s] # "sig_cld"
      <4>1. \A j \in 2 .. m + 1 : Reaping(j)' => j \in 2 .. m /\ Reaping(j)
        BY <3>4, <3>6, <3>8 DEF Reaping
      <4>2. Over' = Over /\ var' = var /\ ("CHLD" \in sig_pending' => "CHLD" \in sig_pending)
        BY <2>1 DEF Over
      <4>3. ReapFrames'
        BY <1>2, <3>4, <4>1, <4>2 DEF ReapPhase, ReapFrames
      <4>. QED  BY <3>2, <4>3 DEF ReapPhase
    <3>. QED  BY <3>7, <3>8
  <2>. QED  BY <2>1, <2>2, <2>3
<1>6. CASE Sig!Return
  <2>1. stack'[1] = stack[1]
    BY <1>6, ReturnMain
  <2>2. /\ ended = "no" /\ Sig!Top.ip > Len(Sig!Code(Sig!Top.fn))
        /\ UNCHANGED <<who, sig_pending, var, child>>
        /\ \/ /\ Len(stack) > 1 /\ Len(stack') = Len(stack) - 1 /\ UNCHANGED ended
              /\ \A k \in 1 .. Len(stack) - 1 : stack'[k] = stack[k]
           \/ Len(stack) = 1 /\ UNCHANGED stack
    BY <1>6, ReturnDoes
  <2>3. CASE Len(stack) # 1
    <3>1. ended' = "no" /\ Len(stack') = m - 1 /\ \A k \in 1 .. m - 1 : stack'[k] = stack[k]
      BY <1>2, <2>2, <2>3
    <3>2. ReapMain'
      BY <2>1, <2>2, <3>1 DEF ReapPhase, ReapMain, Over
    <3>. HIDE DEF m
    <3>3. \A j \in 2 .. m - 1 : j \in 2 .. m /\ j \in 1 .. m - 1
      BY <1>2
    <3>4. \A j \in 2 .. Len(stack') : j \in 2 .. Len(stack) /\ (Reaping(j)' => Reaping(j))
      BY <1>2, <3>1, <3>3 DEF Reaping
    <3>5. ReapFrames'
      BY <2>2, <3>4, FramesSame DEF ReapPhase
    <3>. QED  BY <3>2, <3>5 DEF ReapPhase
  <2>4. CASE Len(stack) = 1
    <3>1. Sig!Top.fn = who /\ Sig!Top = stack[1]
      BY <2>4 DEF Sig!Top, Machine, StackInv
    <3>2. Len(Sig!Code("system_reaping")) = 5
      <4>1. Sig!Code("system_reaping") = Sig!MainSystem(Sig!PlainSystem, "sig_cld")
        BY DEF Sig!Code
      <4>. QED  BY <4>1, PlainCode DEF IsPlain
    <3>3. stack[1].ip = 6
      <4>1. Len(Sig!Code(Sig!Top.fn)) = 5
        BY <3>1, <3>2
      <4>2. stack[1].ip > 5
        BY <2>2, <3>1, <4>1
      <4>3. stack[1].ip \in 1 .. 6
        BY DEF ReapPhase, ReapMain
      <4>. QED  BY <4>2, <4>3
    <3>4. UNCHANGED stack
      BY <2>2, <2>4
    <3>5. ReapMain'
      BY <2>2, <3>3, <3>4 DEF ReapPhase, ReapMain, Over
    <3>6. ReapFrames'
      <4>1. Len(stack') = 1
        BY <2>4, <3>4
      <4>. QED  BY <4>1 DEF ReapFrames
    <3>. QED  BY <3>5, <3>6 DEF ReapPhase
  <2>. QED  BY <2>3, <2>4
<1>7. CASE Executes
  BY <1>7, ReapExecutes, ReapHandler
<1>. QED  BY <1>3, <1>4, <1>5, <1>6, <1>7, OneOf

(* ch10_pause.c and alarm(): a jump from the handler of SIGALRM. *)
SkipsJumped(c) == \E d \in Int : c = <<"skip", var.jumped, d>>
LEMMA AlarmInstr ==
    ASSUME Machine, Executes, who \in {"pause", "alarm"}, Len(stack) = 1
    PROVE  \/ AlarmCall = 0 /\ Sig!Instr = <<"sigaction", "INT", "sig_int_busy", "ret">>
           \/ AlarmCall = 1 /\ Sig!Instr = <<"sigaction", "ALRM", "sig_alrm_jump", "ret">>
           \/ AlarmCall = 2 /\ Sig!Instr = <<"setjmp", FALSE>>
           \/ AlarmCall = 3 /\ SkipsJumped(Sig!Instr)
           \/ AlarmCall = 4 /\ Sig!Instr = <<"alarm", Seconds>>
           \/ AlarmCall = 5 /\ (Sig!Instr = <<"suspend", mask>> \/ Sig!Instr = <<"read">>)
           \/ AlarmCall = 6 /\ Sig!Instr = <<"alarm", 0>>
<1>. DEFINE k == stack[1].ip  c == Sig!Code(who)
<1>1. k \in Nat \ {0} /\ k <= Len(c) /\ Sig!Instr = c[k]
  BY InMain
<1>2. CASE who = "pause"
  <2>1. /\ Len(c) = 7
        /\ c[1] = <<"sigaction", "INT", "sig_int_busy", "ret">>
        /\ c[2] = <<"sigaction", "ALRM", "sig_alrm_jump", "ret">>
        /\ c[3] = <<"setjmp", FALSE>>
        /\ c[5] = <<"alarm", Seconds>>
        /\ c[6] = <<"suspend", mask>>
        /\ c[7] = <<"alarm", 0>>
    BY <1>2, PauseCode
  <2>2. AlarmCall = k - 1
    BY <1>2 DEF AlarmCall
  <2>. HIDE DEF k, c
  <2>3. k \in 1 .. 7
    BY <1>1, <2>1
  <2>5. \A x \in 1 .. 7 : k = x => Sig!Instr = c[x]
    BY <1>1
  <2>4. SkipsJumped(c[4])
    BY <1>2, PauseCode, 2 \in Int DEF SkipsJumped, c
  <2>6. CASE k = 1
    BY <2>1, <2>2, <2>4, <2>5, <2>6
  <2>7. CASE k = 2
    BY <2>1, <2>2, <2>4, <2>5, <2>7
  <2>8. CASE k = 3
    <3>1. AlarmCall = 2 /\ Sig!Instr = c[3]
      BY <2>2, <2>5, <2>8
    <3>2. c[3] = <<"setjmp", FALSE>>
      BY <2>1, Zenon
    <3>. QED  BY <3>1, <3>2, Zenon
  <2>9. CASE k = 4
    BY <2>1, <2>2, <2>4, <2>5, <2>9
  <2>10. CASE k = 5
    BY <2>1, <2>2, <2>4, <2>5, <2>10
  <2>11. CASE k = 6
    BY <2>1, <2>2, <2>4, <2>5, <2>11
  <2>12. CASE k = 7
    BY <2>1, <2>2, <2>4, <2>5, <2>12
  <2>13. k = 1 \/ k = 2 \/ k = 3 \/ k = 4 \/ k = 5 \/ k = 6 \/ k = 7
    BY <2>3
  <2>. QED  BY <2>6, <2>7, <2>8, <2>9, <2>10, <2>11, <2>12, <2>13, Zenon
<1>3. CASE who = "alarm"
  <2>1. /\ Len(c) = 6
        /\ c[1] = <<"sigaction", "ALRM", "sig_alrm_jump", "ret">>
        /\ c[2] = <<"setjmp", FALSE>>
        /\ c[4] = <<"alarm", Seconds>>
        /\ c[5] = <<"read">>
        /\ c[6] = <<"alarm", 0>>
    BY <1>3 DEF Sig!Code, Sig!MainAlarm
  <2>2. AlarmCall = k
    BY <1>3 DEF AlarmCall
  <2>. HIDE DEF k, c
  <2>3. k \in 1 .. 6
    BY <1>1, <2>1
  <2>5. \A x \in 1 .. 6 : k = x => Sig!Instr = c[x]
    BY <1>1
  <2>4. SkipsJumped(c[3])
    <3>1. c[3] = <<"skip", var.jumped, 3>>
      BY <1>3 DEF c, Sig!Code, Sig!MainAlarm
    <3>. QED  BY <3>1, 3 \in Int DEF SkipsJumped
  <2>6. CASE k = 1
    BY <2>1, <2>2, <2>4, <2>5, <2>6
  <2>7. CASE k = 2
    <3>1. AlarmCall = 2 /\ Sig!Instr = c[2]
      BY <2>2, <2>5, <2>7
    <3>2. c[2] = <<"setjmp", FALSE>>
      BY <2>1, Zenon
    <3>. QED  BY <3>1, <3>2, Zenon
  <2>8. CASE k = 3
    BY <2>1, <2>2, <2>4, <2>5, <2>8
  <2>9. CASE k = 4
    BY <2>1, <2>2, <2>4, <2>5, <2>9
  <2>10. CASE k = 5
    BY <2>1, <2>2, <2>4, <2>5, <2>10
  <2>11. CASE k = 6
    BY <2>1, <2>2, <2>4, <2>5, <2>11
  <2>12. k = 1 \/ k = 2 \/ k = 3 \/ k = 4 \/ k = 5 \/ k = 6
    BY <2>3
  <2>. QED  BY <2>6, <2>7, <2>8, <2>9, <2>10, <2>11, <2>12, Zenon
<1>. QED  BY <1>2, <1>3

LEMMA AlarmStart == Sig!SigprogInit /\ who \in {"pause", "alarm"} => AlarmJump
<1>. SUFFICES ASSUME Sig!SigprogInit, who \in {"pause", "alarm"} PROVE AlarmJump
  OBVIOUS
<1>1. /\ stack[1].ip = 1 /\ ~stack[1].wait /\ Len(stack) = 1 /\ ended = "no" /\ sig_pending = {} /\ cut = {}
      /\ timer = 0
  BY DEF Sig!SigprogInit, Sig!Frame
<1>2. AlarmCall \in 0 .. 2
  BY <1>1 DEF AlarmCall
<1>. QED  BY <1>1, <1>2 DEF AlarmJump, Unarmed

LEMMA AlarmExecutes ==
    ASSUME Machine, AlarmJump, who \in {"pause", "alarm"}, Len(stack) = 1, Executes
    PROVE  AlarmJump'
<1>. DEFINE k == AlarmCall
<1>1. ended = "no" /\ Sig!Top = stack[1] /\ stack[1].ip \in Nat \ {0} /\ ~stack[1].wait
  BY InMain
<1>2. var.jmp.set \/ (Unarmed /\ k \in 0 .. 2)
  BY DEF AlarmJump, AlarmCall
<1>3. ASSUME Len(stack') = 1, UNCHANGED <<who, ended, caught, cut>>,
             var'.jmp.set \/ (Unarmed' /\ k' \in 0 .. 2 /\ ~stack'[1].wait)
      PROVE  AlarmJump'
  <2>1. Sig!HasCaught("INT") \/ cut = {}
    BY DEF AlarmJump
  <2>. QED  BY <1>1, <1>3, <2>1 DEF AlarmJump, AlarmCall, Sig!HasCaught
<1>4. ASSUME NEW j, Moved(j)
      PROVE  Len(stack') = 1 /\ UNCHANGED <<who, ended, caught, cut>> /\ stack'[1].ip = j /\ ~stack'[1].wait
  BY <1>4, MovedMain
<1>5. k' = IF who' = "pause" THEN stack'[1].ip - 1 ELSE stack'[1].ip
  BY DEF AlarmCall
<1>6. k = IF who = "pause" THEN stack[1].ip - 1 ELSE stack[1].ip
  BY DEF AlarmCall
<1>. HIDE DEF k
<1>7. ASSUME NEW s, NEW a, Sig!Instr = <<"sigaction", s, a, "ret">>, k \in {0, 1} PROVE AlarmJump'
  <2>1. Moved(stack[1].ip + 1) /\ Changed("ret", disp[s]) /\ sig_pending' \subseteq sig_pending /\ UNCHANGED timer
    BY <1>1, <1>7, DoSigaction DEF VarNames
  <2>2. /\ Len(stack') = 1 /\ UNCHANGED <<who, ended, caught, cut>> /\ stack'[1].ip = stack[1].ip + 1
        /\ ~stack'[1].wait
    BY <1>4, <2>1
  <2>3. k' \in {1, 2}
    BY <1>1, <1>5, <1>6, <1>7, <2>2
  <2>4. var'.jmp = var.jmp /\ (Unarmed => Unarmed')
    BY <2>1 DEF Changed, VarNames, Unarmed
  <2>. QED  BY <1>2, <1>3, <2>2, <2>3, <2>4
<1>8. ASSUME NEW j, Moved(j), var'.jmp.set PROVE AlarmJump'
  BY <1>3, <1>4, <1>8
<1>9. CASE k = 2 /\ Sig!Instr = <<"setjmp", FALSE>>
  <2>1. /\ Moved(Sig!Top.ip + 1)
        /\ Changed("jmp", [set |-> TRUE, depth |-> Len(stack), ip |-> Sig!Top.ip + 1, saves |-> FALSE,
                           mask |-> mask])
    BY <1>9, DoSetJmp
  <2>2. var'.jmp.set
    BY <2>1 DEF Changed
  <2>. QED  BY <1>8, <2>1, <2>2
<1>10. CASE k = 3 /\ SkipsJumped(Sig!Instr)
  <2>1. PICK d \in Int : Sig!Instr = <<"skip", var.jumped, d>>
    BY <1>10 DEF SkipsJumped
  <2>. DEFINE b == var.jumped
  <2>2. Sig!Instr = <<"skip", b, d>>
    BY <2>1
  <2>. HIDE DEF b
  <2>3. (IF b THEN Moved(Sig!Top.ip + 1 + d) ELSE Moved(Sig!Top.ip + 1)) /\ UNCHANGED var
    BY <2>2, DoSkip
  <2>4. \E j : Moved(j)
    BY <2>3
  <2>. QED  BY <1>2, <1>8, <1>10, <2>3, <2>4
<1>11. ASSUME NEW t, Sig!Instr = <<"alarm", t>>, k \in {4, 6} PROVE AlarmJump'
  <2>1. Moved(Sig!Top.ip + 1) /\ Changed("unslept", timer)
    BY <1>11, DoAlarm
  <2>2. var'.jmp = var.jmp
    BY <2>1 DEF Changed, VarNames
  <2>. QED  BY <1>2, <1>8, <1>11, <2>1, <2>2
<1>12. CASE k = 5 /\ Sig!Instr = <<"suspend", mask>>
  <2>1. Len(stack') = 1 /\ UNCHANGED <<who, ended, caught, cut, var>>
    BY <1>12, DoSuspend
  <2>. QED  BY <1>2, <1>3, <1>12, <2>1
<1>13. CASE k = 5 /\ Sig!Instr = <<"read">>
  <2>1. Moved(Sig!Top.ip + 1) /\ UNCHANGED var
    BY <1>13, DoWake
  <2>. QED  BY <1>2, <1>8, <1>13, <2>1
<1>. QED  BY <1>7, <1>9, <1>10, <1>11, <1>12, <1>13, AlarmInstr DEF k

(* Its handlers: one is busy, the other jumps. *)
LEMMA AlarmHandler ==
    ASSUME Machine, OwnInv, AlarmJump, who \in {"pause", "alarm"}, Len(stack) # 1, Executes
    PROVE  AlarmJump'
<1>. DEFINE m == Len(stack)
<1>1. m \in Nat /\ m \in 2 .. m /\ Sig!Top = stack[m] /\ m = Len(stack)
  BY StackLength DEF Machine, Sig!Top
<1>2. Sig!Top.fn \in {"sig_int_busy", "sig_alrm_jump"} /\ Sig!CanRun /\ Steady /\ ended = "no"
  <2>1. Sig!Top.fn \in Handlers /\ \E s \in Sig!Sig : OwnAct(s, Sig!Top.fn)
    BY <1>1 DEF Machine, StackInv, OwnInv
  <2>2. Steady
    BY ExecutesSteady
  <2>. QED  BY <2>1, <2>2, ActionOf DEF Executes, OwnAct, Handlers, Sig!CanRun
<1>3. Sig!Top.ip = 1
  <2>1. Sig!Top.ip \in Nat \ {0} /\ Sig!Top.ip <= Len(Sig!Code(Sig!Top.fn))
    BY <1>2, RunningInstr
  <2>2. Len(Sig!Code(Sig!Top.fn)) = 1
    <3>1. Len(Sig!Code("sig_int_busy")) = 1 /\ Len(Sig!Code("sig_alrm_jump")) = 1
      BY DEF Sig!Code, Sig!SigIntBusy, Sig!SigAlrm
    <3>. QED  BY <1>2, <3>1
  <2>3. \A x \in Nat \ {0} : x <= 1 => x = 1
    OBVIOUS
  <2>. QED  BY <2>1, <2>2, <2>3
<1>4. CASE Sig!Top.fn = "sig_int_busy"
  <2>1. Sig!Instr[1] = "await"
    <3>1. Sig!Code("sig_int_busy")[1][1] = "await"
      BY DEF Sig!Code, Sig!SigIntBusy
    <3>. QED  BY <1>3, <1>4, <3>1 DEF Sig!Instr
  <2>2. Moved(Sig!Top.ip + 1) /\ UNCHANGED <<mask, sig_pending, timer, var>>
    BY <2>1, DoWake
  <2>. HIDE DEF m
  <2>3. 1 \in 1 .. m - 1
    BY <1>1
  <2>4. Len(stack') = Len(stack) /\ stack'[1] = stack[1] /\ UNCHANGED <<who, ended, caught, cut>>
    BY <1>1, <2>2, <2>3 DEF Moved
  <2>5. Unarmed' = Unarmed
    BY <2>2 DEF Unarmed
  <2>6. ~(\E x \in 2 .. Len(stack) : stack[x].fn = "sig_alrm_jump")
        => ~(\E x \in 2 .. Len(stack') : stack'[x].fn = "sig_alrm_jump")
    BY <1>2 DEF Steady
  <2>7. AlarmCall' = AlarmCall
    BY <2>4 DEF AlarmCall
  <2>. QED  BY <2>2, <2>4, <2>5, <2>6, <2>7 DEF AlarmJump, Sig!HasCaught
<1>5. CASE Sig!Top.fn = "sig_alrm_jump"
  <2>1. Sig!Instr = <<"longjmp">>
    BY <1>3, <1>5 DEF Sig!Instr, Sig!Code, Sig!SigAlrm
  <2>2. var.jmp.set
    BY <1>1, <1>5 DEF AlarmJump
  <2>3. /\ UNCHANGED <<who, caught, ended>> /\ Len(stack') = 1 /\ Changed("jumped", TRUE)
        /\ cut' = cut \cup {stack[x].fn : x \in 2 .. Len(stack) - 1}
    BY <2>1, <2>2, DoLongJump
  <2>4. var'.jmp = var.jmp
    BY <2>3 DEF Changed, VarNames
  <2>5. Sig!HasCaught("INT") \/ cut' = {}
    <3>1. ASSUME ~Sig!HasCaught("INT") PROVE cut' = {}
      <4>1. Len(stack) <= 2 /\ cut = {}
        BY <3>1 DEF AlarmJump
      <4>2. Len(stack) = 2
        <5>. HIDE DEF m
        <5>. QED  BY <1>1, <4>1
      <4>3. \A x \in 2 .. Len(stack) - 1 : FALSE
        BY <4>2
      <4>. QED  BY <2>3, <4>1, <4>3
    <3>. QED  BY <3>1
  <2>. QED  BY <1>2, <2>2, <2>3, <2>4, <2>5 DEF AlarmJump, Sig!HasCaught
<1>. QED  BY <1>2, <1>4, <1>5

LEMMA AlarmStep ==
    ASSUME Machine, OwnInv, AlarmJump, who \in {"pause", "alarm"}, [Sig!SigprogNext]_sigprogVars
    PROVE  AlarmJump'
<1>1. \A s \in sig_pending : s = "INT" \/ s = "ALRM"
  BY DEF OwnInv, Source, Forking, Sig!FromOutside
<1>2. Sig!HasCaught("INT") => Sig!HasCaught("INT")'
  BY CaughtStays
<1>3. CASE UNCHANGED sigprogVars
  BY <1>3 DEF sigprogVars, AlarmJump, AlarmCall, Unarmed, Sig!HasCaught
<1>4. CASE Kernel
  <2>1. /\ UNCHANGED <<who, stack, disp, mask, var, ended, caught, cut>>
        /\ \/ timer # 0
           \/ child.status = "runs"
           \/ UNCHANGED timer /\ \E s \in Sig!FromOutside : Gains(s)
    BY <1>4, KernelDoes
  <2>2. child.status # "runs" /\ "ALRM" \notin Sig!FromOutside
    BY DEF OwnInv, Forking, Sig!FromOutside
  <2>3. Unarmed => Unarmed'
    BY <2>1, <2>2 DEF Gains, Unarmed
  <2>4. AlarmCall' = AlarmCall
    BY <2>1 DEF AlarmCall
  <2>. QED  BY <2>1, <2>3, <2>4 DEF AlarmJump, Sig!HasCaught
<1>5. CASE Sig!Deliver
  <2>1. PICK s \in Sig!Sig :
           /\ s \in sig_pending /\ s \notin mask /\ sig_pending' = sig_pending \ {s}
           /\ UNCHANGED <<who, disp, timer, var, cut>>
           /\ Handled(s) \/ Dropped(s) \/ Kills(s)
    BY <1>5, DeliverDoes
  <2>2. Unarmed => Unarmed'
    BY <2>1 DEF Unarmed
  <2>3. CASE Dropped(s) \/ Kills(s)
    <3>1. UNCHANGED <<stack, mask, caught>> /\ ended' # "undefined"
      BY <2>3 DEF Dropped, Kills, Sig!Sig, AlarmJump
    <3>2. AlarmCall' = AlarmCall
      BY <2>1, <3>1 DEF AlarmCall
    <3>. QED  BY <2>1, <2>2, <3>1, <3>2 DEF AlarmJump, Sig!HasCaught
  <2>4. CASE Handled(s)
    <3>1. /\ disp[s] \in Handlers /\ ended' # "undefined" /\ ~stack'[1].wait /\ Len(stack') = Len(stack) + 1
          /\ mask' = mask \cup {s}
      BY <2>4 DEF Handled, AlarmJump
    <3>2. disp[s] = (IF s = "INT" THEN "sig_int_busy" ELSE "sig_alrm_jump")
      BY <1>1, <2>1, <3>1 DEF OwnInv, OwnAct, Handlers
    <3>3. var.jmp.set \/ (s = "INT" /\ ~stack[1].wait)
      BY <1>1, <2>1 DEF AlarmJump, Unarmed
    <3>4. ASSUME ~var.jmp.set
          PROVE  /\ Unarmed' /\ AlarmCall' \in 0 .. 2
                 /\ \A m \in 2 .. Len(stack') : stack'[m].fn # "sig_alrm_jump"
      <4>. DEFINE q == Len(stack)
      <4>1. q \in Nat /\ Sig!Top = stack[q] /\ q = Len(stack)
        BY StackLength DEF Machine, Sig!Top
      <4>2. stack'[1].ip = stack[1].ip
        BY <2>4, <3>3, <3>4, HandledMain
      <4>3. AlarmCall' \in 0 .. 2
        BY <2>1, <3>4, <4>2 DEF AlarmJump, AlarmCall
      <4>4. /\ stack'[q + 1].fn = "sig_int_busy" /\ stack'[q].fn = stack[q].fn /\ Len(stack') = q + 1
            /\ \A m \in 1 .. q - 1 : stack'[m] = stack[m]
        BY <2>4, <3>2, <3>3, <3>4, <4>1 DEF Handled
      <4>5. \A m \in 2 .. q : stack[m].fn # "sig_alrm_jump"
        BY <3>4 DEF AlarmJump
      <4>. HIDE DEF q
      <4>6. \A m \in 2 .. q + 1 : m = q + 1 \/ (m \in 2 .. q /\ (m = q \/ m \in 1 .. q - 1))
        BY <4>1
      <4>7. \A m \in 2 .. q + 1 : stack'[m].fn # "sig_alrm_jump"
        BY <4>4, <4>5, <4>6
      <4>. QED  BY <2>2, <3>4, <4>3, <4>4, <4>7 DEF AlarmJump
    <3>5. Sig!HasCaught("INT")' \/ (cut' = {} /\ Len(stack') <= 2 /\ (Len(stack') = 2 => "ALRM" \in mask'))
      <4>1. CASE s = "INT" \/ Sig!HasCaught("INT")
        BY <1>2, <2>4, <4>1, CaughtNow
      <4>2. CASE s = "ALRM" /\ ~Sig!HasCaught("INT")
        <5>1. Len(stack) = 1 /\ cut = {}
          <6>1. cut = {} /\ Len(stack) <= 2 /\ Len(stack) # 2
            BY <2>1, <4>2 DEF AlarmJump
          <6>2. \A j \in Nat : j >= 1 /\ j <= 2 /\ j # 2 => j = 1
            OBVIOUS
          <6>. QED  BY <6>1, <6>2, StackLength DEF Machine, StackInv
        <5>. QED  BY <2>1, <3>1, <4>2, <5>1
      <4>. QED  BY <1>1, <2>1, <4>1, <4>2
    <3>. QED  BY <2>1, <3>1, <3>4, <3>5 DEF AlarmJump
  <2>. QED  BY <2>1, <2>3, <2>4
<1>6. CASE Sig!Return
  <2>1. stack'[1] = stack[1]
    BY <1>6, ReturnMain
  <2>2. /\ ended = "no" /\ UNCHANGED <<who, disp, sig_pending, timer, var, caught, cut>>
        /\ \/ /\ Len(stack) > 1 /\ Len(stack') = Len(stack) - 1 /\ UNCHANGED ended
              /\ \A k \in 1 .. Len(stack) - 1 : stack'[k] = stack[k]
           \/ Len(stack) = 1 /\ ended' = "exit" /\ UNCHANGED <<stack, mask>>
    BY <1>6, ReturnDoes
  <2>3. AlarmCall' = AlarmCall /\ Unarmed' = Unarmed
    BY <2>1, <2>2 DEF AlarmCall, Unarmed
  <2>4. CASE Len(stack) = 1
    <3>1. UNCHANGED <<who, stack, mask, var, caught, cut>> /\ ended' = "exit"
      BY <2>2, <2>4
    <3>. QED  BY <2>3, <3>1 DEF AlarmJump, Sig!HasCaught
  <2>5. CASE Len(stack) # 1
    <3>. DEFINE q == Len(stack)
    <3>1. q \in Nat /\ q >= 2 /\ q = Len(stack)
      BY <2>5, StackLength DEF Machine
    <3>2. Len(stack') = q - 1 /\ ended' = "no" /\ \A k \in 1 .. q - 1 : stack'[k] = stack[k]
      BY <2>2, <2>5
    <3>. HIDE DEF q
    <3>3. \A k \in 2 .. q - 1 : k \in 2 .. q /\ k \in 1 .. q - 1
      BY <3>1
    <3>4. (\A m \in 2 .. q : stack[m].fn # "sig_alrm_jump")
          => \A m \in 2 .. q - 1 : stack'[m].fn # "sig_alrm_jump"
      BY <3>2, <3>3
    <3>5. q <= 2 => q - 1 = 1
      BY <3>1
    <3>6. var.jmp.set \/ (\A m \in 2 .. q : stack[m].fn # "sig_alrm_jump")
      BY <3>1 DEF AlarmJump
    <3>7. Sig!HasCaught("INT")' \/ (cut' = {} /\ Len(stack') = 1)
      BY <1>2, <2>2, <3>1, <3>2, <3>5 DEF AlarmJump
    <3>8. \/ var'.jmp.set
          \/ Unarmed' /\ AlarmCall' \in 0 .. 2 /\ ~stack'[1].wait
      BY <2>1, <2>2, <2>3 DEF AlarmJump
    <3>. QED  BY <2>2, <3>2, <3>4, <3>6, <3>7, <3>8 DEF AlarmJump
  <2>. QED  BY <2>4, <2>5
<1>7. CASE Executes
  BY <1>7, AlarmExecutes, AlarmHandler
<1>. QED  BY <1>3, <1>4, <1>5, <1>6, <1>7, OneOf

(* ch10_sigjmp_func.c: the handler of SIGUSR1 jumps when it may. *)
LEMMA UsrCode ==
    LET c == Sig!Code("sigjmp")
        d == Sig!Code("sig_usr1")
    IN  /\ Len(c) = 7
        /\ c[1] = <<"sigaction", "USR1", "sig_usr1", "ret">>
        /\ c[2] = <<"sigaction", "ALRM", "empty", "ret">>
        /\ c[3] = <<"setjmp", TRUE>>
        /\ c[4] = <<"skip", var.jumped, 3>>
        /\ c[5] = <<"set", "flag", 1>>
        /\ c[6] = <<"suspend", mask>>
        /\ c[7] = <<"skip", TRUE, -2>>
        /\ Len(d) = 5
        /\ d[1] = <<"skip", var.flag = 0, 4>>
        /\ d[2] = <<"alarm", Seconds>>
        /\ d[3] = <<"await", timer = 0>>
        /\ d[4] = <<"set", "flag", 0>>
        /\ d[5] = <<"longjmp">>
BY DEF Sig!Code, Sig!MainSigjmp, Sig!SigUsr1

LEMMA UsrStart == Sig!SigprogInit /\ who = "sigjmp" => UsrJump
<1>. SUFFICES ASSUME Sig!SigprogInit, who = "sigjmp" PROVE UsrJump
  OBVIOUS
<1>1. /\ stack[1].ip = 1 /\ ~stack[1].wait /\ Len(stack) = 1 /\ ended = "no" /\ sig_pending = {} /\ cut = {}
      /\ timer = 0 /\ mask = {}
  BY DEF Sig!SigprogInit, Sig!Frame
<1>2. ~var.jmp.set /\ var.flag = 0
  BY DEF Sig!SigprogInit, Sig!NoVars
<1>3. OldMask = {}
  BY <1>1 DEF OldMask, Sig!Top
<1>. QED  BY <1>1, <1>2, <1>3 DEF UsrJump, UsrJmp, UsrOne, Unarmed

LEMMA UsrMain ==
    ASSUME Machine, UsrJump, who = "sigjmp", Len(stack) = 1, Executes
    PROVE  UsrJump'
<1>. DEFINE k == stack[1].ip  c == Sig!Code("sigjmp")
<1>1. k \in Nat \ {0} /\ k <= Len(c) /\ Sig!Instr = c[k] /\ ended = "no" /\ Sig!Top = stack[1] /\ ~stack[1].wait
  BY InMain
<1>2. Len(c) = 7
  BY UsrCode
<1>. HIDE DEF c
<1>3. k \in 1 .. 7
  BY <1>1, <1>2
<1>4. UsrJmp /\ Unarmed /\ "ALRM" \notin mask /\ cut = {}
  BY DEF UsrJump, UsrOne, UsrTwo, UsrThree
<1>5. ASSUME NEW j, Moved(j), mask' = mask, timer' = timer, sig_pending' \subseteq sig_pending,
             var'.jmp.set => var'.jmp.saves /\ "ALRM" \notin var'.jmp.mask,
             j \notin 1 .. 3 \/ var'.flag # 0 => var'.jmp.set
      PROVE  UsrJump'
  <2>1. Len(stack') = 1 /\ stack'[1].ip = j /\ ~stack'[1].wait /\ ended' = "no" /\ cut' = {}
    BY <1>1, <1>4, <1>5, MovedMain
  <2>2. OldMask' = mask
    BY <1>5, <2>1 DEF OldMask, Sig!Top
  <2>3. UsrOne'
    BY <1>4, <1>5, <2>1, <2>2 DEF UsrOne, Unarmed
  <2>4. UsrJmp'
    BY <1>5, <2>1 DEF UsrJmp
  <2>. QED  BY <2>1, <2>3, <2>4 DEF UsrJump
<1>6. CASE k \in {1, 2}
  <2>1. PICK s, a : Sig!Instr = <<"sigaction", s, a, "ret">>
    BY <1>1, <1>6, UsrCode DEF c
  <2>2. Moved(k + 1) /\ Changed("ret", disp[s]) /\ sig_pending' \subseteq sig_pending /\ UNCHANGED <<mask, timer>>
    BY <1>1, <2>1, DoSigaction DEF VarNames
  <2>3. var'.jmp = var.jmp /\ var'.flag = var.flag
    BY <2>2 DEF Changed, VarNames
  <2>4. k + 1 \in 1 .. 3
    BY <1>6
  <2>. QED  BY <1>4, <1>5, <2>2, <2>3, <2>4 DEF UsrJmp
<1>7. CASE k = 3
  <2>1. Sig!Instr = c[3]
    BY <1>1, <1>7
  <2>2. c[3] = <<"setjmp", TRUE>>
    BY UsrCode, Zenon DEF c
  <2>3. Sig!Instr = <<"setjmp", TRUE>>
    BY <2>1, <2>2, Zenon
  <2>4. /\ Moved(Sig!Top.ip + 1) /\ UNCHANGED <<mask, sig_pending, timer>>
        /\ Changed("jmp", [set |-> TRUE, depth |-> Len(stack), ip |-> Sig!Top.ip + 1, saves |-> TRUE,
                           mask |-> mask])
    BY <2>3, DoSetJmp, Zenon
  <2>5. var'.jmp.set /\ var'.jmp.saves /\ var'.jmp.mask = mask
    BY <2>4 DEF Changed
  <2>. QED  BY <1>4, <1>5, <2>4, <2>5
<1>8. CASE k = 4
  <2>. DEFINE b == var.jumped
  <2>1. Sig!Instr = c[4]
    BY <1>1, <1>8
  <2>2. c[4] = <<"skip", b, 3>>
    BY UsrCode, Zenon DEF c
  <2>. HIDE DEF b
  <2>3. Sig!Instr = <<"skip", b, 3>>
    BY <2>1, <2>2
  <2>4. /\ IF b THEN Moved(Sig!Top.ip + 1 + 3) ELSE Moved(Sig!Top.ip + 1)
        /\ UNCHANGED <<mask, sig_pending, timer, var>>
    BY <2>3, DoSkip
  <2>5. \E j : Moved(j)
    BY <2>4
  <2>. QED  BY <1>4, <1>5, <1>8, <2>4, <2>5 DEF UsrJmp
<1>9. CASE k = 5
  <2>1. Sig!Instr = <<"set", "flag", 1>>
    BY <1>1, <1>9, UsrCode DEF c
  <2>2. Moved(Sig!Top.ip + 1) /\ Changed("flag", 1) /\ UNCHANGED <<mask, sig_pending, timer>>
    BY <2>1, DoSet DEF VarNames
  <2>3. var'.jmp = var.jmp
    BY <2>2 DEF Changed, VarNames
  <2>. QED  BY <1>4, <1>5, <1>9, <2>2, <2>3 DEF UsrJmp
<1>10. CASE k = 6
  <2>1. Sig!Instr = <<"suspend", mask>>
    BY <1>1, <1>10, UsrCode DEF c
  <2>2. /\ Len(stack') = 1 /\ stack'[1].ip = 6 /\ stack'[1].old = mask /\ mask' = mask
        /\ UNCHANGED <<sig_pending, timer, var, ended, cut>>
    BY <1>10, <2>1, DoSuspend
  <2>3. OldMask' = mask
    BY <2>2 DEF OldMask, Sig!Top
  <2>4. UsrOne'
    BY <1>4, <2>2, <2>3 DEF UsrOne, Unarmed
  <2>5. UsrJmp'
    BY <1>4, <1>10, <2>2 DEF UsrJmp
  <2>. QED  BY <1>1, <1>4, <2>2, <2>4, <2>5 DEF UsrJump
<1>11. CASE k = 7
  <2>1. Sig!Instr = c[7]
    BY <1>1, <1>11
  <2>2. c[7] = <<"skip", TRUE, -2>>
    BY UsrCode, Zenon DEF c
  <2>3. Sig!Instr = <<"skip", TRUE, -2>>
    BY <2>1, <2>2, Zenon
  <2>4. -2 \in Int
    OBVIOUS
  <2>5. /\ IF TRUE THEN Moved(Sig!Top.ip + 1 + (-2)) ELSE Moved(Sig!Top.ip + 1)
        /\ UNCHANGED <<mask, sig_pending, timer, var>>
    BY <2>3, <2>4, DoSkip, Zenon
  <2>. QED  BY <1>4, <1>5, <1>11, <2>5 DEF UsrJmp
<1>. QED  BY <1>3, <1>6, <1>7, <1>8, <1>9, <1>10, <1>11

LEMMA UsrHandler ==
    ASSUME Machine, UsrJump, who = "sigjmp", Len(stack) # 1, Executes
    PROVE  UsrJump'
<1>. DEFINE k == stack[2].ip  c == Sig!Code("sig_usr1")
<1>1. UsrTwo
  <2>1. UsrThree => Sig!Top.fn = "empty"
    BY DEF UsrThree, Sig!Top
  <2>. QED  BY <2>1, NotEmpty DEF UsrJump, UsrOne
<1>2. Len(stack) = 2 /\ stack[2].fn = "sig_usr1"
  BY <1>1 DEF UsrTwo, UsrFrame
<1>3. /\ k \in Nat \ {0} /\ k <= Len(c) /\ Sig!Instr = c[k] /\ ended = "no" /\ Sig!Top = stack[2]
      /\ Sig!Deliverable = {}
  BY <1>2, InHandler
<1>4. Len(c) = 5
  BY UsrCode
<1>. HIDE DEF c
<1>5. k \in 1 .. 5
  BY <1>3, <1>4
<1>6. UsrJmp /\ "ALRM" \notin mask /\ cut = {} /\ (k # 3 => Unarmed) /\ (k # 1 => var.jmp.set)
  BY <1>1, <1>5 DEF UsrJump, UsrTwo, UsrFrame
<1>7. ASSUME NEW j \in 2 .. 6, Moved(j), mask' = mask, var'.jmp = var.jmp, j # 6 => var.jmp.set,
             j # 3 => Unarmed', var'.flag = var.flag \/ var.jmp.set
      PROVE  UsrJump'
  <2>1. /\ Len(stack') = 2 /\ stack'[1] = stack[1] /\ stack'[2].ip = j /\ stack'[2].fn = stack[2].fn
        /\ stack'[2].old = stack[2].old /\ ended' = "no" /\ cut' = {}
    BY <1>2, <1>3, <1>6, <1>7, MovedHandler
  <2>2. UsrJmp'
    BY <1>6, <1>7, <2>1 DEF UsrJmp
  <2>3. UsrTwo'
    BY <1>1, <1>7, <2>1 DEF UsrTwo, UsrFrame
  <2>. QED  BY <2>1, <2>2, <2>3 DEF UsrJump
<1>8. CASE k = 1
  <2>. DEFINE b == var.flag = 0
  <2>1. Sig!Instr = c[1]
    BY <1>3, <1>8
  <2>2. c[1] = <<"skip", b, 4>>
    BY UsrCode, Zenon DEF c
  <2>3. ~b => var.jmp.set
    BY <1>6 DEF UsrJmp
  <2>. HIDE DEF b
  <2>4. Sig!Instr = <<"skip", b, 4>>
    BY <2>1, <2>2
  <2>5. /\ IF b THEN Moved(Sig!Top.ip + 1 + 4) ELSE Moved(Sig!Top.ip + 1)
        /\ UNCHANGED <<mask, sig_pending, timer, var>>
    BY <2>4, DoSkip
  <2>6. Sig!Top.ip + 1 + 4 = 6 /\ Sig!Top.ip + 1 = 2
    BY <1>3, <1>8
  <2>7. Moved(6) \/ (Moved(2) /\ var.jmp.set)
    BY <2>3, <2>5, <2>6
  <2>8. Unarmed'
    BY <1>6, <1>8, <2>5 DEF Unarmed
  <2>. QED  BY <1>7, <2>5, <2>7, <2>8
<1>9. CASE k = 2
  <2>1. Sig!Instr = <<"alarm", Seconds>>
    BY <1>3, <1>9, UsrCode DEF c
  <2>2. Moved(3) /\ Changed("unslept", timer) /\ mask' = mask
    BY <1>3, <1>9, <2>1, DoAlarm
  <2>3. var'.jmp = var.jmp /\ var'.flag = var.flag
    BY <2>2 DEF Changed, VarNames
  <2>. QED  BY <1>6, <1>7, <1>9, <2>2, <2>3
<1>10. CASE k = 3
  <2>. DEFINE b == timer = 0
  <2>1. Sig!Instr = c[3]
    BY <1>3, <1>10
  <2>2. c[3] = <<"await", b>>
    BY UsrCode, Zenon DEF c
  <2>. HIDE DEF b
  <2>3. Sig!Instr = <<"await", b>>
    BY <2>1, <2>2
  <2>4. Moved(4) /\ UNCHANGED <<mask, sig_pending, timer, var>> /\ b
    BY <1>3, <1>10, <2>3, DoWake
  <2>5. Unarmed'
    BY <1>3, <1>6, <2>4 DEF Unarmed, Sig!Deliverable, b
  <2>. QED  BY <1>6, <1>7, <1>10, <2>4, <2>5
<1>11. CASE k = 4
  <2>1. Sig!Instr = <<"set", "flag", 0>>
    BY <1>3, <1>11, UsrCode DEF c
  <2>2. Moved(5) /\ Changed("flag", 0) /\ UNCHANGED <<mask, sig_pending, timer>>
    BY <1>3, <1>11, <2>1, DoSet DEF VarNames
  <2>3. var'.jmp = var.jmp
    BY <2>2 DEF Changed, VarNames
  <2>. QED  BY <1>6, <1>7, <1>11, <2>2, <2>3 DEF Unarmed
<1>12. CASE k = 5
  <2>1. Sig!Instr = <<"longjmp">>
    BY <1>3, <1>12, UsrCode DEF c
  <2>2. var.jmp.set /\ var.jmp.saves /\ "ALRM" \notin var.jmp.mask
    BY <1>6, <1>12 DEF UsrJmp
  <2>3. /\ UNCHANGED <<ended, sig_pending, timer>> /\ Len(stack') = 1 /\ ~stack'[1].wait
        /\ mask' = var.jmp.mask /\ Changed("jumped", TRUE)
        /\ cut' = cut \cup {stack[x].fn : x \in 2 .. Len(stack) - 1}
    BY <2>1, <2>2, DoLongJump
  <2>4. var'.jmp = var.jmp
    BY <2>3 DEF Changed, VarNames
  <2>5. cut' = {}
    <3>1. \A x \in 2 .. Len(stack) - 1 : FALSE
      BY <1>2
    <3>. QED  BY <1>6, <2>3, <3>1
  <2>6. OldMask' = mask'
    BY <2>3 DEF OldMask, Sig!Top
  <2>7. UsrOne'
    BY <1>6, <1>12, <2>2, <2>3, <2>6 DEF UsrOne, Unarmed
  <2>8. UsrJmp'
    BY <2>2, <2>3, <2>4 DEF UsrJmp
  <2>. QED  BY <1>3, <2>3, <2>5, <2>7, <2>8 DEF UsrJump
<1>. QED  BY <1>5, <1>8, <1>9, <1>10, <1>11, <1>12

LEMMA UsrStep ==
    ASSUME Machine, OwnInv, UsrJump, who = "sigjmp", [Sig!SigprogNext]_sigprogVars
    PROVE  UsrJump'
<1>1. \A s \in sig_pending : s = "USR1" \/ s = "ALRM"
  BY DEF OwnInv, Source, Forking, Sig!FromOutside
<1>2. UsrJmp /\ cut = {} /\ ended # "undefined"
  BY DEF UsrJump
(* A step that leaves the stack. *)
<1>3. ASSUME UNCHANGED <<stack, mask, var, cut>>, ended' # "undefined", Unarmed => Unarmed'
      PROVE  UsrJump'
  <2>1. OldMask' = OldMask
    BY <1>3 DEF OldMask, Sig!Top
  <2>2. UsrJmp' /\ (UsrFrame => UsrFrame')
    BY <1>2, <1>3 DEF UsrJmp, UsrFrame
  <2>3. (UsrOne => UsrOne') /\ (UsrTwo => UsrTwo') /\ (UsrThree => UsrThree')
    BY <1>3, <2>1, <2>2 DEF UsrOne, UsrTwo, UsrThree
  <2>. QED  BY <1>2, <1>3, <2>2, <2>3 DEF UsrJump
<1>4. CASE UNCHANGED sigprogVars
  BY <1>2, <1>3, <1>4 DEF sigprogVars, Unarmed
<1>5. CASE Kernel
  <2>1. /\ UNCHANGED <<stack, mask, var, ended, cut>>
        /\ \/ timer # 0
           \/ child.status = "runs"
           \/ UNCHANGED timer /\ \E s \in Sig!FromOutside : Gains(s)
    BY <1>5, KernelDoes
  <2>2. child.status # "runs" /\ "ALRM" \notin Sig!FromOutside
    BY DEF OwnInv, Forking, Sig!FromOutside
  <2>3. Unarmed => Unarmed'
    BY <2>1, <2>2 DEF Gains, Unarmed
  <2>. QED  BY <1>2, <1>3, <2>1, <2>3
<1>6. CASE Sig!Deliver
  <2>1. PICK s \in Sig!Sig :
           /\ s \in sig_pending /\ s \notin mask /\ sig_pending' = sig_pending \ {s}
           /\ UNCHANGED <<who, disp, timer, var, cut>>
           /\ Handled(s) \/ Dropped(s) \/ Kills(s)
    BY <1>6, DeliverDoes
  <2>2. Unarmed => Unarmed'
    BY <2>1 DEF Unarmed
  <2>3. CASE Dropped(s) \/ Kills(s)
    <3>1. UNCHANGED <<stack, mask>> /\ ended' # "undefined"
      BY <1>2, <2>3 DEF Dropped, Kills, Sig!Sig
    <3>. QED  BY <1>3, <2>1, <2>2, <3>1
  <2>4. CASE Handled(s)
    <3>1. /\ disp[s] \in Handlers /\ ended' = ended /\ ~stack'[1].wait /\ Len(stack') = Len(stack) + 1
          /\ mask' = mask \cup {s}
          /\ stack'[Len(stack) + 1].fn = disp[s] /\ stack'[Len(stack) + 1].ip = 1
          /\ stack'[Len(stack) + 1].old = OldMask
      BY <2>4 DEF Handled
    <3>2. stack'[1].ip = IF stack[1].wait THEN stack[1].ip + 1 ELSE stack[1].ip
      BY <2>4, HandledMain
    <3>3. disp[s] = (IF s = "USR1" THEN "sig_usr1" ELSE "empty")
      BY <1>1, <2>1, <3>1 DEF OwnInv, OwnAct, Handlers
    <3>4. UsrJmp'
      <4>1. stack[1].wait => stack'[1].ip = 7 /\ var.jmp.set
        BY <1>2, <3>2 DEF UsrJmp
      <4>. QED  BY <1>2, <2>1, <3>1, <3>2, <4>1 DEF UsrJmp
    <3>5. CASE UsrOne
      <4>1. s = "USR1" /\ Len(stack) = 1
        BY <1>1, <2>1, <3>5 DEF UsrOne, Unarmed
      <4>2. UsrTwo'
        BY <2>2, <3>1, <3>3, <3>5, <4>1 DEF UsrOne, UsrTwo, UsrFrame
      <4>. QED  BY <1>2, <2>1, <3>1, <3>4, <4>2 DEF UsrJump
    <3>6. CASE UsrTwo
      <4>1. s = "ALRM" /\ Len(stack) = 2 /\ stack[2].ip = 3
        BY <1>1, <2>1, <3>6 DEF UsrTwo, Unarmed
      <4>2. ~Sig!Top.wait /\ Sig!Top = stack[2]
        BY <4>1 DEF Sig!Top, Machine, StackInv
      <4>3. OldMask = mask
        BY <4>2 DEF OldMask
      <4>4. stack'[2].fn = stack[2].fn /\ stack'[2].ip = 3 /\ stack'[2].old = stack[2].old
        BY <2>4, <4>1, <4>2 DEF Handled
      <4>5. UsrFrame'
        BY <2>1, <3>6, <4>1, <4>4 DEF UsrTwo, UsrFrame
      <4>6. UsrThree'
        BY <3>1, <3>3, <3>6, <4>1, <4>3, <4>4, <4>5 DEF UsrTwo, UsrThree
      <4>. QED  BY <1>2, <2>1, <3>1, <3>4, <4>6 DEF UsrJump
    <3>7. CASE UsrThree
      BY <1>1, <2>1, <3>7 DEF UsrThree
    <3>. QED  BY <3>5, <3>6, <3>7 DEF UsrJump
  <2>. QED  BY <2>1, <2>3, <2>4
<1>7. CASE Sig!Return
  <2>1. stack'[1] = stack[1]
    BY <1>7, ReturnMain
  <2>2. /\ ended = "no" /\ Sig!Top.ip > Len(Sig!Code(Sig!Top.fn))
        /\ UNCHANGED <<who, disp, sig_pending, timer, var, caught, cut>>
        /\ \/ /\ Len(stack) > 1 /\ Len(stack') = Len(stack) - 1 /\ mask' = Sig!Top.old /\ UNCHANGED ended
              /\ \A k \in 1 .. Len(stack) - 1 : stack'[k] = stack[k]
           \/ Len(stack) = 1 /\ ended' = "exit" /\ UNCHANGED <<stack, mask>>
    BY <1>7, ReturnDoes
  <2>3. UsrJmp' /\ Unarmed' = Unarmed
    BY <1>2, <2>1, <2>2 DEF UsrJmp, Unarmed
  <2>4. CASE UsrOne
    <3>1. Len(stack) = 1
      BY <2>4 DEF UsrOne
    <3>2. UNCHANGED <<stack, mask, var, cut>> /\ ended' # "undefined"
      BY <2>2, <3>1
    <3>. QED  BY <1>3, <2>3, <3>2
  <2>5. CASE UsrTwo
    <3>1. Len(stack) = 2 /\ Sig!Top = stack[2] /\ stack[2].fn = "sig_usr1" /\ ~stack[1].wait
      BY <2>5 DEF UsrTwo, UsrFrame, Sig!Top, Machine, StackInv
    <3>2. Len(stack') = 1 /\ mask' = stack[2].old /\ ended' = "no"
      BY <2>2, <3>1
    <3>3. stack[2].ip = 6
      <4>1. Len(Sig!Code(Sig!Top.fn)) = 5
        BY <3>1, UsrCode
      <4>2. stack[2].ip > 5
        BY <2>2, <3>1, <4>1
      <4>3. stack[2].ip \in 1 .. 6
        BY <2>5 DEF UsrTwo, UsrFrame
      <4>. QED  BY <4>2, <4>3
    <3>4. OldMask' = mask'
      BY <2>1, <3>1, <3>2 DEF OldMask, Sig!Top
    <3>5. UsrOne'
      BY <2>3, <2>5, <3>2, <3>3, <3>4 DEF UsrOne, UsrTwo, UsrFrame
    <3>. QED  BY <1>2, <2>2, <2>3, <3>2, <3>5 DEF UsrJump
  <2>6. CASE UsrThree
    <3>1. Len(stack) = 3 /\ Sig!Top = stack[3]
      BY <2>6 DEF UsrThree, Sig!Top
    <3>2. Len(stack') = 2 /\ mask' = stack[3].old /\ ended' = "no" /\ stack'[2] = stack[2]
      BY <2>2, <3>1
    <3>3. UsrTwo'
      BY <2>2, <2>6, <3>2 DEF UsrTwo, UsrThree, UsrFrame
    <3>. QED  BY <1>2, <2>2, <2>3, <3>2, <3>3 DEF UsrJump
  <2>. QED  BY <2>4, <2>5, <2>6 DEF UsrJump
<1>8. CASE Executes
  BY <1>8, UsrMain, UsrHandler
<1>. QED  BY <1>4, <1>5, <1>6, <1>7, <1>8, OneOf

(* The others do not jump. *)
LEMMA NoJump ==
    ASSUME Machine, OwnInv, Stays, who \notin {"pause", "alarm", "sigjmp"}, [Sig!SigprogNext]_sigprogVars
    PROVE  Stays'
<1>1. CASE UNCHANGED sigprogVars
  BY <1>1 DEF sigprogVars, Stays
<1>2. CASE Kernel
  BY <1>2, KernelDoes DEF Stays
<1>3. CASE Sig!Deliver
  <2>1. PICK s \in Sig!Sig : UNCHANGED cut /\ (Handled(s) \/ Dropped(s) \/ Kills(s))
    BY <1>3, DeliverDoes
  <2>2. ended' # "undefined"
    BY <2>1 DEF Stays, Handled, Dropped, Kills, Sig!Sig
  <2>. QED  BY <2>1, <2>2 DEF Stays
<1>4. CASE Sig!Return
  BY <1>4, ReturnDoes DEF Stays
<1>5. CASE Executes
  <2>1. Sig!Instr[1] # "longjmp"
    <3>1. Sig!Top.fn \notin {"sig_alrm_jump", "sig_usr1"}
      <4>1. CASE Len(stack) = 1
        BY <4>1 DEF Sig!Top, Machine, StackInv, Sig!Programs
      <4>2. CASE Len(stack) \in 2 .. Len(stack)
        BY <4>2 DEF Sig!Top, OwnInv, OwnAct
      <4>. QED  BY <4>1, <4>2, StackLength DEF Machine
    <3>2. OwnInstr(Sig!Top.fn, Sig!Instr)
      BY <1>5, OwnRunning, ActionOf DEF Executes
    <3>. QED  BY <3>1, <3>2 DEF OwnInstr
  <2>2. ~Sig!LongJump
    BY <2>1 DEF Sig!LongJump, Sig!At
  <2>3. UNCHANGED <<ended, cut>>
    BY <1>5, <2>2 DEF Executes, Sig!ProgramStep, Sig!Input, Sig!Sigaction, Sig!Sigprocmask, Sig!Alarm, Sig!Suspend,
       Sig!SetJmp, Sig!Kill, Sig!Set, Sig!Skip, Sig!Fork, Sig!Waitpid, Sig!Wakes, Sig!History
  <2>. QED  BY <2>3 DEF Stays
<1>. QED  BY <1>1, <1>2, <1>3, <1>4, <1>5, OneOf

(* How every program ends. *)
LEMMA OutcomeStart == Sig!SigprogInit => OutcomeInv
<1>. SUFFICES ASSUME Sig!SigprogInit PROVE OutcomeInv
  OBVIOUS
<1>1. Stays
  BY DEF Sig!SigprogInit, Stays
<1>. QED  BY <1>1, SleepStart, AbortStart, JobctlStart, ChildStart, ReapStart, AlarmStart, UsrStart DEF OutcomeInv

LEMMA SameProgram == [Sig!SigprogNext]_sigprogVars => who' = who
BY DEF sigprogVars, Sig!SigprogNext, Sig!ProgramStep, Sig!Input, Sig!Deliver, Sig!Tick, Sig!ChildEnds, Sig!Send,
   Sig!Sigaction, Sig!Sigprocmask, Sig!Alarm, Sig!Suspend, Sig!SetJmp, Sig!LongJump, Sig!Kill, Sig!Set, Sig!Skip,
   Sig!Fork, Sig!Waitpid, Sig!Wakes, Sig!Return, Sig!History

LEMMA OutcomeStep ==
    Machine /\ CallerInv /\ OwnInv /\ OutcomeInv /\ [Sig!SigprogNext]_sigprogVars => OutcomeInv'
<1>. SUFFICES ASSUME Machine, CallerInv, OwnInv, OutcomeInv, [Sig!SigprogNext]_sigprogVars PROVE OutcomeInv'
  OBVIOUS
<1>1. who' = who
  BY SameProgram
<1>2. who \in {"sleep", "mysleep"} => SleepAlarm'
  BY SleepStep DEF OutcomeInv
<1>3. who = "abort" => AbortPhase'
  BY AbortStep DEF OutcomeInv
<1>4. who = "jobctl" => JobctlPhase'
  BY JobctlStep DEF OutcomeInv
<1>5. who \in {"system2", "system2_reaping"} => ChildPhase'
  BY ChildStep DEF OutcomeInv
<1>6. who = "system_reaping" => ReapPhase'
  BY ReapStep DEF OutcomeInv
<1>7. who \in {"pause", "alarm"} => AlarmJump'
  BY AlarmStep DEF OutcomeInv
<1>8. who = "sigjmp" => UsrJump'
  BY UsrStep DEF OutcomeInv
<1>9. who \notin {"pause", "alarm", "sigjmp"} => Stays'
  BY NoJump DEF OutcomeInv
<1>. QED  BY <1>1, <1>2, <1>3, <1>4, <1>5, <1>6, <1>7, <1>8, <1>9 DEF OutcomeInv

LEMMA OutcomeEnd == OwnInv /\ OutcomeInv => Outcome
<1>. SUFFICES ASSUME OwnInv, OutcomeInv PROVE Outcome
  OBVIOUS
<1>1. Sig!LateAlarmOnly
  BY DEF OutcomeInv, SleepAlarm, Sig!LateAlarmOnly
<1>2. Sig!AbortAborts
  BY DEF OutcomeInv, AbortPhase, Sig!AbortAborts
<1>3. Sig!NeverStops
  BY DEF OutcomeInv, JobctlPhase, Sig!NeverStops
<1>4. Sig!SystemStatus
  <2>1. who \in {"system2", "system2_reaping"} =>
          /\ ended = "exit" => var.status = IF var.pid = 1 THEN "code" ELSE "failed"
          /\ \A c \in caught : ~c.command
    BY DEF OutcomeInv, ChildPhase
  <2>2. who = "system_reaping" /\ ended = "exit" /\ var.pid = 1 => (var.status = "code") # (var.reaped = "code")
    BY DEF OutcomeInv, ReapPhase, ReapMain
  <2>. QED  BY <2>1, <2>2 DEF Sig!SystemStatus
<1>5. Sig!JumpsInTime
  <2>1. ended # "undefined"
    BY DEF OutcomeInv, Stays, AlarmJump, UsrJump
  <2>2. cut # {} => who \in {"pause", "alarm"} /\ Sig!HasCaught("INT")
    BY DEF OutcomeInv, Stays, AlarmJump, UsrJump
  <2>3. who = "alarm" => ~Sig!HasCaught("INT")
    BY DEF OwnInv, Source, Forking, Sig!FromOutside, Sig!HasCaught
  <2>. QED  BY <2>1, <2>2, <2>3 DEF Sig!JumpsInTime
<1>. QED  BY <1>1, <1>2, <1>3, <1>4, <1>5 DEF Outcome, Sig!Outcome

(* The alarm of sleep() kills its caller only after another signal, abort() *)
(* ends the process by SIGABRT, a caught SIGTSTP never stops ch10_jobctl.c, *)
(* system() returns the status of the command and no handler of the caller  *)
(* runs before, no handler jumps before setjmp() and only the timeout of    *)
(* sleep2() cuts a handler short (lib/sleep.c:38-41, ch10_abort.c,          *)
(* ch10_jobctl.c:11, ch10_system2.c, ch10_pause.c:50,                       *)
(* ch10_sigjmp_func.c:39), for every number of signals from outside and     *)
(* every argument of sleep() and alarm().                                   *)
THEOREM HowProgramsEnd == Spec => []Outcome
<1>. DEFINE Inv == Machine /\ CallerInv /\ OwnInv /\ OutcomeInv
<1>1. Init => Inv
  BY MachineStart, CallerStart, OwnStart, OutcomeStart DEF Init
<1>2. Inv /\ [Next]_all => Inv'
  BY SignalsPart, MachineStep, CallerStep, OwnStep, OutcomeStep
<1>3. Inv => Outcome
  BY OutcomeEnd
<1>. QED  BY <1>1, <1>2, <1>3, PTL DEF Spec

-----------------------------------------------------------------------------
(* Algorithms that are not recursive, for every argument.                  *)

(* Translated twice, a byte is itself again unless it is `a' or `n'.       *)
LEMMA TranslateTwice ==
    \A c \in Nat : Alg!translate(Alg!translate(c)) # c <=> c \in {97, 110}
<1>. SUFFICES ASSUME NEW c \in Nat PROVE Alg!translate(Alg!translate(c)) # c <=> c \in {97, 110}
  OBVIOUS
<1>1. \A d \in Nat : /\ d \in 65 .. 77 \cup 97 .. 110 => Alg!translate(d) = d + 13
                     /\ d \in 78 .. 90 \cup 111 .. 122 => Alg!translate(d) = d - 13
                     /\ d \notin 65 .. 90 \cup 97 .. 122 => Alg!translate(d) = d
  BY DEF Alg!translate
<1>2. CASE c \in 65 .. 77 \cup 97 .. 110
  <2>1. Alg!translate(c) = c + 13 /\ c + 13 \in Nat
    BY <1>1, <1>2
  <2>2. c \in 98 .. 109 \cup 65 .. 77 => c + 13 \in 78 .. 90 \cup 111 .. 122
    BY <1>2
  <2>3. c = 97 => Alg!translate(c + 13) = c + 26
    BY <1>1
  <2>4. c = 110 => Alg!translate(c + 13) = c + 13
    BY <1>1
  <2>5. c \in 98 .. 109 \cup 65 .. 77 => Alg!translate(c + 13) = (c + 13) - 13
    BY <1>1, <2>1, <2>2
  <2>. QED  BY <1>2, <2>1, <2>3, <2>4, <2>5
<1>3. CASE c \in 78 .. 90 \cup 111 .. 122
  <2>1. Alg!translate(c) = c - 13 /\ c - 13 \in Nat /\ c - 13 \in 65 .. 77 \cup 97 .. 110
    BY <1>1, <1>3
  <2>2. Alg!translate(c - 13) = (c - 13) + 13
    BY <1>1, <2>1
  <2>. QED  BY <1>3, <2>1, <2>2
<1>4. CASE c \notin 65 .. 90 \cup 97 .. 122
  BY <1>1, <1>4
<1>5. c \in 65 .. 90 => c \in 65 .. 77 \/ c \in 78 .. 90
  OBVIOUS
<1>6. c \in 97 .. 122 => c \in 97 .. 110 \/ c \in 111 .. 122
  OBVIOUS
<1>. QED  BY <1>2, <1>3, <1>4, <1>5, <1>6

(* The least element of a set of numbers.                                  *)
LEMMA LeastOf ==
    ASSUME NEW S \in SUBSET Nat, S # {}
    PROVE  Alg!Min(S) \in S /\ \A k \in S : Alg!Min(S) <= k
<1>1. PICK x \in S : \A y \in S : ~(<<y, x>> \in OpToRel(<, Nat))
  BY NatLessThanWellFounded, WFMin
<1>2. ASSUME NEW y \in S, y < x PROVE FALSE
  <2>1. <<y, x>> \in Nat \X Nat /\ <<y, x>>[1] < <<y, x>>[2]
    BY <1>2
  <2>. QED  BY <1>1, <2>1 DEF OpToRel
<1>3. \A y \in S : x <= y
  BY <1>2
<1>. QED  BY <1>3, Zenon DEF Alg!Min

(* lsearch() finds the first element with the key, if there is one.        *)
LEMMA FirstFound ==
    ASSUME NEW a, NEW key, NEW len \in Nat
    PROVE  LET r == Alg!lsearch(a, key, len) IN
           IF r = -1 THEN \A j \in 0 .. len - 1 : a[j].key # key
           ELSE r \in 0 .. len - 1 /\ a[r].key = key /\ \A j \in 0 .. r - 1 : a[j].key # key
<1>. DEFINE found == {k \in 0 .. len - 1 : a[k].key = key}   r == Alg!lsearch(a, key, len)
<1>1. r = IF found = {} THEN -1 ELSE Alg!Min(found)
  BY DEF Alg!lsearch
<1>2. CASE found = {}
  BY <1>1, <1>2
<1>3. CASE found # {}
  <2>1. found \in SUBSET Nat
    OBVIOUS
  <2>2. r \in found /\ \A k \in found : r <= k
    BY <1>1, <1>3, <2>1, LeastOf
  <2>3. r \in 0 .. len - 1 /\ a[r].key = key
    BY <2>2
  <2>4. ASSUME NEW j \in 0 .. r - 1, a[j].key = key PROVE FALSE
    <3>1. j \in found
      BY <2>3, <2>4
    <3>2. r <= j
      BY <2>2, <3>1
    <3>. QED  BY <2>3, <3>2
  <2>. QED  BY <2>3, <2>4
<1>. QED  BY <1>2, <1>3

(* The unsigned seconds wrap around.                                       *)
LEMMA WrapsAround == Alg!UINT \in Nat /\ Alg!UINT > 2
BY DEF Alg!UINT

(* timeout() sleeps for the seconds but one: tv_nsec is less than the      *)
(* seconds it is compared with, which are more than SECTONSEC.             *)
LEMMA SleepsShort ==
    ASSUME NEW when \in [sec : Nat, nsec : 0 .. Alg!SECTONSEC - 1],
           NEW now \in [sec : Nat, nsec : 0 .. Alg!SECTONSEC - 1],
           now.sec >= Alg!SECTONSEC, when.sec - now.sec < Alg!UINT
    PROVE  LET wanted == (when.sec - now.sec) * Alg!SECTONSEC + when.nsec - now.nsec
               slept == Alg!timeout(when, now)
           IN /\ wanted <= 0 => slept = 0
              /\ wanted > 0 /\ when.sec = now.sec => slept = Alg!UINT - 1
              /\ wanted > 0 /\ when.sec # now.sec =>
                     slept * Alg!SECTONSEC <= wanted /\ wanted < slept * Alg!SECTONSEC + 2 * Alg!SECTONSEC
<1>. DEFINE a == when.sec   b == now.sec   c == when.nsec   d == now.nsec   u == Alg!UINT
            wanted == (a - b) * 10 + c - d   slept == Alg!timeout(when, now)
<1>1. /\ a \in Nat /\ b \in Nat /\ c \in 0 .. 9 /\ d \in 0 .. 9 /\ b >= 10 /\ a - b < u
      /\ u \in Nat /\ u > 2 /\ Alg!SECTONSEC = 10
  BY WrapsAround DEF Alg!SECTONSEC
<1>2. slept = IF a > b \/ (a = b /\ c > d) THEN (a - b - 1) % u ELSE 0
  BY <1>1 DEF Alg!timeout, Alg!to_wait
<1>. HIDE DEF a, b, c, d, u, slept
<1>3. a = b => (a - b - 1) % u = u - 1
  <2>1. a = b => a - b - 1 = (-1) * u + (u - 1)
    BY <1>1
  <2>. QED  BY <1>1, <2>1
<1>4. a > b => (a - b - 1) % u = a - b - 1
  BY <1>1
<1>5. wanted <= 0 => slept = 0
  BY <1>1, <1>2
<1>6. wanted > 0 /\ a = b => slept = u - 1
  BY <1>1, <1>2, <1>3
<1>7. wanted > 0 /\ a # b => slept * 10 <= wanted /\ wanted < slept * 10 + 2 * 10
  <2>1. wanted > 0 /\ a # b => slept = a - b - 1
    BY <1>1, <1>2, <1>4
  <2>. QED  BY <1>1, <2>1
<1>. QED  BY <1>1, <1>5, <1>6, <1>7 DEF a, b, c, d, u, slept

(* What the tasks of these three functions are about.                      *)
TaskKnown ==
    /\ task.alg = "translate" => task.c \in Nat
    /\ task.alg = "timeout" => task.from \in Alg!Times /\ task.to \in Alg!Times
    /\ task.alg = "search" => task.size \in Nat

LEMMA TaskStart == MaxLen \in Nat /\ Alg!AlgorithmsInit => TaskKnown
<1>. SUFFICES ASSUME MaxLen \in Nat, Alg!AlgorithmsInit PROVE TaskKnown
  OBVIOUS
<1>1. \/ task \in [alg : {"sort", "search"}, array : Alg!Inputs, size : 0 .. MaxLen]
      \/ task.alg = "merge" \/ task.alg = "equations" \/ task.alg = "columns" \/ task.alg = "rearrange"
      \/ task \in [alg : {"translate"}, c : 0 .. 255]
      \/ task \in [alg : {"timeout", "offset"}, from : Alg!Times, to : Alg!Times]
      \/ task.alg = "checksum"
  BY DEF Alg!AlgorithmsInit
<1>. QED  BY <1>1 DEF TaskKnown

(* translate() gives each byte back but the letters `a' and `n'            *)
(* (ch14_fsync.c:12), timeout() sleeps less than two seconds too short, or *)
(* without end in the second that has begun (ch12_mutexattr.c:79-83), and  *)
(* lsearch() finds the first element with the key, for any MaxLen and Keys.*)
THEOREM FunctionsRight ==
    ASSUME MaxLen \in Nat
    PROVE  Spec => [](prog = "algorithms" => Alg!TranslateRight /\ Alg!TimeoutRight /\ Alg!SearchRight)
<1>. DEFINE Inv == prog = "algorithms" => TaskKnown
<1>1. Init => Inv
  BY TaskStart DEF Init
<1>2. Inv /\ [Next]_all => Inv'
  BY DEF Next, all, Runs, InCopy, InWait, InSignals, TaskKnown
<1>3. Inv => (prog = "algorithms" => Alg!TranslateRight /\ Alg!TimeoutRight /\ Alg!SearchRight)
  <2>. SUFFICES ASSUME TaskKnown PROVE Alg!TranslateRight /\ Alg!TimeoutRight /\ Alg!SearchRight
    OBVIOUS
  <2>1. Alg!TranslateRight
    BY TranslateTwice DEF Alg!TranslateRight, TaskKnown
  <2>2. ASSUME task.alg = "search" PROVE Alg!SearchRight
    BY <2>2, FirstFound DEF Alg!SearchRight, TaskKnown
  <2>3. ASSUME task.alg = "timeout" PROVE Alg!TimeoutRight
    <3>1. /\ task.to \in [sec : Nat, nsec : 0 .. Alg!SECTONSEC - 1]
          /\ task.from \in [sec : Nat, nsec : 0 .. Alg!SECTONSEC - 1]
          /\ task.from.sec >= Alg!SECTONSEC /\ task.to.sec - task.from.sec < Alg!UINT
      BY <2>3, WrapsAround DEF TaskKnown, Alg!Times, Alg!SECTONSEC
    <3>. DEFINE wanted == (task.to.sec - task.from.sec) * Alg!SECTONSEC + task.to.nsec - task.from.nsec
                slept == Alg!timeout(task.to, task.from)
    <3>2. /\ wanted <= 0 => slept = 0
          /\ wanted > 0 /\ task.to.sec = task.from.sec => slept = Alg!UINT - 1
          /\ wanted > 0 /\ task.to.sec # task.from.sec =>
                 slept * Alg!SECTONSEC <= wanted /\ wanted < slept * Alg!SECTONSEC + 2 * Alg!SECTONSEC
      BY <3>1, SleepsShort, Zenon
    <3>3. wanted <= 0 \/ wanted > 0
      BY <3>1 DEF Alg!SECTONSEC
    <3>4. wanted <= 0 => ~(wanted > 0)
      BY <3>1 DEF Alg!SECTONSEC
    <3>5. Alg!TimeoutRight <=>
              CASE wanted <= 0 -> slept = 0
                [] wanted > 0 /\ task.to.sec = task.from.sec -> slept = Alg!UINT - 1
                [] OTHER -> slept * Alg!SECTONSEC <= wanted /\ wanted < slept * Alg!SECTONSEC + 2 * Alg!SECTONSEC
      BY <2>3 DEF Alg!TimeoutRight
    <3>. HIDE DEF wanted, slept
    <3>. QED  BY <3>2, <3>3, <3>4, <3>5
  <2>4. /\ task.alg # "search" => Alg!SearchRight
        /\ task.alg # "timeout" => Alg!TimeoutRight
    BY DEF Alg!SearchRight, Alg!TimeoutRight
  <2>. QED  BY <2>1, <2>2, <2>3, <2>4
<1>. QED  BY <1>1, <1>2, <1>3, PTL DEF Spec
=============================================================================
