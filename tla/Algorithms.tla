----------------------------- MODULE Algorithms -----------------------------
(***************************************************************************)
(* The pure functions of the repository as operators.  An array is a       *)
(* function from 0; an element of a sorted array has the key that cmpfn()  *)
(* compares and the place where it began.  Each function is applied to the *)
(* bounded inputs of a "task" and compared with what it should compute.    *)
(***************************************************************************)
EXTENDS Integers, SequencesExt

CONSTANTS
    MaxLen,   \* bound: elements of an array
    Keys,     \* the keys of the elements
    Letters,  \* the variables of the equations
    MaxEqs,   \* bound: equalities
    MaxInput  \* MAX_INPUT: the size of `output' in read_column_numbers.c

VARIABLE task   \* [alg |-> the function, and its arguments]

Elem == [key : Keys, id : 0 .. MaxLen - 1]
Array == [0 .. MaxLen - 1 -> Elem]
Index == -1 .. MaxLen
(* `swap' exchanges two elements byte by byte.                             *)
swap(a, p, q) == [a EXCEPT ![p] = a[q], ![q] = a[p]]

-----------------------------------------------------------------------------
(* my_sort.c: the first element is the pivot.  One round of the while loop *)
(* moves `hight' down to a smaller element, then `low' up to a larger one. *)
Round(a, begin, low, high) ==
    LET pivot == a[begin].key
        h == Max({low} \cup {i \in low + 1 .. high : a[i].key < pivot})
        l == Min({h} \cup {i \in low .. h - 1 : a[i].key > pivot})
    IN <<IF h > l THEN swap(a, h, l) ELSE a, l, h>>
partition[a \in Array, begin \in Index, low \in Index, high \in Index] ==
    IF low < high
    THEN LET r == Round(a, begin, low, high) IN partition[r[1], begin, r[2], r[3]]
    ELSE [array |-> IF low > begin THEN swap(a, low, begin) ELSE a, at |-> low]
my_partition(a, begin, end) == partition[a, begin, begin, end]

do_qsort[a \in Array, begin \in Index, end \in Index] ==
    IF end <= begin THEN a
    ELSE LET p == my_partition(a, begin, end)
         IN do_qsort[do_qsort[p.array, begin, p.at - 1], p.at + 1, end]
my_qsort(a, size) == do_qsort[a, 0, size - 1]

(* Takes the element from the left half unless the right one is smaller.   *)
Fault_TakeRight(left, right) == left.key >= right.key
TakeRight(left, right) == left.key > right.key
merged[a \in Array, l \in Index, middle \in Index, r \in Index, to \in Index] ==
    IF l > middle /\ r > to THEN << >>
    ELSE IF l > middle \/ (r <= to /\ TakeRight(a[l], a[r]))
         THEN <<a[r]>> \o merged[a, l, middle, r + 1, to]
         ELSE <<a[l]>> \o merged[a, l + 1, middle, r, to]
do_merge(a, from, to) ==
    LET middle == from + (to - from) \div 2
        tmp == merged[a, from, middle, middle + 1, to]
    IN [i \in DOMAIN a |-> IF i \in from .. to THEN tmp[i - from + 1] ELSE a[i]]
merge_sort[a \in Array, from \in Index, to \in Index] ==
    LET middle == from + (to - from) \div 2
    IN CASE from >= to -> a
         [] to - from = 1 -> IF TakeRight(a[from], a[to]) THEN swap(a, from, to) ELSE a
         [] OTHER -> do_merge(merge_sort[merge_sort[a, from, middle], middle + 1, to], from, to)
my_merge_sort(a, size) == merge_sort[a, 0, size - 1]

(* merge() of ch11_pthread_barrier.c: chunks sorted by as many threads; the *)
(* least of the chunks' heads is taken, the first one among equals.  Every *)
(* key is below LONG_MAX, as those of random() are.  (The file does not    *)
(* compile: idex in line 59 is read as idx.)                               *)
chunks[a \in Array, idx \in Seq(Nat), size \in Nat, out \in Seq(Elem)] ==
    LET open == {c \in DOMAIN idx : idx[c] < c * size}
        least == {c \in open : \A d \in open : a[idx[c]].key <= a[idx[d]].key}
        minidx == Min(least)
    IN IF open = {} THEN out
       ELSE chunks[a, [idx EXCEPT ![minidx] = @ + 1], size, Append(out, a[idx[minidx]])]
merge(a, threads, size) == chunks[a, [c \in 1 .. threads |-> (c - 1) * size], size, << >>]

(* lsearch(): the first element that compares equal, or NULL, here -1.     *)
lsearch(a, key, len) ==
    LET found == {i \in 0 .. len - 1 : a[i].key = key} IN IF found = {} THEN -1 ELSE Min(found)

-----------------------------------------------------------------------------
(* leetcode/equations.c.  The while loop of find_root() ends after one     *)
(* turn, since it compares what it has just assigned: the result is the    *)
(* entry of the entry.                                                     *)
find_root(x, eq_set) == IF eq_set[x] = -1 THEN -1 ELSE eq_set[eq_set[x]]
Equate(eq_set, j, k) ==
    LET jroot == find_root(j, eq_set)  kroot == find_root(k, eq_set)  kr == eq_set[k]
    IN IF jroot # -1
       THEN IF kroot # -1 THEN [[eq_set EXCEPT ![k] = jroot] EXCEPT ![kr] = jroot]
                          ELSE [eq_set EXCEPT ![k] = jroot]
       ELSE IF kroot # -1 THEN [eq_set EXCEPT ![j] = kroot]
                          ELSE [[eq_set EXCEPT ![j] = j] EXCEPT ![k] = j]
EqSet(eqs) == FoldLeft(LAMBDA s, eq : Equate(s, eq[1], eq[2]), [x \in Letters |-> -1], eqs)
(* The equalities eqs with the one inequality j != k.                      *)
equationsPossible(eqs, j, k) ==
    /\ j # k
    /\ LET s == EqSet(eqs) IN ~(find_root(j, s) # -1 /\ find_root(j, s) = find_root(k, s))
Satisfiable(eqs, j, k) ==
    \E v \in [Letters -> BOOLEAN] : v[j] # v[k] /\ \A n \in DOMAIN eqs : v[eqs[n][1]] = v[eqs[n][2]]

-----------------------------------------------------------------------------
(* read_column_numbers.c: pairs of numbers up to `max', a negative one or  *)
(* the end; an odd count ends the program (here -1).                       *)
read_column_number(input, max) ==
    LET stops == {n \in DOMAIN input : input[n] < 0} \cup {Len(input) + 1, max + 1}
        num == Min(stops) - 1
    IN IF num % 2 # 0 THEN -1 ELSE num
(* strncpy() fills the rest of a range that goes past the end with nulls.  *)
strncpy(input, from, n) == [i \in 1 .. n |-> IF from + i <= Len(input) THEN input[from + i] ELSE 0]
(* What follows a write outside `output' is undefined.                     *)
Outside == << -1 >>
(* Nothing but output_col = MAX_INPUT - 1 keeps strncpy() and the null     *)
(* after the loop within `output'; a negative nchars is a huge size_t.     *)
rearranged[input \in Seq(Nat), columns \in Seq(Nat), col \in Nat, output \in Seq(Nat)] ==
    IF col > Len(columns) \/ columns[col] >= Len(input) \/ Len(output) = MaxInput - 1
    THEN IF Len(output) < MaxInput THEN output ELSE Outside
    ELSE LET nchars == columns[col + 1] - columns[col] + 1
         IN IF nchars < 0 \/ Len(output) + nchars > MaxInput THEN Outside
            ELSE rearranged[input, columns, col + 2, output \o strncpy(input, columns[col], nchars)]
(* What is printed: the characters before the first null.                  *)
rearrange(input, columns) ==
    LET output == rearranged[input, columns, 1, << >>]
        nulls == {i \in DOMAIN output : output[i] = 0}
    IN IF nulls = {} THEN output ELSE SubSeq(output, 1, Min(nulls) - 1)

-----------------------------------------------------------------------------
(* translate() of ch14_fsync.c and ch14_async.c, of the code of a letter.  *)
translate(c) ==
    IF c \in 65 .. 90 \cup 97 .. 122
    THEN IF c > 110 \/ c \in 78 .. 96 THEN c - 13 ELSE c + 13
    ELSE c

(* timeout() of ch12_mutexattr.c: how long the thread sleeps, or 0 for an  *)
(* immediate call.  tv_nsec is compared with tv_sec; sleep() takes the     *)
(* seconds, unsigned; SECTONSEC is 10 here.                                *)
SECTONSEC == 10
UINT == 2 ^ 20
to_wait(when, now) == IF when.nsec >= now.sec THEN when.sec - now.sec ELSE when.sec - now.sec - 1
timeout(when, now) ==
    IF when.sec > now.sec \/ (when.sec = now.sec /\ when.nsec > now.nsec)
    THEN to_wait(when, now) % UINT
    ELSE 0

(* my_icmp.c: the sum of 16-bit words, and of the last byte when there is  *)
(* an odd one (of at most one), folded twice; and the difference of two    *)
(* times, where the borrowed second is added to the wrong field.           *)
W16 == 65536
check_sum(words, odd) ==
    LET sum == FoldLeft(+, 0, words \o odd)
        once == (sum \div W16) + (sum % W16)
        twice == (once \div W16) + once
    IN W16 - 1 - (twice % W16)
time_offset(begin, end) ==
    LET usec == end.usec - begin.usec
    IN [sec |-> (end.sec - begin.sec) + (IF usec < 0 THEN 999999 ELSE 0), usec |-> usec]

-----------------------------------------------------------------------------
Sequence(a, size) == [i \in 1 .. size |-> a[i - 1]]
Keyed(keys) == [i \in DOMAIN keys |-> [key |-> keys[i], id |-> i]]
Inputs == {Keyed(k) : k \in [0 .. MaxLen - 1 -> Keys]}
SortedBy(a, b) == a.key <= b.key
(* The first `size' elements are the same ones, the others untouched.      *)
IsPermutation(out, a, size) == /\ {out[i] : i \in 0 .. size - 1} = {a[i] : i \in 0 .. size - 1}
                               /\ \A i \in size .. MaxLen - 1 : out[i] = a[i]

Times == [sec : 10 .. 12, nsec : {0, 3, 9}]
(* Five equalities after which an impossible system is taken for possible. *)
Five == << <<2, 3>>, <<4, 0>>, <<1, 1>>, <<2, 4>>, <<1, 2>> >>
AlgorithmsInit ==
    \/ task \in [alg : {"sort", "search"}, array : Inputs, size : 0 .. MaxLen]
    \/ task \in [alg : {"merge"}, size : {MaxLen}, array : {a \in Inputs : \A i \in 0 .. MaxLen - 1 :
                                              i % (MaxLen \div 2) # 0 => a[i - 1].key <= a[i].key}]
    \/ task \in [alg : {"equations"}, eqs : BoundedSeq((0 .. 3) \X (0 .. 3), MaxEqs) \cup {Five}]
    \/ task \in [alg : {"columns"}, input : BoundedSeq({-1, 0, 2}, 5)]
    \/ task \in [alg : {"rearrange"}, first : 0 .. 5, last : 0 .. 5, second : 0 .. 5, end : 0 .. 5]
    \/ task \in [alg : {"translate"}, c : 0 .. 255]
    \/ task \in [alg : {"timeout", "offset"}, from : Times, to : Times]
    \/ task \in [alg : {"checksum"}, words : BoundedSeq({0, 1, 32768, 65535}, 4),
                 odd : BoundedSeq({0, 1, 255}, 1)]

(* Both sorts and the merge of sorted chunks return the elements in order, *)
(* and the merges keep equal elements in their order (my_sort.c:116).      *)
SortsRight ==
    LET a == task.array
        size == task.size
        q == my_qsort(a, size)
        m == my_merge_sort(a, size)
        out == merge(a, 2, size \div 2)
        Stable(x, y) == x.key < y.key \/ (x.key = y.key /\ x.id <= y.id)
    IN /\ task.alg = "sort" => /\ IsPermutation(q, a, size) /\ IsSorted(Sequence(q, size), SortedBy)
                               /\ IsPermutation(m, a, size) /\ IsSorted(Sequence(m, size), Stable)
       /\ task.alg = "merge" => /\ Len(out) = size /\ IsSorted(out, Stable)
                                /\ ToSet(out) = {a[i] : i \in DOMAIN a}

(* The answer "impossible" is always right, and so is "possible" after up  *)
(* to four equalities; after the five of Five it is wrong, because the     *)
(* result of find_root() is not a root (equations.c:131-134).              *)
EquationsRight ==
    task.alg = "equations" =>
        /\ ~equationsPossible(task.eqs, 0, 1) => ~Satisfiable(task.eqs, 0, 1)
        /\ equationsPossible(task.eqs, 0, 1) => (Satisfiable(task.eqs, 0, 1) <=> task.eqs # Five)
(* What is printed is the ranges that begin inside the input, up to the    *)
(* first that goes past its end: the nulls after it hide the later ones    *)
(* (read_column_numbers.c:59).  The program writes outside `output' for    *)
(* every range that ends before it begins (by more than one column) and    *)
(* whenever the ranges do not fit, but for a first one that fills `output' *)
(* to the last character: only then does the test for MAX_INPUT - 1 (56)   *)
(* leave out the second.  An even number of columns is read.               *)
RearrangeRight ==
    LET input == <<1, 2, 3>>
        Columns(a, b) == SubSeq(input, a + 1, IF b < 2 THEN b + 1 ELSE 3)
        one == task.last - task.first + 1
        two == IF one = MaxInput - 1 \/ task.second > 2 THEN 0 ELSE task.end - task.second + 1
        second == task.last <= 2 /\ task.second <= 2 /\ one # MaxInput - 1
    IN /\ task.alg = "rearrange" =>
            rearrange(input, <<task.first, task.last, task.second, task.end>>) =
                CASE task.first > 2 -> << >>
                  [] task.first <= 2 /\ (one < 0 \/ two < 0 \/ one + two >= MaxInput) -> Outside
                  [] OTHER -> Columns(task.first, task.last)
                                 \o (IF second THEN Columns(task.second, task.end) ELSE << >>)
       /\ task.alg = "columns" =>
            LET n == read_column_number(task.input, 4) IN n # -1 => n % 2 = 0 /\ \A i \in 1 .. n : task.input[i] >= 0
(* Translated twice, every letter is itself again, but for `a' and `n':    *)
(* 'n' becomes '{' (ch14_fsync.c:12).                                      *)
TranslateRight == task.alg = "translate" => (translate(translate(task.c)) # task.c <=> task.c \in {97, 110})
(* The thread of timeout() sleeps less than two seconds too short and      *)
(* never too long, unless the time is in the second that has begun: then   *)
(* the unsigned seconds are -1 (ch12_mutexattr.c:79-83).                   *)
TimeoutRight ==
    LET wanted == (task.to.sec - task.from.sec) * SECTONSEC + task.to.nsec - task.from.nsec
        slept == timeout(task.to, task.from)
    IN task.alg = "timeout" =>
        CASE wanted <= 0 -> slept = 0
          [] wanted > 0 /\ task.to.sec = task.from.sec -> slept = UINT - 1
          [] OTHER -> slept * SECTONSEC <= wanted /\ wanted < slept * SECTONSEC + 2 * SECTONSEC
(* Over a packet with its own checksum the checksum is 0, whether its      *)
(* length is even or odd.  A difference of two times is right unless a     *)
(* second is borrowed: then it is 999999 and the borrowed second too long  *)
(* (my_icmp.c:64-65).                                                      *)
PacketRight ==
    /\ task.alg = "checksum" =>
        check_sum(Append(task.words, check_sum(task.words, task.odd)), task.odd) = 0
    /\ task.alg = "offset" =>
        LET d == time_offset([sec |-> task.from.sec, usec |-> task.from.nsec], [sec |-> task.to.sec, usec |-> task.to.nsec])
        IN IF task.to.nsec >= task.from.nsec
           THEN d.sec = task.to.sec - task.from.sec /\ d.usec \in 0 .. SECTONSEC - 1
           ELSE d.sec = task.to.sec - task.from.sec + 999999 /\ d.usec < 0
SearchRight ==
    task.alg = "search" =>
        LET i == lsearch(task.array, 1, task.size) IN
        IF i = -1 THEN \A j \in 0 .. task.size - 1 : task.array[j].key # 1
        ELSE task.array[i].key = 1 /\ \A j \in 0 .. i - 1 : task.array[j].key # 1

(* Each function computes what it should, or exactly what is said above.   *)
ResultsRight == EquationsRight /\ RearrangeRight /\ TranslateRight /\ TimeoutRight /\ PacketRight /\ SearchRight
=============================================================================
