# A verification development for c_cplusplus

The repository is a collection of C programs: the library and the exercises of a UNIX
programming course (`apue/`), network tools (`ping.c`, `my_icmp.c`, three versions of
`traceroute`), and small data structures and algorithms. It has no README and no
architecture document; the programs, their comments and the few test programs
(`*_test.c`) are all there is. What is worth verifying is the part in which several
processes, threads, signals or messages meet: `apue/lib` and the programs that use it, and
the traceroute that waits for answers among everybody else's.

This directory holds TLA+ models of those parts and of the pure functions, TLC
configurations that check them, and TLAPS proofs of the safety properties, for every number
of processes, messages, buffers and so on, and of the refinement.

## 1. Inventory

| component | state it keeps | operations | what is hard | what makes it correct |
|---|---|---|---|---|
| `apue/lib/semaph.c` | a kernel semaphore set per key: value, process counter, lock; the IDs the processes hold | `sem_create`, `sem_open`, `sem_op`/`sem_wait`/`sem_signal`, `sem_close`, `sem_rm` | every call is several system calls; processes exit between any two; the set disappears under its users; SEM_UNDO | one process at a time inside the lock; the counter is exact; a set in use is neither initialized nor removed; together a counting semaphore |
| `traceroute_std.c` | ttl, probe number, counts of answers; the raw socket's queue | send a probe, wait, accept or reject a message, next ttl | answers come late, out of order, for other tasks, with codes that nothing counts; timeouts | every answer is printed for its own probe; the trace ends, at the host or with a reason |
| `apue/lib/tellwait.c` and its users (`ch14_deadlock.c`, `ch14_lock.c`, `ch08_racecondition2.c`, `ch10_signal_fork.c`) | `sigflag`, signal masks, pending signals; record locks | `TELL_WAIT`, `TELL_*`, `WAIT_*`, `lockabyte` | the window between a test and a sleep; order of fork and set-up; EDEADLK | no wait returns early, no wake-up is lost, no signal kills, a claimed lock is held |
| `apue/lib/popen.c` | descriptor table, `childpid[]`, children | `popen`, `pclose` | descriptors are used again and inherited; failures halfway | `pclose` waits for its own command and comes back; a command has its own pipe and no other |
| `ch14_async.c` | eight buffers with an aiocb each, file offset, number of operations | start a read, translate and write, finish a write, suspend | completions in any order, in part or failed; end conditions | every block is written once; the program ends |
| `ch11_*`, `ch12_*` threads | a reference count under a mutex, barriers, condition variables, thread-specific data, cancellation | hold/release, wait/signal, join/detach, timers | lock order, use after free, lost wake-ups | no use of a freed object, no missed condition |
| `ch13_*` daemon, `lib/daemonize.c`, `lockreg.c` | lock file, signal mask, signal thread | start, re-read, stop | forks against the lock, SIGHUP/SIGTERM races | one instance, the file names it |
| `ch10_*` signal programs, `ch08_system.c`, `lib/sleep.c`, `lib/signal.c` | dispositions, masks, alarms, jump buffers | `sleep`, `system`, `abort`, `sigsuspend`, `longjmp` out of handlers | the same windows as tellwait, alarms lost or left behind | the programs end, for the right reason; handlers and masks are given back |
| `lib/recvfd.c`, `sendfd.c`, `senderr.c` | stream of bytes with a descriptor attached | send/receive a descriptor or an error | messages cut in pieces, calls that give up halfway | the receiver gets the descriptor or the error that was sent |
| `lib/cliconn.c`, `servlisten.c`, `servaccept.c` | socket names with owner and age | connect, listen, accept | stale names, pids used again, files replaced between the calls that judge them | a living client is taken for its user |
| `lib/ttymodes.c` | saved settings, the terminal they are of, the mode | cbreak, raw, reset, at exit | settings applied in part | what was changed is put back |
| `ping.c`, `my_icmp.c` | sequence numbers, two threads sharing `alive`, time slots | send, receive, report | lost and foreign answers, SIGINT at any time | a time belongs to its request; the program ends |
| `traceroute_udp.c`, `traceroute_icmp.c` | ttl, counts, a `timeval` that `select()` consumes | send, wait, next | late answers, other traffic | a line names the router of its ttl |
| `ch15_pipe*.c`, `ch15_add.c`, `ch15_popen_pclose.c`, `ch15_tolower.c` | two pipes, who has which end, line buffers | write, read, close, wait | two processes that wait for each other | each line gets its answer; both end |
| `my_array_list.c`, `mystack.h` | a buffer that grows | add, remove, get, push, pop | pointers into a buffer that moves | the buffer is the sequence of what was stored |
| `my_sort.c`, `lsearch.c`, `leetcode/equations.c`, `read_column_numbers.c`, `translate()`, `timeout()`, `merge()`, `check_sum()`, `time_offset()` | none | pure functions | bounds, units, borrowed digits | results equal to the definition, or differ from it exactly as stated |
| exercises of ch01-ch09, `average.c`, `byteorder.c`, ... | none to speak of | one system call or library call each | nothing a model would show | - |

The programs interact through the kernel only: signals, pipes, record locks, semaphore sets,
sockets. Inside `apue/lib` the files are independent of each other except that `popen.c`
uses `open_max()` and everything uses the error functions. Two files of the library,
`semaph.c` and `sleep.c`, are not in the archive's `OBJS` (`apue/lib/Makefile`).

The hazards of the code are listed in `PROJECT.json`, each at its line, with the properties
that would show it going wrong.

## 2. Modules

| module | models | run by |
|---|---|---|
| `Semaph` | `apue/lib/semaph.c` and the kernel's side of `semget`, `semop`, `semctl`, SEM_UNDO | `MCSemaph` |
| `SemaphAbs` | the counting semaphore that the library promises | `MCSemaph`, as a property |
| `SemaphProofs` | theorems about `Semaph`, and that it implements `SemaphAbs` | - |
| `Traceroute` | the loop of `traceroute_std.c`, with the network and the raw sockets | `MCTraceroute` |
| `TellWait` | `tellwait.c`, signals and record locks; the programs that use them are data (`Codes`) | `MCTellWait` |
| `TracerouteProofs`, `TellWaitProofs` | theorems about `Traceroute` and `TellWait` | - |
| `Popen` | `popen()`, `pclose()`, descriptor tables, pipes and children | `MCMessages` |
| `FdPass` | `send_fd()`, `send_err()`, `recv_fd()` over a byte stream | `MCMessages` |
| `Conn` | `cli_conn()`, `serv_listen()`, `serv_accept()` and `/var/tmp` | `MCMessages` |
| `Ping` | `ping.c` with the socket functions of `my_icmp.c`, and the network | `MCMessages` |
| `OldTrace` | the loops of `traceroute_udp.c` and `traceroute_icmp.c` | `MCMessages` |
| `Daemon` | `ch13_daemon.c` with `daemonize()`, `already_running()` and `lockreg.c` | `MCMessages` |
| `Coprocess` | the pipe programs of ch15 | `MCMessages` |
| `PopenProofs` | theorems about `Popen` | - |
| `NetworkProofs` | theorems about `FdPass`, `Conn`, `Ping`, `OldTrace` and `Coprocess` | - |
| `MessagesProofs` | the theorem about `Daemon` | - |
| `AioCopy` | the copy loop of `ch14_async.c` and the kernel that completes its operations | `MCPrograms` |
| `FooRef` | `foo_alloc()`, `foo_hold()`, `foo_rele()` of `ch11_pthread_mutex.c` | `MCPrograms` |
| `FooRefProofs` | theorems about `FooRef` | - |
| `Sigwait` | `ch12_pthread_signal.c` | `MCPrograms` |
| `Signals` | sixteen signal programs of ch10 and `ch08_system.c`, and the kernel's signals | `MCPrograms` |
| `Containers` | `my_array_list.c`, `mystack.h` | `MCPrograms` |
| `Tty` | `lib/ttymodes.c` | `MCPrograms` |
| `ProgramsProofs` | theorems about `AioCopy`, `Signals`, `Containers` and `Tty` | - |
| `Algorithms` | the pure functions | `MCPrograms` |

`MCPrograms` and `MCMessages` put several programs that have nothing to do with each other
into one instance: `prog`, chosen at the start, says which one runs, and the variables of the
others keep their first values. No behaviour mixes two of them; a property of one is that of
its module.

### How state and actions correspond to the code

*Semaph.* One action per system call, because a process may exit and others may run
between any two. `pc[p]` names the call `p` makes next (`c_` in `sem_create()`, `o_` in
`sem_open()`, `x_` in `sem_close()`, `op` in `sem_op()`); the letters after it are the
semaphore operation array or the `semctl` command. The arrays `op_lock[]`, `op_endcreate[]`,
... are the definitions of the same names: which members must be 0 first, what is added, and
which entries carry SEM_UNDO. The kernel performs an array entirely or not at all (`CanDo`,
`Semop`); a call that cannot be performed puts the process into `asleep`, and when the set is
removed the sleeper gets an error. An ID of a removed set is never the ID of a later one, so
an ID is `none`, `live` or `stale`. `SETVAL` clears the adjust values of every process, `Exit`
applies them. Errors that end in `err_sys()` or `err_dump()` are `Die`.

The clients are an assumption. `OpCall` and `CloseCall` let a process take units only when it has
none, give back no more than it took, and close only when it has none; `sem_op()`, `sem_signal()`
and `sem_close()` (`semaph.c` 222-253, 284-291) impose nothing of the kind. It is made because
without it member 0 counts nothing: `sem_op()` has SEM_UNDO, so the units of a process that only
signals are taken back when it exits, and where others have them by then the kernel stops at 0 and
the units that come back later are too many; a process that closes with units keeps its adjust
value, which is applied at its exit to a semaphore it does not use any more. The property that
stands on this is `ImplementsSemaphore` with its theorem `Implementation`. The others are about
members 1 and 2, which `sem_op()` does not touch, and about where the processes are. That a value
never becomes negative (`TypeOK`, a lemma of the proofs) is the kernel's rule for `semop()` and says
nothing of the library.

*Traceroute.* A task is at `send`, `wait` or `line` (the end of the body of the ttl loop). A probe
is known to the network by task, number and ttl; the program sees only the two ports of a message,
and `PacketOk` compares what `packet_ok()` compares, with the widths as constants (`IdentMod` for
the 15 bits of the pid, `PortMod` for a port). Every message is put into the queue of every raw
socket. `Kinds` says what may come back for a probe: the ttl exceeded from a router, a closed port
or an unknown protocol from the host, and from either any other code of ICMP_UNREACH that the constant `Unreach` names for the route.
`packet_ok()` accepts them without exception: those that the switch counts as "unreachable"
(`Errors`) and those it has no case for ("prohibited" in the runs; 9, 10 and 13 among them), which
print a time and count nowhere. `left` is what remains of the `select()` timeout; reading a message that is not accepted
starts it afresh, as the code does.

*TellWait.* A program is a pair of sequences of operations; `ip` is the operation and `step`
the system call in it. The body of `TELL_WAIT` is four calls, that of `WAIT_*` the test, the
`sigsuspend()`, the reset and the restored mask. `Deliver` runs the handler, or kills a process
that has none. `MCTellWait` holds the programs of the repository and all small ones.

*Popen.* `fds` is the descriptor table, `childpid` the array of that name, `child[k].fds` the table
of the k-th command. The calls are split where something else can happen: after `pipe()`, after
`fork()`, after the parent has closed its end, after `fdopen()`. The child reads and changes its own
copy of everything, so what it does up to `execl()` is one action with `childpid[]` as it was at the
fork (`inherited`). `Pclose` has both ends of `fclose()`: when it is EOF, because the command does
not read any more what is left to write, `pclose()` returns with `childpid[]` cleared and the child
not waited for (108-110); `unwaited` is the history of these. The lowest free descriptor is used, as
POSIX requires; without it descriptors would not be used again as they are. `ch15_popen_pclose.c`
has a copy of these functions; its `popen()` tests `type[1]` where the library tests `type[0]` and
so refuses "w".

*AioCopy.* One action per case of the `switch`, one for the tests after it. The kernel completes an
operation in full or in part (a read of a file that became shorter after `fstat()`, a write to a
disk that is full), or fails it; `partial` is the history of those that transferred less than they
could, of which the program sees the reads only. `n` is a variable of the whole function and is a
variable of the model: that is the point of `QuitsOnlyIfShort` (a part of `OutputRight`). The size
of the input is chosen at the start.

*FooRef.* `f_count++` and `--f_count` are a read and a write. The threads observe the rule
without which a reference count means nothing: who calls `foo_hold()` or `foo_rele()` has a
reference. `main()` obeys it up to line 101; its last read (107) is of the object that line 105 freed. The
thread functions of the file return before they call anything, so the concurrency here is that
of the functions' purpose and not of this `main()`.

*Sigwait.* The mutex, the condition variable and the mask are variables; `Test` and `CondWait`
are two steps, so that a signal between them would be lost without the mutex.

*Signals.* A program is data: `Code` gives, for `main()` and for every handler, one instruction
for each call after which something can happen. The machine has a stack of frames (a
handler runs on top of what it interrupted, `longjmp()` cuts the stack), dispositions, the
mask, pending signals, an alarm, and one child. Signals from outside come at any
time, the alarm counts `Tick`s. `Inherited` is what the process may have been started with;
for `sleep()` also a caller's own alarm and handler.

*FdPass.* A byte of the stream is a letter, the null or a status, and carries the descriptor of
its `sendmsg()`. `Read` takes any number of bytes that are there, up to the size of the buffer,
and goes through them as the loop of `recv_fd()` does; a read that brings a descriptor does not
go on behind the message that carried it. A connection lives through several requests,
because what one call leaves in the stream is read by the next.

*Conn.* `cli_conn()` and `serv_accept()` are one action per system call, `accept()`, `stat()`,
`time()` and `unlink()` in the latter, with `statbuf` kept in between; a file in `/var/tmp` has an
owner, a time and a mode. Clients end at any time, pids come again, also to another user, and the
server ends and starts again.

*Ping.* Two threads and the handler of SIGINT share `alive` and the counters. An answer is
known by the sequence number of its request; the program sees only how many it has read.
`Mishap` loses, overtakes, doubles or forges one message. `set_dest()` tests `inaddr < 0`,
which an unsigned number never is so that the program goes on with 0.0.0.0 when a name is not
found (my_icmp.c:150, ping.c:137).

*OldTrace.* One module, two versions. `tv` is what is left of the five seconds, which `select()`
counts down and nobody sets again. Answers have codes that are counted and codes that are not
(`FILTER_PROHIB` stands for these), from the target and from any router on the way. The ICMP version
never sends: the length it gives to `sendto()` is that of a pointer, and the kernel refuses it.

*Daemon.* An instance is the list of steps it still has to do; `Fork` gives it a new process,
which matters because record locks belong to processes. Every call may fail where the code
tests it. `main()` exits as soon as the thread exists, and takes the thread with it.

*Coprocess.* Four programs over two pipes. `open` says which ends a process has; a read sees the
end of the file when nobody has the write end, a write gets SIGPIPE when nobody has the read
end. Children may be killed, or fail in `execl()`.

*Containers.* `elems` is what a caller believes to be stored and `buffer` what the code keeps;
`got` is a pointer that `list_get()` returned, as the test program uses it.

*Tty.* Settings are the terminal they come from and the groups of flags that were changed;
`tcsetattr()` may fail, or succeed with a part of them.

*Algorithms.* The functions are operators. A `task`, chosen at the start, is a function with its
input, and the invariant compares what the function gives with its definition. Where the code
departs from the definition, the property says for which inputs it does, and only for those:
`find_root()` after more than four equalities, `translate()` at `a` and `n`, `timeout()` within the
current second (the unsigned seconds are -1), `time_offset()` with a borrowed second, `rearrange()`
behind a range that goes past the end. `rearrange()` also writes outside `output` (`Outside`), since
the test for `MAX_INPUT - 1` (56) is made before a range and for equality; the property says for
which ranges. `check_sum()` has the branch for an odd last byte.

## 3. Runs

| run | instance | what it shows |
|---|---|---|
| `semaph_create` | 4 processes, `sem_create()` only, value 2, exits | no set is removed under a user; refinement of `SemaphAbs` |
| `semaph_mixed` | 2 creators, 3 openers, 1 server with `sem_rm()`, exits | lock, counter, initialization; `sem_close()` returns |
| `semaph_noexit` | 2 creators, 3 openers, no exits | the last closer removes the set; `sem_open()` returns |
| `semaph_exhausted` | 3 processes, BIGCOUNT 2 | the lock's inductive invariant at the limit of the counter |
| `tracert` | 2 tasks, 2 probes per ttl, 2 hops, answers one probe late, every kind of code | attribution, what stops a trace and what does not, termination |
| `tell` | every program with up to 3 operations a side, and those of the repository | nothing early, nothing lost, nobody killed |
| `programs` | the programs of one process, one in each behaviour | nothing used after it was freed; the copy is right; SIGQUIT ends; handlers, masks and terminal given back; how signal programs end; buffers; results |
| `messages` | `popen()`, descriptors over a stream, `ping`, daemons, coprocesses, local connections, the older traceroutes, one in each behaviour | right child, own pipe only; what was sent is what is received; times of their own probe; one daemon; lines and their answers; a living client judged right; what a line shows and what ends a trace; the programs end |
| `semaph_open_race`, `semaph_eidrm`, `tracert_single`, `tell_edeadlk` | - | the findings of section 6 |

Why the bounds are enough. For the semaphore, the races are between a closer, a process that
attaches and one that sleeps on the lock; a fourth process (in `semaph_create`) or a server (in
`semaph_mixed`) is one more than any of them needs, and the theorems hold for any number. For
`tracert`, three probes in flight and one late answer of each kind make every way of confusing two
probes happen; the ports wrap around (`PortMod` 8). One route is a silent host behind
a router, traced up to `max_ttl`; on the other the host may answer with its own code, one that counts
as "unreachable" and one that counts nowhere, so that each of the reasons to stop, and to go on, is
there. Two probes are enough for both counts (`StopsWithReason` and `HostEndsTrace` are for any).

`programs`: three threads let one hold for a second while a third gives up the last reference but
one. Blocks of two (`BSZ`), files of several sizes that end at a block boundary and that do not, and
fewer buffers than blocks, so that a buffer is used again while another is in progress; every
operation may be short or fail. `MaxInput` 6 lets two ranges of columns overrun `output` or fill it
to the last character. `MaxSent` 4 signals for `Sigwait`; two signals (`MaxSignals`) for the signal
programs, since what happens is decided by where the first and, if it interrupts the first's
handler, the second arrives; two ticks (`Seconds`), so that a signal may come with the alarm half
run. Arrays of up to 6 elements (`MaxLen`) with three keys have every split of the sorts and equal
elements in both halves. Up to 4 equalities (`MaxEqs`) over 5 variables are where `find_root()` is
right, and the five of `Five` where it is not. Five elements (`MaxElems`) in a buffer that begins
with two let it grow twice. Two terminals let `tty_reset()` be given the wrong one.

`messages`: three streams (`NChild`) are needed for a command to inherit two others' pipes; `MAXFD`
is one below `NFD`, so that a descriptor may lie outside `childpid[]`. A buffer of 4 bytes
(`MAXLINE`) with texts of 0, 1, 2 and 4, cut anywhere, and two requests (`Rounds`), the second of
which reads what the first left. Three requests (`PACKET_SEND_MAX_NUM`) and one mishap of the
network, which is enough for every shift between numbers of answers and of requests. Two daemon
instances. Three lines through pipes that hold one (`PipeSize`), so that writers wait.
For the connections two
clients, pids and users, so that a pid comes again to another user; `STALE` 0 and one second
(`MaxTime`) make a name too old; `QLEN` 2 lets both wait. A target two hops away, two probes per
ttl, one tick in `tv` and one foreign message: each of the two reasons why a line may be wrong
happens alone.

Where deadlock is not checked (`CHECK_DEADLOCK FALSE`), the programs end: traces exit,
processes exit, programs return. The semaphore's clients go on for ever
and deadlock is checked.

### Fairness

*Semaph*: a process inside a library call keeps running (weak fairness). The two calls that
wait for the lock are strongly fair, because the kernel serves the sleepers on a semaphore in
the order in which they came; a process that has not called, or that is between calls, owes
nothing: it may keep a handle for ever. *Traceroute*: time passes and the program runs; the
network owes nothing, so that `Terminates` does not rest on an answer. *TellWait*: processes
run, pending signals are delivered. *Popen*: the process runs inside a call, a command runs
and ends when its pipe is disconnected; no command is assumed to end otherwise. *AioCopy*: the kernel
completes each operation. *Sigwait*: threads run, and a waiting thread gets a mutex that is
free again and again; without the last assumption endless spurious wake-ups of `main()`
could keep the mutex from the other thread. The number of signals sent is bounded
(`MaxSent`), so that SIGQUIT is taken after finitely many SIGINTs. *Signals*: a program runs
unless it waits, a signal that is pending and not masked is delivered, the clock ticks, a command
ends; no signal from outside and no input need come. *Ping*: the threads run and answers that
are on their way arrive; a loss is a `Mishap`, and `PingEnds` then needs SIGINT. *Coprocess*:
both processes run; `Quit` need never happen.

The liveness properties say when an end is owed. `ProgramsEnd` excludes the wake-up that came
before the wait in `ch10_sigchld.c` (`pause()` after SIGCHLD) and `ch10_sigsuspend_global.c`
(SIGQUIT is not blocked): there the code does sleep for ever. `PingEnds` needs a SIGINT when a message
was lost, because `ping_recv()` waits for as many answers as there were requests.

## 4. What is proved

Every safety invariant and action property of the passing runs is a theorem, `ResultsRight` in part
(section 5). Each theorem has the same shape: an invariant `I` stronger than the property,
with `Init => I`, `I /\ [Next]_vars => I'`, one step per action, and `I => Property`.
The assumptions that the modules make on their constants are named (`SemaphAssumption`, `OptionAssumption`,
`CodeAssumption`, `PopenAssumption`, `ThreadAssumption`) and evaluated by TLC; what a single theorem
assumes beyond them is given here.

### The semaphore library (`SemaphProofs`)

For every set of processes, every mixture of creators, openers and servers, every BIGCOUNT,
value and amount:

* `LockState` and `Exclusion` - `LockInv` and `LockExclusion`. The inductive invariant `LockInv`
  says what the three members and the adjust values are in terms of where the processes are: the
  lock is 1 exactly when some process is inside, and what the kernel would undo for a process is the
  lock it holds. Without the clause about adjust values, `Exit` would not preserve exclusion;
  without the one that a missing set has no users, `Rmid` and the creation of a new set would not.
* `Counter` - `CounterExact`, and `Initialization` - `InitializesUnused`. They assume
  `Cardinality(Proc) < BIGCOUNT`: at the limit 0 means both "full" and "new", and the
  properties are false. `CountInv` adds to `LockInv` that the counter's adjust value is 1
  for a process that is attached and 0 otherwise; `SETVAL`, which clears everybody's, keeps
  it only because nobody is attached then, which is what `Uninitialized` says.
* `Handles` - `HandleStays`, assuming in addition that nobody calls `sem_open()` or `sem_rm()`:
  with `sem_open()` it is false (`semaph_open_race`).
* `LastCloseRemoves` - `NoLeak`, assuming besides the bound that processes do not exit before
  their `sem_close()` (`~MayExit`; a process that does leaves the set behind) and that nobody calls
  `sem_op()` with 0, which waits. `LeakInv` adds to
  `NoLeak` what a closer learned from GETVAL: as long as it holds the lock, a counter below BIGCOUNT means
  that another process is attached.
* `Implementation` - `ImplementsSemaphore`, the refinement, under the assumptions of `Handles`.
  `sem_create()`'s last array is the abstract Attach, `sem_op()`'s is Op, the one that takes the
  lock in `sem_close()` is Detach, a death is Exit, and every other system call changes nothing that
  `SemaphAbs` sees. What a dead process gives back needs `UnitsInv`: once the set is
  initialized, the adjust value of member 0 of each process is what the abstract semaphore says it took,
  and the value and the sum of these are what the set began with. The sum over a set of processes
  is a recursive function over its subsets (`SumFunction`); that this recursion has a solution
  (`SumsExist`) and what a change of one summand does to it (`TotalChange`) is shown by induction on the
  size of the subset. The library's induction theorems take an operator, which the provers cannot
  instantiate; `NatSet` and `PartsInduction` take a set in its place.

### Messages between processes

* `TracerouteProofs` (any tasks, hops, probes and late answers). `AnswersAttributed` - `Attribution`
  - and `HostEndsTrace` - the action property `StopsAtHost`. They assume `PortsDistinct` (no more
  than `PortMod` probes, so that no port is used twice) and `IdentsDistinct` (pids that differ in
  the 15 bits the program uses): without either an answer can be taken for another's. The invariant
  `TraceInv`: every message in a queue is the answer to a probe that the ports in it name, the
  number of a probe tells its place on the line, and the counts of a line are those of the answers
  on it, no more and no less, whatever codes nobody counts are among them. `HostEndsTrace` says of a
  line beyond which the ttl grows that what came from the host on it, if anything, is one of too few
  "unreachable"s or has a code that the switch does not know: a host that answers only those is
  probed up to max_ttl. `StopsWithReason` - `StopsForReason` - assumes `NProbes >= 2`; for 1 it is
  false (`tracert_single`).
* `TellWaitProofs` (any two programs, of any length). `TellIsSafe` - `TellNeverKills` - for
  programs that call `TELL_WAIT()` before `fork()`; the invariant follows the handlers from `TELL_WAIT()`
  through `fork()`. `WaitReturnsWhenTold` - `WaitAfterTell` - for programs that fork once;
  `TokenInv` counts: a pending signal, a flag that is set and a call about to return each stand for a tell of
  their own. The claim about record locks in it concerns two given programs, and
  `CaseInv` follows these step by step.
* `PopenProofs` (any number of streams and descriptors). `PcloseFindsItsChild` - `RightChild`,
  `NothingIsLost` - `NothingLeaks`, `CommandHasOwnPipe` - `OwnPipeOnly`. `PopenInv` ties three
  tables together: every stream has a pipe end in `fds`, a live entry of `childpid[]` and a child
  that nobody waited for, and conversely; a child without a stream that nobody waited for is one
  that `fclose()` or a failed `popen()` lost. `OwnPipeOnly` assumes that standard input and output
  are open at the start, and is false without it (see section 6).
* `NetworkProofs`. `ClientsJudged` - `Judged` - for any clients, pids, users and STALE; names of
  users are not the names of the model's other verdicts. The invariant follows the file from
  `bind()` to `stat()` and `statbuf` from there to `unlink()`: while the client lives, its name has
  its own file or none, and `statbuf` the user and the time of its own; in any case they are those
  of a process that had its pid. `SlotsRight` - `SlotRight` - for any positive number of requests.
  `OldInStep` - `InStep` - for any distance of the target and any number of lines. `LinesDelivered`
  - `LinesRight` - for any lines and size of the pipes: what was written and not yet read is split
  between two pipes and two buffers, in order. `DescriptorsDelivered` - `Delivered` - for any
  positive size of the buffer and any requests with numbers where numbers are sent: the stream
  always is the rest of the answers that were sent.
* `MessagesProofs`. `SingleDaemon` - `OneInstance` - for any set of instances, without further
  assumptions: an instance that is past the lock is the process that holds it, and a lock that is
  held has such an instance.

### Programs of one process

* `FooRefProofs` (every finite set of threads): `UseAfterFree` - `NoUseAfterFree` - and `Leak` - `NotLeaked`,
  from the inductive invariant `FooInv`: the mutex has one owner, `f_count` is the
  number of references including those being handed over or given up, and the thread that found
  0 is alone. The lemma `Decrement` is the heart: `f_count` becomes 0 exactly when there is no
  reference left.
* `ProgramsProofs`. `CopyRight` - `OutputRight` - for any positive number and size of buffers and
  any size of the file: a buffer holds the part of the input at its operation's offset, translated
  exactly if it is to be written, as long as the read made it, and what is in the output is the
  translation of that part, or the beginning of it if the write is in `partial`. `ContainersRight` -
  `StackOrList` - for any values and any positive first size. `TerminalRestored` - `ModesRestored` -
  for any terminals. `CallerGetsBack` - `CallerRestored` - for any number of signals and any
  argument. It stands on an invariant of the machine, `Machine`, that holds for all sixteen
  programs: which functions can be on the stack, and that every instruction finds arguments it can
  use, whatever handlers ran before. On top of it, `SleepPhase` and `SystemPhase` say for each
  instruction of `sleep()` and `system()` what has been saved and what has been changed so far.
  `HowProgramsEnd` - `Outcome` - for any number of signals and any argument of `sleep()` and
  `alarm()`, all five parts. `OwnInv` says which handlers, and which signals from where, belong to
  which program; `OutcomeInv` has a part for each program: `SleepAlarm` (while the caller's action
  for SIGALRM is in place no alarm is left, unless SIGINT ended the wait or the caller has a
  handler), `AbortPhase`, `JobctlPhase` (a caught SIGTSTP is pending whenever `main()` could go on),
  `ChildPhase` (SIGCHLD is blocked until `waitpid()` has the status, and no handler runs meanwhile),
  `ReapPhase` (of all the frames of `sig_cld` at most one has not waited yet), `AlarmJump` and
  `UsrJump` (no alarm before `setjmp()`, and which handlers can be on the stack, with which mask,
  when another one jumps). `FunctionsRight` - three of the parts of `ResultsRight`, those about
  functions that are not recursive: `TranslateRight`, `TimeoutRight` and `SearchRight`, for any
  `MaxLen` and `Keys`. It rests on a lemma for every argument of each function: `TranslateTwice`
  (any number), `SleepsShort` (any two times whose seconds are at least `SECTONSEC` and less than
  `UINT` apart, as the seconds of every date since the end of 2001 are more than its nanoseconds)
  and `FirstFound` (any array, key and length).

## 5. What is only model-checked

Liveness (`CloseReturns`, `OpenReturns`, `Terminates`, `BothEnd`, `PcloseReturns`, `AllCopied`,
`QuitEnds`, `ProgramsEnd`, `PingEnds`, `PipesEnd`): TLAPS does not do fairness and ENABLED.
The other parts of `ResultsRight` (`SortsRight`, `EquationsRight`, `RearrangeRight`, `PacketRight`): sorting,
merging, rearranging, the sum of a packet and the sets of equal letters are recursive or folds, and what they
compute for every input would need induction over data.

## 6. Findings

Each is a run with `expect: violation`; the quotations are in `PROJECT.json`.

* `semaph_open_race` - `sem_open()` decrements the process counter without the lock, between
  another process's GETVAL and IPC_RMID, and returns the ID of a removed set, although "we don't
  need a lock to do this".
* `semaph_eidrm` - a creator asleep on the lock when the set is removed dies of EIDRM; the comment
  says "we just go back and create it again", which covers only EINVAL.
* `tracert_single` - with `-q 1` the trace stops after the first hop whatever was answered.
* `tell_edeadlk` - `ch14_deadlock.c` takes the -1 of EDEADLK for success and prints "got the lock".

Met while modelling and not given a run, since no doc, comment or test says otherwise, or since it
is outside a model. Some are exact parts of a property, which says where the code goes wrong.

* `ch14_async.c` does not notice a short write: it compares with the length of the last read (134), and
  never asks for that of the write. A loop that never ends (144); `translate()` at `n` (29).
* `ch11_pthread_mutex.c:107` reads what line 105 freed; `ch11_pthread_barrier.c` and
  `ch11_pthread_cond.c` do not compile.
* `pclose()` does not wait for the child when `fclose()` fails (`lib/popen.c:108-110`), and has forgotten it.
* `serv_accept()` judges, and removes, whatever file has the client's name when it looks (38, 66): a
  living client may be refused because the server removed its file for an earlier one of its pid.
* A host that answers with codes of ICMP_UNREACH that `traceroute_std.c` has no case for is probed
  up to max_ttl (534-563).
* `rearrange()` writes outside `output` (`read_column_numbers.c:56`).
* `popen()` with descriptor 0 free; the copy in `ch15_popen_pclose.c:18` refuses "w".
* `semaph.c` with an exhausted process counter; `traceroute_std.c` with pids that agree in 15 bits;
  `TELL_WAIT()` after `fork()` in `ch10_signal_fork.c`.
* `ch10_jobctl.c:11` blocks SIGTSTP where it means to unblock it, and the program never stops.
  `ch08_system.c` loses the status to a SIGCHLD handler that waits. Wake-ups are lost in
  `ch10_sigchld.c:20` and `ch10_sigsuspend_global.c:27`.
* `recv_fd()` dumps core when a text that nearly fills the buffer is cut before the status
  byte, and leaves the rest of an answer to the next call when `userfunc` fails.
* `ping.c`: the slot of an answer is chosen by the number of answers (88), a lost answer means
  waiting for ever (67), a SIGINT before the first request a division by zero (113), and
  without a SIGINT the time shown is 0 (104).
* `traceroute_udp.c` waits five seconds in all (145). `traceroute_icmp.c` sends nothing, and
  ends at the first message it does not accept.
* `ch13_daemon.c:188`: `main()` exits at once.
* The inputs named under *Algorithms* in section 2, `my_icmp.c:65` and `ch12_mutexattr.c:79` among them.

## 7. What is not modelled, and the plan

In the modelled components: what is printed, name resolution, data on the pipes of `popen()`
(`Coprocess` has it), failures of `malloc()`, and errors of calls that only lead to `err_sys()` and
change nothing for others. `sigaction()` and `sigprocmask()` do not fail: the returns with -1 in
`ch10_system2.c` (20-32, 53-63), which leave handlers or the mask changed, are left out, and
`CallerRestored` says nothing of them. `ch10_signal2.c` calls `getpwnam()` inside a handler, which
is undefined. The work queue of `ch11_pthread_cond.c` is never filled or emptied by a thread.

Not to be modelled: the exercises of ch01 to ch09 that make one call each, sequential copies of a
file (`ch14_fsync.c`, `ch14_nonblock.c`, `ch14_mmap.c`), the demonstrations (`hello.c`,
`byteorder.c`, `num.c`, ...), wrappers around a single system call, pseudo terminals, and build
files: they keep no state that a second operation could find in the wrong shape.

Every safety property of the passing runs has a theorem, `ResultsRight` in part (section 4).
