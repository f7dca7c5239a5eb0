# TLA+ models of LAB-SO

The repository holds three labs of an operating systems course. Lab 1 is a
small shell, *mybash*. Lab 2 is the xv6 kernel with semaphores added to it
(`kernel/semaphore.c`, five system calls) and a user program, `pingpong`, that
uses them. Lab 3 is the same kernel, without the semaphores, used to measure the
scheduler. These modules model the kernel from the disk driver up to the file
system calls, its processes, memory, interrupts and console, the semaphores
with their client, and the shell. Paths below are relative to
`src/so24lab2g02/` unless they start with a lab's name.

- [Inventory](#inventory)
- [Modules and code](#modules-and-code)
- [Runs](#runs)
- [Fairness](#fairness)
- [Where the code disagrees](#where-the-code-disagrees)
- [Proofs](#proofs)
- [Not modelled](#not-modelled)
- [Plan](#plan)

## Inventory

| Part | State | Operations | Talks to |
|---|---|---|---|
| semaphores, `kernel/semaphore.c` | `semaphores[256]`: `count`, `bound`, a lock each; `count == -1` is closed | `get_sem`, `sem_open`, `sem_close`, `sem_up`, `sem_down` | `sleep`/`wakeup` with the semaphore as channel; system calls in `kernel/sysproc.c` |
| pingpong, `user/pingpong.c` | two semaphore indices, a counter in each of two processes | open two, fork, take turns, wait, close | semaphores, fork, wait, exit |
| process table, `kernel/proc.c` | `proc[NPROC]` (state, pid, parent, chan, killed, lock), `wait_lock`, each CPU's current process | `fork`, `exit`, `wait`, `kill`, `yield`, `sleep`, `wakeup`, `scheduler` | everything that sleeps; traps call `yield` and test `killed` |
| locks, `kernel/spinlock.c`, `kernel/sleeplock.c` | holder, interrupt nesting of the CPU | `acquire`, `release`, `push_off`, `pop_off`; sleep locks | everything |
| redo log, `kernel/log.c` | header on disk and in memory, log blocks, `outstanding`, `committing` | `begin_op`, `log_write`, `end_op`, commit, recovery | buffer cache below, file system above |
| buffer cache, `kernel/bio.c` | LRU list of buffers with `refcnt`, `valid`, sleep lock | `bread`, `bwrite`, `brelse`, `bpin`, `bunpin` | disk driver, log, inodes |
| disk driver, `kernel/virtio_disk.c` | descriptors, avail and used ring, requests in flight | `virtio_disk_rw`, `virtio_disk_intr` | device, buffer cache |
| file system, `kernel/fs.c` | inode table, bitmap, inodes and directories on disk | `ialloc`, `iget`, `ilock`, `iput`, `itrunc`, `dirlink`, `namex`, ... | log, buffer cache |
| files, `kernel/file.c`, `kernel/sysfile.c` | file table with reference counts, descriptors of each process | `filealloc`, `filedup`, `fileclose`, `open`, `link`, `unlink`, `pipe`, ... | inodes, pipes, log |
| pipes, `kernel/pipe.c` | 512 byte ring, `nread`, `nwrite`, two open flags | `pipewrite`, `piperead`, `pipeclose` | file table, sleep and wakeup |
| console, `kernel/console.c`, `kernel/uart.c`, `kernel/printf.c` | input line buffer, transmit ring | `consoleread`, `consolewrite`, `consoleintr`, `uartputc`, `uartstart`, `uartintr` | processes, interrupts |
| memory, `kernel/kalloc.c`, `kernel/vm.c`, `kernel/exec.c` | free list, page tables | `kalloc`, `kfree`, `uvmalloc`, `uvmcopy`, `exec`, ... | fork, exec, sbrk |
| traps, `kernel/trap.c`, `kernel/syscall.c`, `kernel/plic.c` | `ticks`, `stvec`, pending interrupts | dispatch, tests of `killed`, timer, claim and complete | process table, devices |
| heap, `user/umalloc.c` | circular free list | `malloc`, `free`, `morecore` | `sbrk` |
| user programs, `user/` | - | init, sh, tools, tests, benchmarks | system calls |
| mybash: data types, lab1 `command.c`, `strextra.c` | commands and pipelines | constructors, push, pop, observers | parser, execute |
| mybash: `parsing.c` | the course's lexer | `parse_pipeline` | lexer object, data types |
| mybash: `execute.c`, `builtin.c`, `mybash.c` | pipe ends, children | `execute_pipeline`, the main loop | host's fork, pipe, dup2, waitpid |

The hard behaviours are the interleavings: of `sem_down` with `sem_up`,
`sem_close` and a kill; of a process going to sleep with its waker on another
CPU; of `exit` with `wait`; of path look-ups with `unlink`; of the look-up of a
buffer with its recycling; of an interrupt with the code under it; of commands
that already run while the shell is still making pipes. There is one crash
behaviour, the log's. Partial failures are everywhere in the file system (a full
disk in the middle of a call) and in memory (no page in the middle of `fork`,
`exec` or `sbrk`). `PROJECT.json` lists these one by one, each at its line
(`hazards`), with the properties that would see them go wrong.

What makes the parts correct, in one line each:

- semaphores: the count stays within 0 and the opening value; nobody sleeps
  while the count is positive; a slot is not recycled under a waiter; every call ends.
- pingpong: strict alternation, all lines, termination, both semaphores closed.
- process table: one CPU on each kernel stack; slots freed only when off
  their stack; no orphan; no exit missed by `wait`; no process killed that
  nobody named; everyone scheduled; every orphan reaped.
- log: operations reach the disk in whole groups, whatever the crash.
- cache and driver: a block has one buffer, one holder and one current content;
  no descriptor is lost or shared; no completion is slept through.
- files: every block and every reference has its owner, links are counted exactly,
  no call panics, look-ups do not wait in a circle.
- pipe: a bounded FIFO; no lost wake-up; end of file and broken pipe are seen;
  freed exactly when out of reach.
- memory: every page is free or owned once at any moment, whatever fails.
- console and interrupts: no hart panics, nothing written is lost, lines are read once and in
  order, nobody waits for ever.
- mybash: every valid line gives the pipeline it means; every pipeline ends; the shell waits
  for the right children and keeps no end open.

## Modules and code

`PROJECT.json` maps every definition to its lines. Definitions keep the names
in the C code; where one function is several atomic steps, the action's name
says which (`sleep`, `sleep_unlock`, `sleep_swtch`).

The kernel files of lab 3 are byte for byte those of lab 2, but for
`syscall.c`, `syscall.h`, `sysproc.c`, `main.c` and `defs.h` (no semaphores, no
`helloworld`); so are `usertests.c`, `grind.c` and `umalloc.c`. One module stands
for both copies. In the map a definition names one of the two, and some helpers
name lab 3's.

**Semaphore** (`kernel/semaphore.c`; `kernel/trap.c` for the tests of
`p->killed`). One step per critical section: `sem_open`, `sem_close` and
`sem_up` are one step each, `get_sem` one per index, `sem_down` one up to
`sleep()` and one more whenever it is woken. Processes pass any index from -1 to
N, valid or not. An invalid index, a closed semaphore, a full table and a count
at its bound take the code's early returns. `kill` wakes a sleeper,
which goes back to `sem_down`'s loop because the code does not test `killed`
there. `stale` is a history variable: the processes whose semaphore was closed
while they waited in it. `MaxDebt` bounds how far below 0 repeated wake-ups on a
closed semaphore can drive a count.

**SemaphoreLocks** is the same code with its locks: each semaphore's spin
lock, each `p->lock`, `sleep()` taking the second before it drops the first,
`wakeup()` as a loop over the process table that takes one `p->lock` at a time,
and the scheduler that takes and gives back `p->lock` on the process's behalf.
Its property `Refinement` says that it implements `Semaphore`, so that looking
at critical sections as single steps loses nothing. The other modules look at
critical sections that way.

**PingPong** extends `Semaphore` with `user/pingpong.c`, one action per system
call. Each instance has a parent and a child; Init chooses which of the
`Instances` the shell was asked to run.

**Proc** (`kernel/proc.c`). `fork` with its three separate critical
sections, `exit` and `reparent` under `wait_lock`, `wait`'s scan and sleep,
`kill`'s scan, `yield`, and each CPU's `scheduler`. A section that holds a
single `p->lock` is one step, taken when that lock is free. The hand-over of
`p->lock` through `swtch` is explicit: `running[c]` says whose kernel stack CPU
c is on, also after the process has set its state to RUNNABLE, SLEEPING or ZOMBIE
and before the CPU has left the stack. `init`'s own exit is the code's panic, a
state with no further step of that process.

**Log** (`kernel/log.c`, log size from `mkfs/mkfs.c`) and its abstraction
**AtomicDisk**. A section under `log.lock` is one step. Each `bwrite` of the
commit and of the recovery is a step, and `Crash` may come between any two of
them. A block is written whole or not at all, and disk writes are not
reordered, as `bwrite` waits for each. The buffer cache is a function from blocks
to contents, which is what the pinning in `log_write` is for and what
`Coherent` of BufferCache says.

**VirtioDisk** (`kernel/virtio_disk.c`) and, on it, **BufferCache** (`kernel/bio.c`
with the sleep locks of `kernel/sleeplock.c`), whose abstraction is
**BlockStore**. A request takes three descriptors; the device finishes the
requests it was told of in any order; the completion handler runs its loop step
by step while the device goes on. The cache keeps its list in LRU order.
Processes use it the way `log.c` does: who changes a block pins it before letting
it go, and unpins it once it is written. `bget`'s panic is a step.

**FileSystem** (`kernel/fs.c`) are functions on a record that is the disk and the
inode table: block and inode allocation, `bmap` with its indirect block,
`readi`, `writei`, `itrunc`, directories, and the image `mkfs` leaves.
**FileCalls** (`kernel/sysfile.c`, `kernel/file.c`) makes them into system
calls of several processes. A process has a list of the steps its call still has
to take, each a section under one inode's lock or under `itable.lock`; locks that
`create` and `unlink` hold for longer stay in the inode table between steps.
`namex` is one step for each component of the path. **FileTests** gives the processes their programs: the
file tests of `user/usertests.c`, each with what its calls have to return; any two
of the file cases of `user/grind.c`, with `stressfs.c` and the tools `ln`, `mkdir`,
`rm` and `cat`, at the same time; on a disk so small that it gets full.

**Vm** (`kernel/kalloc.c`, `kernel/vm.c`) are functions on physical memory and page
tables: tables of three levels whose own pages come from the same memory, so that
`walk` may fail. **Umalloc** (`user/umalloc.c`) is the heap. **MemCalls** has the
calls that use them: `fork`, `exit`, `wait`, `sbrk`, `exec` with its arguments and
segments, user loads and stores with what `usertrap` makes of a fault, and `malloc`
and `free`. One round of the loops of `uvmalloc` and `uvmcopy` is one step.
**MemTests** runs the memory tests of `usertests.c` with their expected results, and
programs of `fork`, `exec`, `sbrk` and `malloc` with every amount of memory, so
that each of them fails at every page it needs. **Values** holds what FileSystem and
Umalloc share.

**Interrupts** (`kernel/spinlock.c`, `trap.c`, `plic.c`, `kernelvec.S`, `console.c`,
`uart.c`, `printf.c`, `sys_sleep`, and the parts of `proc.c` they need) is the kernel
as interrupts see it: two harts, each with its interrupt flag, `noff`, `intena` and
`stvec`, a frame of the handler over the frame of the code it interrupted, the locks
`cons`, `uart`, `tickslock` and `pr`, and one uart behind a PLIC that both harts may claim. A device interrupt can be taken
wherever the flag is on. `sched()` carries `intena` from hart to
hart. `uartputc_sync` writes to the uart without its lock, as in the code.
**LineDiscipline** is what the console promises its readers.

**Pipe** (`kernel/pipe.c`, `fileclose` of `kernel/file.c`, `kill`) and its
abstraction **BoundedQueue**. The loops run byte by byte, and the lock is
released only in `sleep()` and at the end. `nread` and `nwrite` count modulo
`Wrap`, which stands for 2^32, a multiple of `PIPESIZE` as there. Init lets
any processes hold the read end and the write end, which is what forks after
`pipe()` lead to. A failing `copyin` or `copyout` is a choice in each byte's
step.

**Parsing** (lab 1, `command.c`, `parsing.c`), **Execute** (`execute.c`,
`builtin.c`) and **MyBash** (`mybash.c`), each extending the one before. The parser's
loops run over tokens; the lexer is the course's object file and is modelled from
how `parsing.c` calls it. Execute has the shell's loop of `pipe`, `fork` and
`close`, the `waitpid`s and the late `signal(SIGCHLD, SIG_IGN)`, beside the
children that `dup2`, `close`, redirect and `execvp`, also those of earlier
lines that ended in `&`. The commands themselves
are external: each copies its input to its output and may stop at any time. So
are the host's `fork`, `pipe` and `waitpid`.

**MCSemaphore, MCPingPong, MCProc, MCLog, MCDisk, MCInterrupts, MCMyBash** add only
symmetry sets, `Procs`, and the programs and sessions that are run.
The theorems are in modules of their own, each extending the module it is about:
**SemaphoreProofs** (Semaphore, and PingPong which extends it), **LocksProofs** (SemaphoreLocks), **ProcProofs**,
**LogProofs**, **PipeProofs**, **DiskProofs** (BufferCache with VirtioDisk), **InterruptsProofs** and **MyBashProofs**.

## Runs

| Run | Shows | Bounds, and why they are enough |
|---|---|---|
| `semaphore` | `CountBound`, `NoLostWakeup` under any calls and kills | 3 processes (a waiter, a waker, and a third that closes, opens again or is killed in between), one slot, opening values 0 to 2. One slot is the hardest table: every reopening hits the same index. The theorems below drop all of these bounds |
| `semaphore_locks` | `Refinement` of Semaphore, `WakeupEnds`: every `sem_up` comes through its loop over the process table | 3 processes, one semaphore, one of them killable: a process entering `sleep()`, another in `wakeup()`'s loop and a third that acquires in between |
| `pingpong` | `Alternation`, `EndsAlone` (it ends, with every line printed and every semaphore closed) of an instance on its own, `SharedOnlyAfterClose` of two together | none, one or two instances, 3 rounds, 3 semaphores for two instances, so that one may fail to find its second; `fork` may fail |
| `proc` | `OneCPU`, `FreedOffStack`, `ParentAlive`, `NoMissedExit`, `KilledAsAsked` | 2 CPUs, 3 slots, 4 pids: parent, child and grandchild at once, a full table, and a slot used a second time. Kills of pid 2, whose slot two later processes may get |
| `proc_live` | `NoStarvation`, `OrphansReaped` | 1 CPU, 3 slots, 3 pids, no kills |
| `log` | `DurableWhenIdle`, `BeginNotLost`, `CrashAtomic` (refinement of AtomicDisk) | 3 processes, 4 blocks, 2 values, operations of up to 2 blocks, a log of 4: room for one and a half operations, so that `begin_op` has to wait and a group holds more than one operation; any number of crashes |
| `pipe` | `PipeNotLost`, `NoUseAfterFree`, `Fifo` (refinement of BoundedQueue), `CallsEnd` | 2 processes with any ends, ring of 2, counters modulo 4, calls of 0, 1 or 3 bytes, two byte values: ring and counters wrap, a write of 3 does not fit and has to be read on the way, and both processes may be on the same side |
| `disk` | `RightBuffer`, `ChainsOwned`, `SleepersWoken`, `Coherent` (refinement of BlockStore) | 2 processes, 2 buffers, 3 blocks, so that buffers are recycled, wanted by both, or all taken; 4 descriptors (one request at a time, with one left over) or 6 (two) |
| `files` | `BlocksOwned`, `LinksExact`, `RefsExact`, `TestsPass`, `NoCircle` | 2 processes; blocks of 2 units (two directory entries, or two addresses), 2 direct blocks and an indirect one with 2 more, 12 data blocks, 7 inodes: files reach the indirect block and their largest size, directories a second block, and the disk, the inodes, the file table (4) and the descriptors (3) all run out |
| `memory` | `PagesOwned`, `MemTestsPass`, `HeapCovered` | pages of 4 units, table pages of 4 entries on three levels, 36 pages for the tests, and each number of pages from 8 to 36 for the programs that have to fail everywhere (8 to 11 for the heap's); 3 processes; 6 calls of `malloc` with three sizes, one larger than `morecore`'s least |
| `interrupts` | `NoPanic`, `NothingLost`, `LinesKept` (refinement of LineDiscipline), `ProgramsEnd` | 2 harts, 2 processes, 11 scenes: one program or two that write more than the ring holds, read lines that are being typed, edited or too long, sleep across the overflow of `ticks`, kill each other asleep, and fault in the middle of a call. Input buffer 4, transmit ring 2, uint of 8 values with indices that start close to the overflow; one timer interrupt of each hart at any moment, and hart 0's again whenever everybody waits for it. The theorems about the first three drop these bounds |
| `mybash` | `ParsedRight`, `ForegroundDone`, `SessionEnds` | all lines of up to 5 tokens of two words and the four operators, with and without a line after them; 6 sessions with pipelines of up to 3 commands (first, middle and last differ in the code; there is no fourth kind), background jobs followed by foreground ones, builtins and rejected lines; pipes of one byte and inputs of two, so that writers block; `pipe` and `fork` may fail |

`CHECK_DEADLOCK FALSE` is said where the system may really stop: all processes
have exited, init or `bget` has panicked, a session has ended, or
everyone waits for a semaphore or a pipe end that nobody will touch, which is
legal for arbitrary callers. `BeginNotLost`, `NoLostWakeup`, `NoMissedExit`,
`PipeNotLost`, `SleepersWoken` and the
liveness properties are there to exclude the deadlocks that would be errors. The
runs `log`, `files`, `memory` and `interrupts` check deadlock.

Symmetry is used in runs with no liveness property, over processes, CPUs or blocks whose
names the code never compares. In `Proc` and `SemaphoreLocks` the processes are
table indices and are not symmetric.

Every property has a mutant: a definition `X_Something` placed
just before `X`, changed the way a slip in the code would change it, under which
TLC finds the property violated.

Remarks on what the properties say:

- `PipeNotLost` excuses sleeping readers when some process was killed. The code
  needs the excuse: a writer killed in the middle of a write returns at
  `pipe.c:85` without the `wakeup(&pi->nread)` that a complete write ends with,
  so a reader stays asleep beside available bytes until the next write or close.
- In `wait()`, a kill between the test of `killed` and `sleep()` is not noticed
  until the next wake-up; the same holds for `sleep(n)`, where the next tick
  brings it. The models contain this, and `ProgramsEnd` relies on the ticks.
- `LinksExact` and `RefsExact` speak of moments when no call is in progress;
  `BlocksOwned`, `NoCircle` and `PagesOwned` of every moment.
- `TestsPass` and `MemTestsPass` take the results from `usertests.c`; for the
  concurrent cases of grind, where anything may be returned, they say that no
  panic is reached.
- `NothingLost` depends on the uart's FIFO: `uartputc_sync` and `uartstart` may
  both see an idle transmitter and write to it, which is harmless because the
  16550 has room for as many characters as there are harts. The assumption
  `SizesAssumption` says so, and the mutant, a uart without its FIFO, shows why.
- `NoPanic` covers the panics of `acquire`, `release`, `pop_off` and `sched` where the model calls
  them, and an interrupt or trap that finds the vector of the other mode in `stvec`. The mutant is a
  `usertrapret` that leaves interrupts on while it changes `stvec`.
- `ProgramsEnd` stands for the absence of deadlock between handler and
  code (`noff`, `intena`), of silent devices and of lost wake-ups in console,
  uart and clock: any of these keeps some program of a scene from its end.

## Fairness

- *PingPong*: weak fairness of each process. The scheduler's round robin and the
  timer's `yield` run every process that can run (`proc_live` shows the first).
- *SemaphoreLocks*: weak fairness of each process's steps inside the kernel. None
  on users: a program may never make another call.
- *Proc* (`LiveSpec`): weak fairness of each CPU's scheduler and of a process that
  was switched to. Strong fairness of a process's kernel steps, since each time
  slice is longer than a step and xv6 assumes that a spin lock that is released
  over and over is obtained; strong fairness of the timer's yield, since the
  interrupt stays pending while interrupts are off; strong fairness of init
  calling `wait`, from the endless loop of `user/init.c`. Only one CPU is
  checked: with two, a spin lock may be taken by the other CPU each time, and
  nothing in `__sync_lock_test_and_set` excludes it.
- *Pipe* (`LiveSpec`): weak fairness inside the lock, strong fairness of acquiring
  it. Nothing is assumed of the programs at either end.
- *Interrupts*: weak fairness of each hart (it executes instructions), of its
  timer, and of the uart's sending and receiving (hardware). The scheduler's
  choice is part of a hart's steps; nothing is assumed of spin locks.
- *MyBash*: weak fairness of the shell and of each command's read, write and
  end, from the host's scheduler. No command has to stop early.
- *Log, BufferCache, FileCalls, MemCalls*: only safety is checked. `alloc3_desc` is not free of
  starvation: of two processes that wait for descriptors each may take and
  give back one of them and wake the other, again and again.

## Where the code disagrees

What doc, comment or test say, and what the models show the code to do. None of
these is part of a property that passes; the runs leave the case out where said.

1. **A closed semaphore can be taken.** After `sleep()`
   `sem_down` tests only `count == 0` (`semaphore.c:144`). A process that was woken,
   by a `sem_up` before the close or by a kill after it, decrements the closed
   semaphore's -1 to -2 and returns 1; -2 is neither closed for `sem_open` nor
   usable, so the slot is lost. `grade-lab2:60`: "closed sempahores cannot be used".
2. **Two pingpongs can hang each other.** Parent and child
   both close both semaphores, and the second close may hit a slot that another
   instance has opened meanwhile. `grade-lab2:41` runs three at once and expects
   the end; `EndsAlone` is about one.
3. **pingpong without its child.** When `fork` fails the
   parent goes on and waits for a Ping nobody prints (`EndsAlone` excludes it).
4. **The log can be filled by operations that keep to their share.**
   `begin_op` reserves out of `LOGSIZE` blocks, `log_write` panics at
   `log.size - 1`, and `mkfs` makes `log.size` equal to `LOGSIZE`, header
   included. `param.h:10` calls LOGSIZE the "max data blocks in on-disk log". The
   real constants (10 and 30) need three concurrent operations that write ten
   different blocks each, which no xv6 system call does.
5. **`kill(0)`** matches the first free slot, whose next process is born killed
   (`KilledAsAsked` is checked for pids that `allocproc` hands out).
6. **A rejected line is not skipped.** After a redirection without a file name
   `parse_scommand` gives up in the middle of the line and `parse_pipeline` returns
   without `parser_garbage` (`parsing.c:27`), so the rest of the line is read as the
   next command, although `parsing.h:18` says that the parser stops after the end of
   the line. `ParsedRight` asks for this position (`AfterLine`) after every line, accepted or
   refused, whose redirections have files; without that condition TLC finds it violated
   by a line as short as `<`.
7. **A pipeline whose `fork` or `pipe` fails midway** leaves ends open in the
   shell, and the commands already started are not waited for (`SessionEnds` and
   `ForegroundDone` exclude it).
8. **A file made in a removed directory is never freed.** `create` does not test that
   the directory it has just locked still has links (`sysfile.c:254`); when another
   process has removed it, the new inode keeps a link and no name. `LinksExact` is
   about inodes with a name.
9. **`..` of a removed directory whose parent is removed too** names a free inode,
   and looking it up ends in the panic "ilock: no type". The programs of the
   run, which are those of the repository, never go there.
10. `mkfs` rounds the root directory's size up by a whole block when its entries
    fill blocks exactly.
11. **A pipe without a second command is accepted.** `README.md:50-57` of lab 1
    calls `cmd |` a syntax error, but `parse_pipeline` refuses an empty command only if
    it is the line's only one (`parsing.c:60`). The first command runs, and the
    empty one fails in its own child (`execute.c:61-64`). In the reference
    grammar (`Valid`) such a line is not valid; with `~Valid(l) => apipe = NULL` in
    `ParsedRight` TLC finds `a |` and the like, and no other lines. The code
    gives a pipeline also for `| a`, of which the document does not speak. `ParsedRight`
    therefore only asks that the pipeline of such a line be the commands that were
    typed, and `SessionEnds` runs such lines.

## Proofs

The theorems hold for every value of the constants that satisfies the named
assumptions, which TLC evaluates in the runs as well.

**SemaphoreProofs**: any set of processes, any table size, any opening values and
any `MaxDebt`.

- `TypeCorrect`: `TypeOK` is inductive as it stands. Its last conjunct is the one
  that needs `sem_down`'s test of the index: whoever waits, waits inside the
  table.
- `CountBounded`: assumes that opening values are not negative (for a negative one
  the property is false, as nothing in `sem_open` refuses it). The invariant is
  `BoundInv`: `CountBound` and `bound >= -1`. The second part is needed for
  `sem_close`, which sets the count to -1 and leaves the bound.
- `WakeupsNotLost` (`NoLostWakeup`): inductive with the types, because it has both halves. If it did not
  say that the semaphore is open, `sem_open` could lift the count under a sleeper. Someone who waits and is
  not stale sees a count that is at least 0, so `sem_open` and `get_sem` fail; `sem_up` wakes all sleepers, so
  none is left to see a positive one; `sem_close` makes all waiters stale.

Of PingPong, also in **SemaphoreProofs**: any number of rounds, instances, semaphores and any debt.

- `OpenedApart` (`SharedOnlyAfterClose`): until somebody closes a semaphore, each that an
  instance has opened has a count of at least 0 (`OwnInv`), so `sem_open` refuses it to the others.
  The invariant needs the control flow (`BirthInv`: no child before the fork).
- `TurnsAlternate` (`Alternation`, for one instance on its own): from the fork on
  there is one token, in one of the two semaphores or with the process that is between its
  `sem_down` and its `sem_up`, and its place says who printed last (`TurnInv`). The numbers of lines
  and rounds go along (`LineInv`); before the fork both semaphores are 1 and the parent
  takes one (`StartInv`); after the last round only the child may find a semaphore in use to close
  while the parent still waits (`EndInv`).

**LocksProofs**: any number of processes and semaphores, any opening values, any processes
that kill is used on.

- `LocksImplement` (`Refinement`): every step of SemaphoreLocks is a step of Semaphore or
  invisible there. The invariant `LocksInv` says for each process which locks it holds at its
  place in the code (`Held`), what its call is about (`InCall`), and that one which is on its way to
  sleep saw the count 0 and still holds what keeps it so (`Asleep`). Four steps
  carry the argument. `sleep` is where sem_down sleeps in Semaphore: it has both locks, so the count
  is 0 and no `wakeup()` is looking for it (`NotDoomed`). `sem_up` is where everyone wakes:
  who is asleep then will still be found by the loop. A visit of the loop changes nothing that
  Semaphore sees, because it needs `p->lock`, which a process on its way to sleep
  holds until it is SLEEPING on its channel. And `kill` needs it as well.
  Liveness (`WakeupEnds`) is not part of it. With the theorems about Semaphore, what they say of
  critical sections holds of the code with its locks.

**ProcProofs**: any number of slots and CPUs.

- `StacksNotShared` (`OneCPU`) and `SlotsFreedOffStack` (`FreedOffStack`), both from
  `StackInv`: types; `CpuInv`, which ties what each CPU is doing to the state and
  the lock of the process it is on (RUNNING, or RUNNABLE, SLEEPING or ZOMBIE with
  its lock held until the scheduler is back on its own stack); `OneCPU` itself;
  and `NpInv`, that the slot a `fork` is filling is USED and belongs to that fork
  alone. The argument: a scheduler takes only a
  RUNNABLE process whose lock is free, and `CpuInv` says that such a process is on
  no CPU; `wait` frees a ZOMBIE only with its lock free, which puts it off its
  stack. There is one lemma per action (`SchedulerStep`, `WakeStep`, ...), and
  small lemmas say which part of the state each of them can disturb.
- `ParentsLive` (`ParentAlive`) and `ExitsSeen` (`NoMissedExit`), both from `TreeInv`, on top of
  `StackInv`: who is between taking and releasing `wait_lock` holds it (`LockInv`); each live process but
  init has a parent that is alive, and `reparent` has taken care of all slots below the one it is at
  (`ParentInv`); a parent of a zombie is not asleep, has not passed it in its scan and is not about to sleep, but
  for init while somebody is about to wake it (`SleepInv`).
- `KilledWasAsked` (`KilledAsAsked`): assumes that nobody passes the pid 0 to `kill`, for which the
  property is false (see above). `KillInv`: a free slot has the pid 0, so `kill` does not find it,
  and `freeproc` unmarks it.

**LogProofs**: any number of processes and blocks, any log size and share of an operation.

- `DurableOnceIdle` (`DurableWhenIdle`), `BeginWoken` (`BeginNotLost`) and `LogIsAtomic`
  (`CrashAtomic`), from `LogInv`: `outstanding` counts the operations in progress (`CountInv`);
  which phase of the commit goes with which header on disk and in memory (`ControlInv`); and what the
  log and the home blocks hold in each phase, up to the point the copying has reached (`DataInv`). For the
  refinement, AtomicDisk's disk is what a recovery would find (`Recovered`). The commit is
  the one write of the header: before it the blocks in the log do not count, after it the home
  blocks that are in the log do not.

**PipeProofs**: any number of processes, any `PIPESIZE` and any counter width that is a multiple of it.

- `FreedUnused` (`NoUseAfterFree`): whoever is in a call has its end open, at most one
  process is between the last close of an end and `pipeclose`, and the page is freed when both flags are
  down (`EndsInv`).
- `PipeWakeups` (`PipeNotLost`): `SleepInv` names who will wake a sleeper that could go on: the holder of the lock,
  before it releases it. It has the excuse of the killed writer.
- `PipeIsQueue` (`Fifo`): the ring, read from `nread` to `nwrite`, is BoundedQueue's queue. Needs
  arithmetic: that the difference of the counters is right on both sides of the overflow, and
  that neighbouring counters have neighbouring places in the ring because the width is a multiple of its
  size (lemmas about `%`).

**DiskProofs**: any number of processes, buffers and blocks, and any queue of at least 3 descriptors.

- `DescriptorsOwned` (`ChainsOwned`), `BlockWakeups` (`SleepersWoken`), `BufferIsRight` (`RightBuffer`) and
  `CacheIsCoherent` (`Coherent`), from `CacheInv`. `RingInv`: the descriptors are partitioned
  into the free ones and the chains, and the rings hold the heads of chains of
  those who wait for the device. `WakeInv`: a finished request has an interrupt
  to come; who waits for a request has `b->disk` set; who waits for descriptors has fewer than
  three free. `LockInv`: a block is in one buffer, and a holder has the lock of the buffer
  of the block it wants. `CountInv`: `refcnt` is the number of users and 1 for the pin, so `bget` recycles
  nobody's buffer. `DataInv`: a buffer that is neither pinned nor being changed agrees
  with the disk. For the refinement, BlockStore's content of a block is its buffer's if
  there is a valid one, else the disk's: recycling, filling and writing back do not change it.

**InterruptsProofs**: any number of processes, any number of harts that is at most the places of the uart's
FIFO, any sizes of ring and input buffer where the buffer's divides the range of uint and is less,
any programs and typed keys, any place the indices start at, any number of timer interrupts.

- `NobodyPanics` (`NoPanic`), `UartLosesNothing` (`NothingLost`) and `ConsoleIsLineDiscipline`
  (`LinesKept`), all from `IInv`, of four parts that are proved one after the other
  (`KernelSteps`, `DeviceSteps`, `ConsSteps`, `UartSteps`).
- `KernelInv` is about frames, the handler's of each hart and one of each process. `FrameInv`: a frame's
  place in the code says which locks it has or spins for (`In`), and so how many `push_off` calls it has made (`Depth`).
  `RunInv`: a process that is RUNNING is on one hart. `WaitInv`: one that is not has called
  `push_off` for nothing. `HartInv` ties these to the hart: `noff` is the depth of the frame
  it executes, interrupts are off while `noff` is positive or a handler runs, an interrupted frame has depth 0, a
  lock is the hart's exactly if that frame has it, `intena` is off wherever `noff` is 0, and `stvec` is the
  vector of the mode. Each panic contradicts one conjunct. The most steps share one of a few
  lemmas: a frame goes on with the locks it has (`Advances`), takes one, gives one back,
  goes to sleep or is switched to.
- `DeviceType` has the types of devices and rings, and that the transmit ring is never overfull.
- `UartInv`: the frames that are about to write to the uart (`Writing`) and the
  characters in its FIFO are together at most the harts. A frame gets there by
  seeing the FIFO empty, with interrupts off, so there is one on each hart at most (`WritersFit`);
  `uartputc_sync` and `uartstart` may both, since one of them has no lock. A frame that carries a character of a
  `write` has `uart_tx_lock` and finds only echoes in the FIFO, so characters leave in order.
- `ConsInv`: `r`, `w` and `e` wrap around, `w` lies between the others, and `e` is at most the buffer's size ahead
  of `r`; no line ends between `w` and `e`, which is why backspace and kill-line stop at `w`. Needs the same lemmas
  about `%` as the pipe. For the refinement, LineDiscipline's finished lines are the buffer from `r` to `w` and the
  line being edited is the buffer from `w` to `e`.

**MyBashProofs**: any lines, any number of commands, any capacity of the pipes.

- `PipelinesWaitedFor` (`ForegroundDone`): `WaitInv` counts, for each place in `execute_pipeline`, the
  children that have been forked and those that have been waited for; `LoopInv` ties `i`, the
  length of the pipeline and what is left of `apipe` together, so that `pipeline_front` is never asked of an empty one; a
  child that was forked stays one, and one that was waited for does nothing more (`CommandSteps`).
- `LinesParsedRight` (`ParsedRight`): Parsing says what a line means without recursion: the place of an argument is
  the number of arguments up to it (`Rank`), a redirection is the last word of its kind (`IsLast`). So
  "the commands say what the first `n` tokens do" (`Says`) is a state's property, and `GrammarInv` gives for each
  place of the parser the `n` it is at, which of the commands are finished, and what it knows to be well formed
  (`Clean`). Lemmas take `Says` from one token to the next (`SaysArgument`, `SaysFile`, `SaysSkips`), and others the
  lexer's look at the input to the tokens of the line (`Ahead1`, `Ahead2`, `ReachesLineEnd`). An `&` that does not end
  the line and a redirection without a file are seen at that token, and both make the line invalid. What is left to
  refuse is a lone command without arguments: by `LoneEmpty` it is the one command of a line without `|` and
  arguments, so it is not valid either (`OnlyCommand`), and no valid line is refused. Not part of the
  theorem, because the code departs from its documents there (items 6 and 11): that a line with an empty command
  beside a `|` is refused, and the position after a line whose redirection has no file.

Every invariant above was model-checked before it was proved, on the instances of
the runs. Assumptions on constants are the ones named in the modules: the queue has room for one
request (`NUMAssumption`), the counters' width is a multiple of the ring
(`SizeAssumption`), sets of values and names are not empty or not confused.

Only model-checked: all liveness (`WakeupEnds`, `EndsAlone`, `NoStarvation`, `OrphansReaped`, `CallsEnd`, `ProgramsEnd`,
`SessionEnds`), since fairness and ENABLED are outside what the prover does; and what FileTests and MemTests
say, which rests on
recursive definitions (paths, indirect blocks, page tables, the walk along the free list, sums over tables) and
on the programs they are given; induction over data is outside as well.

## Not modelled

- *Hardware set-up*: `start.c`, `virtio_disk_init`'s negotiation, the kernel's own page
  table, the saving of registers in `trampoline.S` and `swtch.S`: straight-line code, or
  facts about RISC-V. Weak memory is not modelled: a spin lock's critical section is
  sequentially consistent.
- *Data formats*: ELF headers beyond sizes and permissions of segments, `printf`, strings,
  parsing of numbers, the bytes of directory entries and inodes.
- *Memory*: one value stands for the contents of a page. `copyout` does not test `PTE_W`, and
  neither does the model. There is less physical memory than addresses below the
  trapframe (`VmAssumption`), as in the code with 128 MB; `malloc` of nearly 2^32 bytes,
  whose size computation wraps, is left out. `wait`'s failing `copyout` and `procdump` are left out.
- *File system and log together*: FileCalls takes `begin_op`/`end_op` as brackets and records that
  writes happen inside them; that they make calls atomic is what Log shows. `exec`'s
  path look-up is not among the calls of FileCalls.
- *Console details*: the three characters of an echoed backspace are one, and
  `consputc`'s texts are left out. `sleep(n)` of a negative n, which the code compares as a huge unsigned, is in a scene.
- *User programs*: `sh.c` and the benchmarks are sequential; `usertests.c`'s tests of
  processes and pipes ask for less than what Proc and Pipe check under arbitrary programs.
- *mybash*: texts, prompt, freeing of memory; `obfuscated.c` is given to the students
  and plays no part in the shell's logic. SIGCHLD of a background pipeline is ignored only
  after the children were started (`execute.c:103`), so that one that ends before
  stays a zombie. The model has it and `ForegroundDone` speaks of foreground pipelines only.

## Plan

Done: Semaphore, SemaphoreLocks, PingPong, Proc, Log with AtomicDisk, Pipe with
BoundedQueue, VirtioDisk and BufferCache with BlockStore, FileSystem, FileCalls and
FileTests, Vm, Umalloc, MemCalls and MemTests, Interrupts with LineDiscipline, Parsing,
Execute and MyBash; the proofs above.

FileCalls and MemCalls are meant for TLC: their state is a disk or a memory, their operations are
recursive, and the runs use the programs of the repository.
What could be added: a property for `begin_op`'s reservation
when writes are absorbed, the one hazard that no property covers.
