# A verification project for the kernels of AlgorithmsPrepare

The repository collects course work: notes and readings, and two teaching
operating systems written in C. This project models the kernels in TLA+, checks
the models with TLC on small instances and proves their main invariants for all
instances with TLAPS.

Modelled are **ucore** in its last stage, `src/Mooc_OS_Lab/lab7`, and of
**Pintos** the threads, their synchronization and the file system,
`src/Berkeley-CS162-Operating-System/Lab/proj-pregame/src`. The directories
`lab1` to `lab6` of ucore hold the same files as `lab7`, byte for byte except for
two editor backups, so what is said here holds of each of them. Of ucore, file
names below are in `lab7/kern/`.

## 1. The system

### 1.1 What is in the repository

| Part | Where | State it keeps | Operations | Here |
|---|---|---|---|---|
| pid allocator | `process/proc.c` `get_pid` | `last_pid`, `next_safe` | `get_pid` | `GetPid`, `ProcTree` |
| family links | `process/proc.c`, `proc.h` | `parent`, `cptr`, `yptr`, `optr` | `set_links`, `remove_links`, the adoption loop of `do_exit`, the walk of `do_wait` | `ProcTree` |
| scheduler | `schedule/sched.c`, `default_sched.c` | `current`, run queue, time slices, `need_resched` | `wakeup_proc`, `schedule`, `sched_class_proc_tick` | `Sched` |
| process life cycle, traps | `process/proc.c`, `trap/trap.c`, `syscall/syscall.c` | `proc_struct`: state, wait state, flags, parent; `nr_process` | fork, exit, wait, kill, yield, sleep; the timer interrupt; the return path of `trap()` | `Proc`; its memory: `Memory` |
| timers | `schedule/sched.c` | `timer_list`, a delta list | `add_timer`, `del_timer`, `run_timer_list` | `TimerList` |
| semaphores, wait queues | `sync/sem.c`, `sync/wait.c` | `value`, wait queue, a `wait_t` per blocked process | `up`, `down`, `try_down` | `Sem`, `SemClients` |
| monitor, dining philosophers | `sync/monitor.c`, `sync/check_sync.c` | mutex, condition variables, philosophers' states | `cond_wait`, `cond_signal`, the two `check_sync` programs | the semaphore program: `PhilTable`, `PhilSema` |
| page allocator | `mm/pmm.c`, `default_pmm.c` | free list of page blocks, `property` of each page, `nr_free` | `alloc_pages`, `free_pages` | `FirstFit` |
| virtual memory, swap | `mm/vmm.c`, `swap.c`, `swap_fifo.c` | page table, FIFO of pages, swap slots, vma lists | page fault, swap in and out, `check_swap`, `copy_mm`, `exit_mmap` | `Memory` |
| kernel heap | `mm/kmalloc.c` | SLOB free list, big blocks | `kmalloc`, `kfree` | not modelled |
| drivers, boot, debug monitor | `driver/`, `init/`, `debug/` | devices | I/O | not modelled |
| Pintos threads | `threads/thread.c` | ready list, `all_list`, thread pages, `thread_ticks`, the idle thread | create, block, unblock, yield, exit, the timer's tick | `PintosThreads` |
| Pintos synchronization | `threads/synch.c` | values, wait lists, holders; the counters of the readers-writers lock | semaphores, locks, condition variables, `rw_lock_acquire`, `rw_lock_release` | `PintosSync`, `RwLock` |
| Pintos interrupt queue | `devices/intq.c`, its use by `serial.c`, `input.c` | ring buffer, one waiting thread per condition, a lock | `intq_getc`, `intq_putc` | `Intq` |
| Pintos file system | `filesys/filesys.c`, `directory.c`, `inode.c`, `free-map.c`, `file.c` | on the disk: free map, directory, inodes, data; in memory: free map, open inodes, `struct file` | create, open, reopen, write, deny and allow write, remove, close | `PintosFs` |
| Pintos allocators | `threads/palloc.c`, `malloc.c` | page bitmap, arenas | get, free | not modelled |
| Pintos user programs | `userprog/` | pcb, one global semaphore | load, exit, wait | not modelled |
| containers, word count | `lib/kernel`, `hw-intro/words` | lists, tables, bitmaps | sequential | not modelled |

The rest of the repository is notes, PDFs and exercises, without a program of
its own.

### 1.2 How the parts interact

ucore runs on one processor. Kernel code is not preempted: a process in the
kernel keeps the processor until it calls `schedule()` itself. What *can* happen
at any moment outside `local_intr_save` ... `local_intr_restore` is a timer
interrupt, which increments `ticks`, runs `run_timer_list` (waking sleepers) and
charges the running process's slice; if it interrupted user code, `trap()` then
tests `PF_EXITING` and `need_resched` on its way out.

    user code --syscall--> proc.c (fork, exit, wait, kill, sleep)
                              |  wakeup_proc, schedule       ^ wakeup_proc
                              v                              |
         sched.c: run queue, current, need_resched <---- run_timer_list
                              ^                              ^ timer interrupt
                              |  wakeup_proc, schedule       |
         sem.c over wait.c: down, up <---- monitor.c, check_sync.c

    do_fork, do_pgfault, do_execve, do_exit, do_wait, check_swap
        |  alloc_pages, free_pages (interrupts off in the manager)
        v
     default_pmm.c: free list --no page--> swap.c: swap_out --> free list

The parts share `proc_struct` without a lock: `state` is written by the process
itself (falling asleep, exiting) and by whoever wakes it; `wait_state` tells
`do_exit`, `do_kill` and `wait.c` whether a wakeup is due; `flags` is written by
the killer and read by the victim at three places only.

Pintos runs on one processor, too, but its kernel threads are preempted by the
timer wherever interrupts are on. `synch.c` and `intq.c` work on their lists
with interrupts off and call `thread_block` and `thread_unblock`; `thread.c`
decides who runs. Locks and condition variables are built from semaphores, the
readers-writers lock from those. `intq.c` cannot use them, because interrupt
handlers share its data, and blocks threads itself, one per condition.

     rw_lock_acquire, rw_lock_release      serial_interrupt, input_getc, serial_putc
        | lock, condition                       | intq_getc, intq_putc
        v                                       v
     synch.c: sema_down, sema_up <--lock--- intq.c: wait, signal
        |                                       |
        +----- thread_block, thread_unblock ----+
                        v
              thread.c: ready list <--- thread_tick

The file system stands by itself: `filesys.c` calls `directory.c`, `inode.c` and
`free-map.c`, all of which write single sectors of the disk. It has no lock; its
callers make one call at a time. What can come between two block writes is the
end of power.

### 1.3 What is hard

* **Windows with interrupts on.** `do_wait` and `down()` mark the process asleep
  and call `schedule()` some instructions later; `do_exit` makes a zombie of the
  running process before it notifies anybody. A wakeup in the window must be
  neither lost nor put a running process into the run queue.
* **Several wakers.** A sleeper may be woken by its timer, by a kill, or by both
  at once; its `timer_t` is on its stack. `down()` asserts that only `up()`
  woke it.
* **Cached facts.** `get_pid` answers from a window that it established many
  forks and exits ago. A timer's `expires` is relative to its predecessor.
* **Families.** A process can die with living children and zombies; `initproc`
  inherits them, and may be asleep in `do_wait`, or be killed itself.
* **Mesa semantics.** In Pintos a woken thread finds the world changed: another
  may have taken the unit, or got the lock first, so every wait is a loop. Where
  the loop does not look again, in `intq.c` behind `lock_acquire`, an assertion
  can fail.
* **Memory that runs out.** `alloc_pages` swaps out of `check_mm_struct`, which
  exists during the boot-time check only; later a path that has taken some pages
  meets a failure or a panic. The allocator believes the sizes that its earlier
  calls left in the pages; a page that swapping moves must be found again under
  its virtual address and nobody else's.
* **Removed but open.** A Pintos file lives until its last closer; its sectors
  are then given to the next file at once. All of it is several block writes,
  without a log, and the machine may stop between any two.
* **Start-up and end of threads.** There is no idle thread until it has run once;
  a thread that exits cannot free its own stack.
* **Liveness.** Nobody starves in the run queue, every sleeper wakes, no
  zombie is slept over, a kill gets its target out of its sleep.

Every one of them is an entry of "hazards" in `PROJECT.json`, at its line.

## 2. The modules

    PidAlloc <--refines-- GetPid <-EXTENDS- ProcTree --refines--> PidAlloc
                                                 ProcTree_proofs (both)

    TimerAbs <--refines-- TimerList  (theorems in ProcTree_proofs)
       ^------refines---- Proc  -EXTENDS-> Sched <-EXTENDS- Sem -+-> SemClients --refines--> SemAbs
                           |                 |                   |       |
                           v                 v                   |       v
                      Proc_proofs      Sched_proofs              |   Sem_proofs (both)
                                                                 |       ^
                                                                 +-> PhilTable -> PhilSema

    FirstFit <-EXTENDS- Memory --refines--> MemAbs;  Memory_proofs
    RwAbs <--refines-- RwLock -EXTENDS-> PintosSync <-EXTENDS- Intq --refines--> QueueAbs
                          |                                  |
                          +------- PintosSync_proofs --------+
    PintosThreads <- PintosThreads_proofs (what the others assume of the scheduler)
    FsAbs <--refines-- PintosFs <- PintosFs_proofs

`MC*` modules only give TLC its sets; they define nothing the others use. Each
module has a short section of *plausible slips*: alternative bodies of some
operators, never used by a specification. They record which change of the code
each property is there to notice.

### GetPid, PidAlloc, ProcTree

`get_pid`, one step per entry into the function, per process that the scan of
`proc_list` meets, and for its end. `live` is the set of pids on the list;
`Return` is `do_fork` inserting the child, `Reap` is `do_wait` removing one.
Nothing interleaves with a scan because `do_fork` holds interrupts off. The scan
meets the processes in any order, whereas the code follows the list; the result
is proved not to depend on it. PidAlloc is the promise: a pid that is free, for
at most `MAX_PROCESS - 1` processes.

ProcTree composes the allocator with what `do_fork`, `do_exit` and `do_wait` do to
the family: processes are named by the pids they are given, so that a pid is
used again by another process with another parent. `ForkReturn` is `hash_proc`
and `set_links`; `Exit`, `AdoptChild` (once per child) and `ExitDone` are the
critical section of `do_exit`; `WaitReap` is `unhash_proc`, `remove_links`, `kfree`.
`SetYounger` and `SetOlder` are the two conditional assignments that these
functions share. The walk of `do_wait` along `optr` is given as the least set that
is closed under it (`Reached`), so that no recursion is needed. Which process
runs, and when, is left open.

### Sched

`wakeup_proc`, `schedule()` and the round-robin class as operators: `Wakeup`,
`Schedule`, `ProcTick`, `FallAsleep`. Their branches are the code's: a runnable
process is not woken again, the running process is made runnable without being
queued, a used-up slice is refilled by enqueueing only. The run list is a
sequence, `proc_run` the assignment of `current`.

### Proc

The processes. `pc[p]` is the place in the kernel between two steps; a step is a
stretch of code that no interrupt can divide, or whose division nobody can see:

| Actions | Code |
|---|---|
| `InitMain`, `SysFork` | `do_fork` from `get_pid` to `wakeup_proc` |
| `SysYield`, `SysSleep`, `SleepReturn` | `do_yield`, the two halves of `do_sleep` |
| `SysExit`, `TrapKilled`, `WaitKilled` -> `ExitNotify` -> `ExitAdopt` -> `Reschedule` | `do_exit`: zombie; critical section; `schedule()` |
| `SysWait`, `WaitReap` / `WaitSleep` / `WaitNone`, `Reschedule`, `WaitAgain` | the `repeat` loop of `do_wait` |
| `SysKill`, `KillWake` | `do_kill`, with the window between reading `wait_state` and `wakeup_proc` |
| `TrapReturn`, `TrapKilled` | the end of `trap()`; interrupts are off there if it was an interrupt, on if it was a system call |
| `Tick`, `Expire`, `TickEnd` | `IRQ_TIMER` and `run_timer_list` |
| `Reschedule` of `Idle` | `cpu_idle` |
| `InitPanics`, `pc = "quit"` | `do_exit` of `initproc` panics; `init_main` ends |

Abstractions, all of which allow more than the code does: a process is named by
its `proc_struct` (that pids are unique is GetPid's subject); `do_wait` may reap
any of the zombies, where the code takes the first in the list; timers due at
the same tick expire in any order (TimerList shows the code's). Left out:
memory (Memory has it; a fork that fails for want of memory is `SysNothing`),
`load_icode`, and `wait_queue`s, which are Sem's subject. `parent` is kept as a
function, the child lists being its inverse: that the three link fields say the
same is what ProcTree shows (`ChildrenReached`).

### TimerAbs, TimerList

TimerAbs is independent countdowns. TimerList is `timer_list` with its relative
`expires`; `Arm` is `add_timer` (walk past all timers that expire no later,
insert, adjust the successor), `Cancel` is `del_timer` (hand the rest to the
successor, unlink), `Tick`, `Fire`, `Done` are `run_timer_list`. The ticks that a
timer has left are the sum of the deltas up to its place (`Due`); with that for
the countdowns TimerList implements TimerAbs, and Proc's steps are steps of TimerAbs, so Proc may use countdowns in
the place of the list.

### Sem, SemAbs, SemClients

`down` is `Take` or `Block` ... `Leave` (`schedule()`) ... `DownReturns`; `up` is
`Grant` or `Release`. `waitOn` and `flags` are the `wait_t` on the caller's
stack. SemClients lets any process call any operation in any order, sleep, be
preempted on its way to user mode, be killed and be woken early. SemAbs is a
counter per semaphore with `P` and `V`. A unit that `up()` has handed to a
process which has not run yet counts as available, until that process has
returned.

### PhilTable, PhilSema

The semaphore program of `check_sync`. Philosophers are kernel threads, so a
critical section is only ever left at `down()` or `do_sleep()`; the model
nevertheless makes each `down`, each `up` and each `phi_test` a step of its own,
with ticks and early wakeups in between. The monitor program is not modelled:
`cond_signal` has no body (section 5).

### FirstFit, Memory, MemAbs

FirstFit is `default_pmm.c`: `free_list` with every free page on it, in address
order; `property`, the size at the first page of each free block; `nr_free`.
`AllocPages` takes from the first block that is large enough and leaves a head
for the rest; `FreePages` links the pages in and joins them with the block
behind and the block before, which it finds as the code does, by walking back to
the first page with a property (`HeadBefore`). Nothing in the module knows what
the blocks really are: the sizes are whatever earlier calls left, and `FitExact`
says that they are right. `Taken` holds the code to its literal loop, the page
and the `n - 1` entries behind it, as the pages that follow it in memory; that
they are the same is what `FitExact` gives.

Memory is the callers. First `check_swap` at boot: writes and page faults on the
virtual pages it uses (`Write`, `Fault`, then `SwapOut` for each turn of the loop
in `alloc_pages` and `FaultMap`), with four pages of memory in an emptied free list
and the rest set aside, and its end (`CheckEnd`), which puts the saved list back.
Then `do_fork` (`Fork`, `ForkStack` or `ForkNoStack`, `GrowPage`s for `copy_mm`), page
faults, `exec` and `brk` (`Grow`), `do_exit` and `do_execve` (`Exit`, `ExitPage`),
`do_wait` (`Reap`). Each path takes or gives back one page at a time, so that
memory can run out in the middle: a stack that is not to be had makes the fork
fail, a single page that is not makes the kernel panic (`Panic`). An address space
is the set of its pages. MemAbs is the promise to the user of swapped memory: a
page holds what was last written to it.

### PintosThreads

`thread.c`. `Schedule` is `schedule()`, `next_thread_to_run` and
`thread_switch_tail` in one, since interrupts are off all the way: the next
thread is taken from the head of the ready list, or is the idle thread, and the
page of a thread that has just exited is free from then on. Between two steps
the timer may preempt (`Tick`) and an interrupt handler may unblock (`Signal`).
`Create` and `Launch` are the two halves of `thread_create`; in between its
creator can be preempted and, in `allocate_tid`, block. `Start`, `AwaitIdle` and
`IdleInit`, `IdleUp`, `IdleBlock` are `thread_start` and `idle()`, step by step,
`Resumed` the interrupt that ends a `hlt`. What a thread blocks on is left open:
any thread that is blocked by itself may be unblocked at any time. Only the
first-in first-out policy is modelled; the others panic.

### PintosSync, RwLock, RwAbs

PintosSync holds `sema_down` and `sema_up` as operators: a down is `Pass` or
`Sleep`, and a thread that has been let go tests the value again, which somebody
else may have taken. It is an abstraction of the scheduler: any thread that is
not blocked may take the next step, which PintosThreads' `ReadyRuns` and its
preemption at any point justify.

RwLock is `rw_lock_acquire` and `rw_lock_release` with every call that they
make spelled out: `sema_down` of the guard, the assignments to `lock->holder`,
`cond_wait` between the release of the guard and its own semaphore, signal and
broadcast. Only what a thread does to the counters and condition lists in one
stretch under the guard is one step. `GuardHeld` shows that nobody else holds
it then, and all accesses are under it. RwAbs is the promise: writers alone,
readers with readers.

### Intq, QueueAbs

A thread in `intq_getc` or `intq_putc` runs with interrupts off from one place
where it blocks to the next, so that such a stretch is one step: `AtOnce`, a
call that need not wait; `Acquire` or `AwaitLock`, the two outcomes of
`lock_acquire`, the first going on to `wait()` (`EnterWait`, with its assertion);
`Complete` and `WaitAgain`, the two ways on from `wait()`. `Receive` and
`Transmit` are the two loops of `serial_interrupt`, one byte at a time. The
kernel has two such queues, one with readers and receive interrupts, one with
writers and transmit interrupts; one instance of Intq allows all of them at
once. Receive interrupts come only if there is room, as `serial_interrupt`
tests. QueueAbs is a bounded sequence of bytes.

### PintosFs, FsAbs

Every state-changing call of the file system, in as many steps as it has block
writes: `Create`, `CreateData`, `CreateWrite`, `CreateZero` (per sector) and `CreateAdd`
are `filesys_create` with `free_map_allocate`, `inode_create` and `dir_add`;
`CreateNoRoom`, `CreateExists` and `CreateUndo` its failures. `Remove` and `RemoveInode`
are `filesys_remove`: the entry is erased on the disk, then the inode marked and
closed. `Close` is `file_close`; the last closer of a removed inode goes on to
`FreeInode` and `FreeData`, two writes of the free map. `Open`, `Reopen`, `Write`,
`DenyWrite`, `AllowWrite` are the functions of those names. `Reboot` may come between
any two steps: memory is lost, the free map read again. That a name is invalid
(`InvalidNames`) or exists is found out by `dir_add`, after everything has been
allocated, and so it is here. Single sectors are written atomically, the free map and the directory
take one sector each, which is what they do on the disks the tests use.
FsAbs is the promise: names denote files, an open file keeps its contents even
when its name is removed or used again, only a write changes contents and none
does while writes are denied, and a crash forgets who has what open and nothing
else.

## 3. What TLC checks

| Run | Instance | What it shows |
|---|---|---|
| `proc_tree` | at most 5 processes, pids 1..7 | a returned pid is free and in range, and the cached window sound; every scan ends; GetPid, under the forks and reaps of a family, implements PidAlloc; the links of a family agree and none dangles; the walk of `do_wait` meets exactly the children |
| `proc_family` | 3 user processes and `initproc`, all of which may be killed; sleeps of 1 and 2 ticks; every tick may preempt | the run queue is exact, `state` and `wait_state` agree; no wakeup between a child and a waiting parent is lost, inherited children and `initproc` included, and everyone has a parent that can reap it (`FamilySound`); timers belong to sleepers; nothing is freed too early; timers are used as TimerAbs allows |
| `proc_live` | 2 user processes, slices of 2 ticks, reschedule every 2nd | a runnable process gets the processor; sleepers wake; a process killed in its sleep leaves it and dies, and one that is killed past the test in `trap()` dies too unless it goes on to wait for a child |
| `timer_list` | 3 timers, times 1, 2, 4 | the delta list implements independent countdowns; every timer fires or is deleted |
| `sem_clients` | `initproc`, 2 users, a mutex and an empty semaphore, values to 2 | the wait queues hold exactly the blocked processes and no unit lies idle beside a waiter (`WaitqSound`); `down()`'s assertion; units are neither lost nor doubled; first come, first served |
| `phil_sema` | 3 philosophers, 2 meals | neighbours never eat together and each seat given is one unit of `s[i]` (`SeatsSound`); all finish |
| `memory` | 11 pages; 3 of them for the check with 4 virtual pages; 2 processes with 2-page stacks and up to 2 pages each | sizes kept in the free list are exact and blocks joined; every page is free or has one holder, whatever fails half-way; `swap_out` finds its victim and its entry; pages keep their contents (MemAbs) |
| `threads` | main, idle and pages for 3 threads; `TIME_SLICE` 4 as in the code | the ready list is exact; no page is used after it was freed or before its thread is ready; there is always a thread to run, also before the idle thread is known, and the processor never halts with a thread ready (`IdleSound`); nobody starves |
| `rw_lock` | 4 threads that call again and again | the guard is a lock, `AR`, `AW`, `WR`, `WW` are exact, a blocked thread is on one wait list, once (`LockSound`); the lock implements RwAbs; a writer that waits is followed by a writer that gets in; all calls return once calls stop |
| `intq` | 3 getters, 2 putters, 3 slots | a thread in `wait()` is the only one, and blocked there only while its condition fails; nobody is left queued for a free lock; bytes come out as they went in |
| `intq_two` | 2 getters, 4 slots | *violation*, section 5 |
| `pintos_fs` | 2 names and an invalid one, 2 handles, files of 1 and 2 sectors, 5 sectors, 2 directory slots | wherever the machine stops the disk is sound; an open file keeps its sectors; the calls implement FsAbs; sectors are lost only where a create fails late or the power does |

### 3.1 Bounds

* `proc_tree`: the interesting events of the pid scan are the wrap at `MAX_PID`, a
  restart of the scan, and a hit in a window that forks and exits have changed
  since. With seven pids for at most five listed processes all happen, several
  in one call. Of the family, five processes are `initproc`, a parent with three
  children, so that one between two siblings is orphaned, adopted or reaped, and
  `initproc` can have children of its own when it adopts them.
* `proc_family`: three users are the least with a grandchild that is orphaned
  while its parent, its sibling and `initproc` do something else; the fourth
  would be one more sibling. `MAX_PROCESS = 5` is reached. One tick per slice
  lets every interrupt of user code preempt.
* `proc_live`: two users without symmetry, which liveness does not permit;
  slices of two ticks, so that a slice can end in the middle of a kernel path.
  One user and `initproc` are killed, the user by the other one, by itself, or
  asleep; the other user can be the child it waits for, or its parent.
* `timer_list`: with three timers there is one before, one behind and one to
  insert or delete between them; times 1, 2, 4 give equal and different deltas,
  and two equal ones.
* `sem_clients`: three clients are two waiters and one that ups. `MaxValue`
  bounds `value`, nothing else; it appears in the guard of `UpCall`.
* `phil_*`: the code has `N = 5` and `TIMES = 4`. Three philosophers are the
  tightest table: everyone is everyone's neighbour. A second meal is needed to
  come back to the table.
* `memory`: `CHECK_PAGES` is 3 and not 4, with one more virtual page than that, as
  in the code, so that every fault swaps. Of the 11 pages 7 are left after the
  check: two stacks and two address spaces of two pages are one too many, so
  that each path can fail; blocks of two and single pages fragment them.
  `MaxPages` bounds an address space (guard of `Grow`); `Values` are two contents.
* `pintos_fs`: five sectors are two files of two sectors at most, and then a
  create that fails; lengths 1 and 2 make the sectors of a removed file fit
  another one in part. The invalid name stands for an empty or too long one. Two
  names and two slots fill the directory; two handles are two openers of one
  removed file, or one of it and one of its successor.
* `threads`: with three pages there are a creator, its new thread and a third that
  exits or takes the freed page, besides main and idle.
* `rw_lock`: two readers and two writers, in every mixture; the number of calls
  is unbounded.
* `intq`: `INTQ_BUFSIZE` is 64. Three slots, two of them used, wrap around soon
  and tell full from empty; the third getter is the one that overtakes.
* Symmetry is used where only invariants and step properties are checked.

`CHECK_DEADLOCK FALSE` is said of `Proc`, `Memory` and `Intq`. When `init_main` has
ended, when the ucore kernel has panicked, or when the assertion in `wait()` has
failed, nothing moves any more, which is what the code does. The other models
never stop.

### 3.2 Fairness

* `ProcTree`: the steps of the scan, and those of the adoption loop, weakly fair:
  straight-line code with interrupts off. No fairness for forks, exits and reaps.
* `Proc`: `SF(Tick)`, the clock: an interrupt that arrives while interrupts are off
  stays pending in the interrupt controller and is served when they come on
  again, which they do again and again though not for long; `WF(IrqStep)`, a
  handler runs to its end; `SF(KernelProgress)`: kernel code that an interrupt
  breaks into goes on after it. Weak fairness would be wrong in the other
  direction: the step of the kernel is disabled while a handler runs, so it is
  enabled infinitely often and not continuously. **User code has no fairness**:
  it may loop for ever, and the properties hold nonetheless.
* `TimerList`: the clock and the handler.
* `PhilSema`: each philosopher's own steps (kernel threads run on to
  the point where they block), the clock, `cpu_idle` and the end of a sleep,
  which is what `proc_live` shows of `do_sleep`.
* `PintosThreads`: `WF(Tick)`; strong fairness for the steps of `thread_start`
  and `idle()`, which run on whenever their thread has the processor, with
  preemption in between. Ordinary threads have none.
* `RwLock`, `Intq`: each thread that is not blocked goes on with the call it is
  in (`WF(Step)`, `WF(Resume)`), as `threads` shows of the scheduler; no call has
  to be made and no byte has to arrive. In RwLock a thread that has the lock
  releases it.
* `SemClients`, `Memory` and `PintosFs` have no fairness and no liveness property: a
  client may keep a unit, a page or a file open for ever.

## 4. What is proved

Theorems hold for every value of the constants that satisfies the named
assumptions: `PidBounds`, `SchedConstants`, `ProcConstants`, `TimesPositive`, `SemConstants`,
`ClientConstants`, `FsConstants`, `PagesNat`, `MemoryConstants`,
`ThreadConstants`, `SyncConstants`, `RwConstants`, `IntqConstants`,
`TableConstants`, `SemaConstants`. They say that
`idleproc`, `initproc` and the users differ, that pages are numbered, that bounds
and times are positive, that `MAX_PID > MAX_PROCESS` (the code's
`static_assert`), that sector 0 is no file's, that a ring has at least two slots,
and that there are at least three philosophers, with a semaphore each and the
mutex besides. The set of users may be
infinite, except in SemClients, whose initial run queue lists them; the threads of
PintosSync are finitely many (`SyncConstants`), since RwLock counts them.

* **ProcTree_proofs**, about GetPid. `PidIsFresh`, `WindowIsSafe`, `GetPidRefines`. The invariant
  `PidInv` adds to the cached fact its counterpart *inside* a call (`CallWindow`:
  no process already met has `last_pid` or a pid of the window above it) and the
  check of `do_fork` (`RoomInCall`), without which the refinement would not
  respect the bound.
* **ProcTree_proofs**, about ProcTree. `LinksAlwaysAgree`, `WaitSeesChildren`, `TreePidsSound`,
  `TreeRefines`, by `TreeInv`. The links must be described while the adoption loop
  is half done, too: a child's parent is running *or is the dying process*
  (`Parents`), heads and siblings agree all the time (`Heads`, `Youngers`, `Olders`).
  That the walk of `do_wait` meets every child does not follow from this: siblings
  linked in a circle would satisfy it. Hence `Acyclic`: there is a rank that
  decreases along `optr`. A new or adopted child is given a rank above all others;
  the proof that the walk then covers the children (`ListCovers`) takes a
  hypothetical child outside with the greatest rank. PidInv is inherited through
  the fact that every step of the tree is a step of the allocator.
* **ProcTree_proofs**, about TimerList. `DeltasAlwaysSound`, `TimersRefine`. The invariant
  `DeltaInv` is types and `DeltasSound`: a timer is linked once, deltas are not
  negative, and outside `run_timer_list` the first one is positive, which is the
  handler's own assertion (`sched.c:154`). Times are sums over the list, and the
  provers cannot instantiate an induction theorem, so the sum is characterised
  instead of computed: a function that adds up the deltas exists and is unique,
  since there is no least index at which two of them part, or up to which there is
  none (`Least`, `SumUnique`, `SumExists`). To know the times after a step
  it is then enough to write down a function and check one addition per index
  (`LeftNext`): linking and unlinking shift the list and change the delta of the
  successor only (`TimerLinked`, `TimerUnlinked`), the tick lowers every sum by one
  (`TickTimers`). That `add_timer` stops at the right place is `PassedIs`: sums
  do not decrease along the list (`Monotone`), so that the timers due no later than
  the new one are its front part.
* **Sched_proofs.** Lemmas on `Wakeup`, `Schedule` and `FallAsleep`: each keeps
  types, `RunqExact` and `SleepAgrees`. Each is stated once with its
  preconditions and cited for every action of Proc and SemClients.
* **Proc_proofs, queues.** `TypeCorrect`, `SchedulingExact` by `QueueInv`. The two
  halves of `SchedExact` are not inductive: `wakeup_proc` of a process
  that is `current` must not queue it, and `schedule()` must not drop it. What is
  missing is `CurrentAwake` (a process with the processor is awake but for the
  points between falling asleep or exiting and `schedule()`) and `IdleLoops`.
* **Proc_proofs, the life of processes.** `TimersOwned`, `TimersUsed` by `TimerInv` on top of
  `QueueInv`: a timer is armed only inside `do_sleep`; the invariant must say as
  well that between interrupts no timer is due and that what has exited or been
  freed is at no point where a timer could be its own. `FamilyAlwaysSound` and
  `FreedOnlyWhenDead` by `FamilyInv` on top of both. That no wakeup is lost between a
  child and its parent rests on four facts about processes that are elsewhere: one
  without the processor is where `schedule()` left it, so that only the running
  process can be in the middle of an exit (`SwitchedOut`); `initproc`, which adopts,
  has not exited itself and is never in user mode (`InitLives`); the process that
  `do_kill` is about to wake has not died meanwhile, although interrupts were on
  (`KillAlive`, which is `wakeup_proc`'s assertion that it is no zombie); and nobody
  makes an exiting process runnable again (`ExitIsFinal`). A zombie that is reaped
  has then left the processor for good, and its children have been adopted.
* **Sem_proofs.** `SemTypeCorrect`, `WaitQueuesSound`, `DownWokenByUp`,
  `SemRefines`, `FirstComeFirstServed`, all from `SemInv`: the
  run queue invariants again, the wait queues, `NoStaleWait` (a `wait_t` exists
  only inside `down()`), and that finitely many units are on their way, which
  the counting of the refinement needs. The assertion of `down()` follows
  because `do_kill` and the timers wake only `CHILD` and `TIMER` sleepers, and a
  process that is back from `schedule()` is runnable, hence off every queue.
* **Sem_proofs, the philosophers.** `PhilInvariant` and `SeatsAlwaysSound`, for any
  number of philosophers from three on and any number of rounds. `SemInv` is
  proved once of each operation in `Sem`, so it holds of whoever calls them, and a
  philosopher is one more caller. What it lacks is where a philosopher stands:
  `DownAgrees` (one that is on its way to sleep or asleep is in the `down()` that its
  program counter tells, or in `do_sleep`), `StatesAgree` (`state_sema` follows the
  program, except that its neighbours may have seated a hungry one) and
  `SeatsApart`, which is the exclusion of `phi_state` and not yet of the eating:
  `SeatPromised` joins the two, since only the seated have a unit under way.
  The proof nowhere uses the mutex: a kernel thread is not preempted, so each
  `phi_test` looks and seats in one step whoever else is at the table.

* **PintosFs_proofs.** `FsInvariant`, `DiskAlwaysSound`, `OpenFilesKeepSectors` by
  `FsInv`; `FsRefines` (of FsAbs) and `LostOnlyInFailures`. Soundness of the disk
  says nothing of a call that is half done, so it is not inductive. `FsInv` adds
  what the call under way holds (`HoldsApart`: marked, until it frees it, and in
  no file but the one that it removes), that the two free maps agree between
  writes (`MapSaved`), that an entry is listed once and a removed file not at all,
  and the exact count of openers (`OpenersCounted`), for only then does the last
  closer free what nobody uses. `Reboot` preserves it because of `MapSaved`: marks
  of a call that was cut off are kept, which loses sectors and never gives one out
  twice. `FsRefines` and `LostOnlyInFailures` need `FsDetail` besides:
  `deny_write_cnt` counts the handles that deny, so that no write happens while
  one of them does; an open file without an entry is removed or being removed, so
  that its last closer frees it; and what a create has zeroed so far is zero, so
  that a new file appears full of zeros in the one step that lists it. A write
  changes one file only because the sectors of two files are apart.
* **PintosThreads_proofs.** `ReadyAlwaysExact`, `PagesAlwaysSafe`, `IdleAlwaysSound`, all
  by `ThreadInv`. What they lack is who can be at which point of the code (`Places`),
  since `thread_create` may be preempted with its page taken and its thread not yet
  ready; and the stages of the start-up (`StartUp`): until `idle_thread` is known the
  thread that will set it is ready or running, so `next_thread_to_run` never falls
  back to a null pointer. `LeavesProcessor` says once, for preemption, blocking,
  yielding and exiting alike, that `schedule()` keeps the invariant.
* **PintosSync_proofs, the readers-writers lock.** `LockAlwaysSound` and `RwRefines` by
  `RwInv`. `GuardHeld` speaks of `lock->holder`, which is set some time after the
  unit was taken and cleared some time before it is given back; the exclusion rests
  on `OneUnit`: from `sema_down` to `sema_up` there is one such thread and the value
  is 0, else it is at most 1. That semaphores of waiting threads come and go on
  their stacks does not disturb it. With the counters exact, a loop condition of
  `rw_lock_acquire` that is false says that there really is nobody inside, which is
  the refinement. What `sema_down` and `sema_up` do to a wait list are lemmas
  (`Joins`, `Leaves`) that both halves of the module cite.
* **PintosSync_proofs, the interrupt queue.** `BlockedAlwaysExact`, `WakeupNeverMissed`
  by `IntqInv`; `IntqRefines`. That nobody sleeps in `wait()` over a condition that
  holds is not inductive: the interrupt handler looks at `*waiter` only, so it must
  be known that the sleeper is there, that it is the only one, because it has the
  lock (`LockExact`), and that it waits for the condition it is filed under
  (`QueuedExact`). A thread that comes back from `lock_acquire` and finds the
  condition to hold is the assertion of section 5: it panics, as the code does, and
  the invariant includes those states. For the refinement the
  indices are taken apart once (`Size`, `Slot`): `(head - tail) % BUFSIZE` and
  the position of the i-th byte, with their two cases around the end of the ring.
* **Memory_proofs.** `MemoryInvariant`, `AllocationExact` (`FitExact`),
  `PagesAlwaysAccounted`, `QueueAlwaysExact`, `MemoryRefines`, by `MemInv`. That the
  size of each block is right is not inductive by itself. A block is found by its
  head, so every page of the list must be covered by a head, and heads behind one
  another by less than their size must not exist; interior pages must have size
  0, also those of a kernel stack that a process holds: `free_pages` sets the size of
  the first page only, and believes the rest (`ListsExact`). The same must be said
  of the list that `check_swap` puts aside while it frees and allocates. The other
  half says who has what: `CheckSplit` while the check runs and `ProcSplit` behind it
  give each page one place. The swap-out finds a victim because a list without a
  block of one page is empty, so that all pages of the check are mapped
  (`QueueOnce`, `QueueExact`). The refinement of MemAbs uses that no two virtual pages
  share a page or a slot.

Only model-checked:

* the liveness properties, which are out of the prover's reach;
* `WaitAsserts`, which does not hold.

## 5. Where the code and its documents part

* **The interrupt queue does not look twice** (`intq_two`, `WaitAsserts`).
  `intq_getc` tests `intq_empty`, then calls `lock_acquire`, which may sleep, then
  `wait()`, which asserts that the queue is empty (`intq.c:73`). Thread 1 waits,
  thread 2 is queued for the lock; two bytes arrive; thread 1 takes one and
  releases the lock; thread 2 calls `wait()` with one byte in the queue, and the
  kernel panics. The lock is there for several callers ("Only one thread may wait
  at once.", `intq.h:26`). `input_getc` has no caller in this tree yet, so this
  waits for the first program that reads with two threads.

Met on the way, without a run that expects a violation:

* **A kill can be missed.** The table at the head of `proc.c` (lines 56-57) has a
  killed process run through `wakeup_proc` and `do_wait` to `do_exit`. `trap()` tests
  `PF_EXITING` *before* it calls `schedule()` (`trap.c:337-342`). A process killed
  while it is preempted there resumes in user code; if its next system call is
  `wait`, `do_wait` goes to sleep without a look at the flag (`proc.c:758-763`), and if
  the child does not exit nobody wakes it: a second kill returns `-E_KILLED`
  (`proc.c:799`). `KilledStops` states exactly what does hold. As long as no kill
  comes to a process that is past its test (`Overlooked`), every killed process
  leaves its sleep and dies, as the table has it; without the call of
  `wakeup_proc` in `do_kill` it would not. A process that has been overlooked dies
  as well, unless it gets to wait for a child; it never computes on for ever.
* **`cond_signal` does not signal.** `monitor.c:25` says that it unlocks one of the
  waiting threads; the function prints two lines. A philosopher of the monitor
  program that has to wait is seated by its neighbour and never woken.
* **A create that fails late loses sectors.** When `dir_add` fails, because the name
  is invalid or exists, `filesys_create` (`filesys.c:45`) gives back the inode's sector and not
  its data. `LostOnlyByFailure` says that this and a stop of the machine are the
  only ways.
* **`check_swap` keeps its pages.** It restores the free list that it saved
  (`swap.c:259-272`); the pages of the check and their page table are in neither.
  `PagesAccounted` counts them as lost (`CheckLost`).
* **Memory that runs out stops the kernel.** After boot `check_mm_struct` is NULL;
  `alloc_pages` for a single page calls `swap_out` for it (`pmm.c:171`) and faults.
  Callers that test the result of `alloc_page` do so in vain; the failure that
  `do_fork` really handles is that of the two-page kernel stack, for which
  `alloc_pages` does not swap.

## 6. Not modelled or not promised, and why

* `kmalloc.c`: a sequential list of free units below a page; all its callers ask
  for fixed sizes below a page. A model would show of it what FirstFit shows of
  the page allocator.
* The vma list (`find_vma`, `insert_vma_struct`): built once per `exec` and copied by
  `fork`, without removal. Permissions, user memory checks, `load_icode`. Address
  spaces that threads share (`CLONE_VM`) are one space in Memory. A swap disk that
  fails, and `swapfs_init` without a disk.
* Of the page allocator the detection of memory at boot, the self-tests and the
  `PG_reserved` flags, which only assertions read.
* `default_sched_stride_c` is not compiled, neither here nor in lab 6.
* Drivers, boot, kernel debugger: I/O without state of interest here. The timer
  interrupt is in Proc.
* `wakeup_queue`, `wakeup_first`, `wait_queue_next`, `wait_queue_prev`,
  `wait_queue_last`: no caller.
* Which zombie is reaped first. `initproc` takes the newest child first and reaps
  one per round, so an old orphan can wait as long as new ones keep arriving;
  `FamilySound` and `RunnableRuns` promise that it goes on reaping, not that it
  reaps each of them soon.
* `initproc` may be killed, and the kernel then panics: Proc models both, and no
  property forbids it, as nothing in the code promises otherwise.
* Of Pintos' threads: `sema_try_down`, `lock_try_acquire`, the self-test of
  semaphores, priorities (stored and not used), statistics.
* Of Pintos' file system: reading and file positions, which change nothing that
  is shared; `inode_write_at`'s partial sectors; formatting; allocation failures
  of memory; subdirectories, which it does not have; a free map of more than one
  sector, whose writes would not be atomic; a torn write of a sector.
* Pintos' user programs are a skeleton in this repository: one program at a time,
  one global semaphore, exit as the only system call. `palloc.c` and `malloc.c` are
  sequential under their locks.
* Pintos' list, hash and bitmap: sequential containers with tests.

## 7. What could come next

1. The circular waits behind the liveness properties as invariants (whoever holds
   the units that a blocked thread needs can run), so that the safety half of
   progress holds for any number of threads.
2. `PintosUser`: `process_execute`, `process_wait` and `process_exit`, once they do
   more than share one semaphore.
3. The monitor program, once `cond_signal` has a body.
4. `Slob` (`kmalloc.c`) beside FirstFit.

The number of runs and properties is kept small on purpose: a new property takes
the place of the weakest one of its component.
