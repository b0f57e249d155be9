# A TLA+ model of the OS simulator

`src/ossim_sierra` simulates an operating system: CPU threads run the
instructions of processes that a loader thread admits, in time slots beaten by a
clock thread, with a multi-level queue scheduler, a `killall` system call, and
paged memory with swap. This directory holds TLA+ modules translated from that
code, the TLC runs that check them on small instances, and TLAPS proofs for every
value of the constants. File names below are relative to `src/ossim_sierra/src`
unless they say otherwise. The modelled configuration is the one that
`include/os-cfg.h` and `include/os-mm.h` fix: `MLQ_SCHED` and `MM_PAGING`.

## 1. The system

| Part | State | Operations | Talks to |
|---|---|---|---|
| Clock (`timer.c`) | device list; per device `done`, `fsh`, two mutexes, two condition variables; `_time`; `timer_stop` | `attach_event`, `start_timer`, `next_slot`, `detach_event`, `stop_timer`, `timer_routine` | every CPU and the loader, through `next_slot` |
| Queue (`queue.c`) | an array of at most `MAX_QUEUE_SIZE` pcbs | `enqueue`, `dequeue`, `remove_proc` | used under `queue_lock` |
| Scheduler (`sched.c`) | `mlq_ready_queue[]`, `running_list`, `slot[]`, `reset_slot`, `queue_lock`; in each pcb `pc`, `time_slot`, `ready_queue`, `running_list` | `get_proc`, `put_proc`, `add_proc`, `remove_pcb` | CPUs, loader, `killall` |
| CPU threads (`os.c`, `cpu.c`) | `proc`, `time_left` per CPU; `done`, `finished` | `cpu_routine`, `run` | scheduler, clock, memory, system calls |
| Loader (`os.c`) | position in the list of processes | `ld_routine` | scheduler, clock, `done` |
| `killall` (`sys_killall.c`) | none of its own | `__sys_killall`, `kill_in_queue` | lists and pcbs of *other* processes, under `queue_lock` |
| System calls (`syscall.c`, `syscalltbl.lst`) | none | dispatch on a number | `killall`, `memmap`; the others only print |
| Regions (`libmem.c`, `mm.h`) | free list and symbol table of an address space | `get_free_vmrg_area`, `__free` | `__alloc` |
| Page table entries (`mm.h`, `mm.c`) | overlapping bit fields of a 32-bit word | `pte_set_fpn`, `pte_set_swap`, `PAGING_PTE_FPN`, `PAGING_PTE_SWP` | paging |
| Paging (`libmem.c`, `mm.c`, `mm-vm.c`) | `pgd`, `fifo_pgn`, `sbrk` per process; `mmvm_lock` | `__alloc`, `__free`, `pg_getpage`, eviction, `init_mm`, the end of a process | frame lists |
| Devices (`mm-memphy.c`) | storage and free frame list of RAM and swap | `MEMPHY_get_freefp`, `MEMPHY_put_freefp`, read, write | shared by all processes |
| libstd, parsing of files, printing, `mem.c`/`paging.c` | - | - | not modelled (section 7) |

What is hard here, and what correctness means for each part:

* **Clock.** `done` is set under one mutex and cleared under another; signals are
  sent to threads that may not sleep yet; the clock thread must know when to end.
  Correct: it is a barrier. Nobody starts a slot before all have ended the last
  one, no arrival is erased, no wakeup is lost, and it ends when all have left.
* **Scheduler.** Budgets per level with a refill; a process in exactly one place
  whatever the timing; no CPU turned away beside a waiting process.
* **CPUs, loader and killall.** `killall` rewrites the `pc` and the pointers of a
  process that another CPU is running, putting back or removing, and both sides
  read some of these without the lock. CPUs decide from two unprotected flags when
  to stop. Correct: no process is lost, runs twice or is used after it was freed;
  killing works; everything ends.
* **Memory.** Allocation takes frames one at a time, evicts its own pages, and may
  fail half way; reads and writes take no lock, not even for a page fault. Correct:
  every frame is in one place, data follow their page to swap, regions never
  overlap, failures give back what was taken, the lock included, and nothing of this
  depends on what a process that ended left in the recycled tables. A program that
  frees twice or touches what it never had may hurt itself, not the accounting.

## 2. Modules

```
SlotBarrier        what the clock promises (abstract)
  Timer            timer.c; ImplementsBarrier is the refinement
    MCTimer, TimerProofs
RunQueue           what the scheduler promises (abstract): a line of processes per level
Queue              queue.c as operators on sequences
  Sched            sched.c and killall's critical sections, used by any threads in any
                   order; ImplementsRunQueue is the refinement
    MCSched, SchedProofs
Kernel             os.c, cpu.c, syscall.c, sys_killall.c, on INSTANCEs of Sched and
                   SlotBarrier; UsesSchedProperly says it stays within Sched
    MCKernel
    KernelProofs     the threads use the scheduler as Sched allows
      KillallProofs    the lists while killall works on them
        KernelEndProofs  quanta, flags, and how the threads stop
Pte                page table entries as operators
Regions            free list and page arithmetic as operators
  RegionsProofs    pages, first fit and splitting
  Memory           libmem.c, mm.c, mm-vm.c, mm-memphy.c
    MCMemory, MemoryProofs (with ListFacts, what is proved of sequences)
```

**Timer.** One step is one access to shared memory or one pthread call. A thread
asleep on a condition variable is a program counter of its own (`asleep`,
`ns_asleep`); a signal moves it to `woken`, where it competes for the mutex again,
and so may a spurious wakeup. The first loop of `timer_routine` is `LockEvent` ..
`UnlockEvent`, the second `LockTimer` .. `UnlockTimer`, `next_slot` the `ns_` steps
and `detach_event` the `de_` steps. When a device calls them is its own affair.
`main` attaches, starts, creates the threads, and stops the clock after joining
them. `phaseBar` and `stageBar` are the refinement mapping: a device whose flag the
release loop has still to clear already belongs to the new slot.

**Sched.** One action is one critical section of `queue_lock`, or one access made
without it. `get_proc` is `GetProc`/`GetNothing`, refill and second search included;
`put_proc` is `PutPointers` (the stores before the lock) and `PutProc`; `remove_pcb`
is `RemoveFromRunning` and `FreePcb`; `killall` holds the lock over several actions
because CPUs touch the pcb meanwhile. `load` leaves `running_list` uninitialised:
`Load` gives it the value of any freed pcb, or NULL. `SchedSpec` lets anybody take
these steps in any order for a process they were given (`held`), which is what makes
its theorems independent of timing. `RunQueue` is the abstraction: processes arrive,
are served from the front of their line, come back to its end or leave, and are taken
out of the line when killed. The queues of the code are its lines, what the CPUs hold
is `running`, and a process that was ever more than loaded has `arrived`. Which level
is served, the budgets, the pointers in the pcbs and the list of running processes
stutter.

**Kernel.** One program counter per CPU follows `cpu_routine`, `run` and
`__sys_killall` in the order of the code, and one the loader. The check in `run`, the
fetch, and the read and write of `proc->pc++` are four steps. The clock is
`SlotBarrier`, justified by `TimerImplementsBarrier`. `FileName` and `Code` abstract the
files: an instruction is `Calc` or a system call with its number, looked up in
`SyscallTable` as `syscall.c` does; an unknown number does nothing. `load` keeps
`NameRoom` letters of a name (`Path`), and `killall` compares with what is left. The
order in which `killall` meets several victims of one list is left open.

**Memory.** An allocation that fits a free region is one step: it runs under
`mmvm_lock` and touches only its own process. One that grows the area is a step per
frame, with `find_victim_page`, the two halves of `MEMPHY_get_freefp` on swap, and
the copy as separate steps, because page faults of other processes take the same
swap list without the lock. A thread that unlinks a node another has already freed
either dies or stores back the list it read. A frame's bytes are abstracted to the
page they belong to, and to whether a byte meant for another page has been stored among
them (`Whole`, `Mixed`). `Copied` is `__swap_cp_page`; `ReadByte` is the end of
`pg_getval`, and `WriteByte` that of `pg_setval`: it stores into the frame of the number
`pg_getpage` returned, whosever data that frame has, and leaves them `Mixed` if they are
not of the page the store was meant for. The address is not compared with the size of
RAM, so that with a number behind it the simulator may die (`AccessDies`). `RamOf` and
`SwapOf` are the frames behind the pages of a process; with `mapped`, `live`, `lostRam` and
`lostSwap` they are the model's own records, of which the properties speak: the pages this
process, not an earlier one of its place, has mapped; the regions it has not freed; the
frames of processes that ended. `Exit` is the end of a process and the load of the next
one: no frame is given back, and the page table and the symbol table of the new process
hold zeros or what the old ones held, as `malloc` pleases.

**Pte.** An entry is two flags and the number in bits 0-25. Frame number, swap type and
swap offset are parts of that number, computed with `%` and `\div` as the masks of
`mm.h` do, so that they overlap as in the code: `pte_set_swap` leaves `present` set and
overwrites the frame number, and `pte_set_fpn` leaves the upper bits of a swap offset.

## 3. Runs

Passing runs (TLC finishes without error):

| Run | Question | Instance |
|---|---|---|
| `MCTimer` | does `timer.c` implement the barrier, lose no wakeup, and end? are the two writers of `done`, and the readers of `_time`, ever concurrent? | 2 devices, clock to 2 |
| `MCSched` | one place per process, budgets, no idling beside work, and one line of processes per level, with lists that overflow | 3 processes, 2 levels, lists of 2 |
| `MCKernelCalc` | does the get/put/remove/stop protocol keep its lists, and do every process and every thread end? | 2 CPUs, 3 processes, 2 levels, one late arrival |
| `MCKernelKill` | with victims that run, are put back and got again meanwhile: does `killall` miss nobody, store only to live victims and return, does a process stay on one CPU at most? | 2 CPUs, a killer and two victims of a name as long as `load` keeps, quantum 1 |
| `MCMemory` | frames accounted for, data kept with their page and damaged by stores to swapped pages only, regions disjoint and mapped, allocations undone when they fail, while processes end and others inherit their tables | 2 careful processes that are replaced, 3 frames of RAM, 2 of swap |
| `MCMemoryWild` | RAM, regions and the eviction list when programs free twice, touch what they freed or never had, and take page faults without the lock; is `mmvm_lock` always released? | 2 careless processes with one region id each, a page behind every region, 4 frames of RAM |

Runs that end in a violation. Each checks what a comment or a recorded output of the
repository says:

| Run | Said | Done by the code |
|---|---|---|
| `MCKernelDangling` | `sched.c:243`: a pcb marked by killall "dont need remove" | `put_proc` queues it again, it is listed as running, and is freed while listed (`sched.c:129`) |
| `MCKernelUndead` | `sys_killall.c:100`: killall terminates the process | the CPU's `proc->pc++` writes back the old pc (`cpu.c:70`) |
| `MCKernelRecycled` | `sys_killall.c:149`: killall unlocks and returns a count | a stale `running_list` from `malloc` makes it loop with the lock held (`loader.c:37`) |
| `MCKernelShort` | `os.c:110` and `output/os_syscall_list.output:20`: the CPU stops | it waits for `finished`, which nobody is left to set (`os.c:86`) |
| `MCMemorySwapped` | `libmem.c:298`: the page is brought back from swap | the present bit stays set, so it never is (`mm.c:56`) |
| `MCMemoryVictim` | `mm.c:160`: no victim is an error | a list of one page is a null dereference (`libmem.c:506`) |

The consequences stay in the model: in the passing runs a killed process may come back,
a page that was swapped out is read and written through the wrong frame, and a freed pcb
may stay listed. The write does damage: it puts a byte into the data of another page, of
the same process or of another one, also if all programs touch only what they allocated.
`PagesPreserved` therefore claims of the frame an entry names that it has the data of that
page and of no other, not that every byte of them is the owner's. `DataStay` says that
nothing else changes them: as long as a process has a page, its data are the same after
every step of anybody, wherever they have moved, unless the step is a store to a page in
swap (`StrayStore`), which may mix a byte into them. Without that exception TLC refutes
it.

The other properties of those runs hold all the same, with one exception that
`KillMissesNone` names. A process that a `killall` unlinked while its CPU was about to
put it back (`put_proc` has overwritten the mark, and waits for `queue_lock`) is for a
while in no list, and a *second* `killall` misses it; TLC shows this as soon as two
processes call `killall`. `MCKernelKill` has one that does, because with two of them the
recycled pcb of `MCKernelRecycled` makes `KillReturns` fail; that nothing else is missed,
by any number of them, is the theorem `KillallMissesNone`.

`PROJECT.json` gives, for each property of a passing run, a plausible bug in the code
(an operator named `X_Something` before the definition `X`) under which TLC finds the
property violated.

**Bounds.** `ClockCap` saturates the clock: users only compare it with start times,
and the barrier's own properties do not depend on it. Two CPUs are what the races need
(one runs, one kills, or both get); a third would only add a bystander. Two levels are
the least with a budget of one slot and of two, which a quantum of two exhausts. In
`MCKernel` queues hold three entries, one for each process: as the code stands, a full
queue drops a process (`queue.c:12`), and `NoProcessLost` holds only while at most
`MAX_QUEUE_SIZE` processes share a level. `MCSched` overflows the list of running
processes on purpose, and three processes are the least for a line of two to be
reordered while a third runs. `NameRoom` is 2 where `load` has room for 16 characters;
the victims' name has exactly that many.

In `Memory`, `HeapPages` bounds the growth of a process (named in `AllocGrows`) and
`MaxFree` the length of its free list (named in `Free`). `RamFrames` is below what two
processes ask for together, so that eviction, failure half way and full swap all occur.
With pages of two bytes, a request of 3 bytes leaves a byte of its second page free, and
a freed region of 3 serves a request of 2. `MCMemoryWild` has one region id: freeing it
again and again, allocating it anew while the old range is free, and touching it freed or
never allocated need no second one, and the stores through wrong frames already make for
many contents of RAM; two ids, and regions that are disjoint, are `MCMemory`'s. `MCMemory` has `SwpType` 1, a value of the
field that nobody assigns and that is not the 0 one hopes for. `WildPages`, the pages a
careless program touches behind its regions, lie beyond `HeapPages`: if the area grew
over a page that a fault had mapped before, `vmap_page_range` would overwrite its entry
and lose the frame (hazard `mm.c:108`), and `RamFramesAccounted` and `FifoIsOnline` would
not hold. `MemoryAssumption` says so, and the theorems about these two rest on it.

Constants replaced by numbers smaller than in the code: `MAX_PRIO` 140,
`MAX_QUEUE_SIZE` 10, `PAGING_PAGESZ` 256. The widths of the fields of a page table entry
are those of the code.

**Deadlock** is checked in every run: the models stop only in the steps `Terminated`,
`AllStopped` and `Halted`.

**Fairness.** Every thread of the host keeps running: weak fairness of each CPU, the
loader and the clock (`Kernel`), of `timer_routine` and of each device *inside* a call
(`Timer`), and of a process inside a memory call (`Memory`). Calls themselves need not
come. Mutexes of `timer.c` are granted with strong fairness, since a spurious wakeup
may take one any number of times. `queue_lock` needs weak fairness only: contenders
reach the end of their slot and wait for the clock. `EveryArrivalReleased` assumes that
the other devices keep ending their slots. A violated liveness property (`MCKernelShort`,
`MCKernelRecycled`) is violated under the same fairness.

**Symmetry** is used in the `Memory` runs without liveness properties (processes and
region ids) and in `MCSched` (the two processes of equal size and priority). In every
`Kernel` and `Timer` run the threads are told apart.

## 4. Proofs

`TimerProofs` proves, for every finite or infinite set of devices and every
`ClockCap`, that `SafeSpec` implies `[]TypeOK`, `[]NoDataRace` and the barrier's
`SafeSpec`. The invariant is

* `ListInv`: the list holds every attached device once;
* `FlagInv`: `done` and `fsh` tell where the device's thread is;
* `LockInv`: who holds which mutex, by program counters;
* `StageInv`: how far `main`, the clock thread and the devices have come;
* `SlotInv`: every device the scan has passed, and every one still to be released, is
  done or finished, and the two counters are equal only if all counted are finished.

`NoDataRace` alone is not inductive: that the clock clears `done` only while the device
is past its store follows from `SlotInv`. For the refinement, `SetDone` is the arrival,
`SetFsh` the departure, `TimeStep` the tick, `Compare` or `LoopHead` the close, and all
other steps stutter; `ClearDone` stutters because of the mapping of unreleased devices.

`SchedProofs` proves, for every set of processes, priorities, code sizes, quantum and
queue length, `SchedTypeOK`, `OnePlace`, `SlotsInRange` and `WorkConserving`. The
invariant is

* `Places`: no ready queue holds a process twice, and a queued process is admitted,
  on its own level, and held by no CPU;
* `Budgets`: `SlotsInRange`, and `reset_slot = 0` only while every budget is full, so
  that a caller is turned away with levels out of slots only after a refill;
* `Counters`: the pc of a loaded or queued process is not behind its code. This is what
  keeps a grant from being negative, and it needs that whoever overwrites a pc either
  holds the process or stores the size of its code.

It rests on lemmas about `enqueue`, `dequeue` and `remove_proc`: what they keep, and
that lists without duplicates stay so. From the same invariant follows
`SchedulerIsRunQueue`, that `Sched` implements `RunQueue`: `add_proc` is an arrival,
`get_proc` the dispatch of the head of a line (the invariant gives that all of a level's
queue has one priority, so the first of the highest is the first), `put_proc` comes
back, `remove_pcb` and the frees end, `kill_in_queue` takes one out of its line.

`KernelProofs` proves, for every number of CPUs and processes, every code, and every
timing of `killall`, that the threads of `os.c` use the scheduler as `Sched` allows
(`ThreadsUseSchedProperly`: `SafeSpec => UsesSchedProperly`), so that what is proved of
`Sched` holds for them, and that no process is on two CPUs (`NeverOnTwoCPUs`). The
invariant is that of `SchedProofs`, instantiated for the processes the CPUs hold, and

* `Locals`: the types of the threads' locals;
* `Holding`: where in its loop a CPU has a process and where it has none, and that
  `killall` marks a victim it has found;
* `InCode`: a CPU that puts back, runs or increments the pc of its process does so with a
  pc that was in the code when read. This carries `Counters` over to threads that write
  back what they read before a `killall`;
* `Loading`: the loader admits only processes of the list;
* `OneCPU`.

The two support each other: a process in a queue is on no CPU (`Places`), so what
`get_proc` returns is on no other one (`OneCPU`), which `Places` needs in turn. Each
action has its lemma; those that leave the shared data alone share `PrivateStep`.

`KillallProofs` proves what the list of running processes and the ready queues hold
while CPUs and any number of `killall`s change them. `ListInv` is the invariant of
`KernelProofs` and

* `RunningOnce`: the list of running processes holds nobody twice (so that `remove_proc`,
  which removes one entry, removes the process for good), and of those on no CPU only
  freed ones;
* `Mutex`: `queue_lock` is held while a CPU is in `killall`, and only one CPU is;
* `Freeing`: a CPU about to free a process that is not marked has taken it off that list
  (`remove_pcb` goes straight to the free only if it read a mark), removing starts at the
  end of the code, and a CPU that left has no process;
* `Victim`: between the stores of `killall`, a victim that is not marked is admitted, and
  no CPU is at the point where it frees it without taking the lock;
* `RoomInv`, if `Room`: nobody is lost; and a process on a CPU, but for the moments in
  which it is put back or removed, is listed as running, or marked, or being marked.

`VictimIsAlive` needs no hypothesis: it holds also when queues overflow. It is `Victim`,
which is inductive only with `Freeing` (for the CPU that reads the mark in `remove_pcb`)
and `Mutex` (no CPU can go through `remove_lock` meanwhile). `NobodyIsLost` and
`KillallMissesNone` assume `Room == NumProcs <= MaxQueueSize`: a full ready queue drops
a process and a full list of running processes hides one from `killall` (`queue.c:12`).
That a list then has room is counting (`HasRoom`): it has no duplicates and lacks the
process that enters.
`RunningListIsExact` assumes besides that no instruction is a `killall`
(`NoKillall`); with one, a marked process is on a CPU and in no list, as it should be. Its
invariant `Unmarked` says that no mark is ever seen.

`KernelEndProofs` proves the kernel's `TypeOK` and `NoWorkLeftBehind`. Its invariant adds

* `Quanta`: by place in the loop, what is left of the quantum. The type is not obvious:
  `run` takes a slot from what is left without a test, and what keeps it from passing -1 is
  that a quantum of 0 is given only to a process `killall` sent to its end, which the next
  look at the top of the loop removes;
* `Slots`: an arrived CPU is in `next_slot`, one that left has returned, the clock is over
  when all have left. That the clock has a cap, the last start time, is `CapIsTime`;
* `Flags`: `done` is set where the loader has said so, `finished` only after it, CPUs stop
  only after it, and all processes before `next` have been admitted;
* `SomeoneLooks`: from the slot in which the last process was admitted on, if a process is
  ready some CPU has a process or has yet to look for one. A CPU gives up only on empty
  queues (`NothingReady`, from `SchedProofs`), and one that puts a process back looks after
  it did. The flags may be late or early; it is this that makes stopping right.

`NoWorkIsLeft` assumes `Room` and that there is a CPU.

`RegionsProofs` proves of the operators that first fit is built from, for every size and
page size, that what is taken and what is left of a region are apart and inside it, and
that the pages of a request cover it. `ListFacts` has what head, tail, front, joining and
reversing do to the elements of a list and to lists without duplicates.

`MemoryProofs` proves, for any processes and any sizes of RAM, swap, pages and requests,
every invariant the `Memory` runs check. `MInv` is `TypeOK` and

* `LockInv`: `mmvm_lock` is with the process in the middle of an allocation;
* for each process, `LocalAt`: the frames it has and still needs add up to its request,
  its victim is a page in RAM and no candidate any more, what an access found is what the
  entry says, and the page of a careful program's access is one it mapped; `AreaAt`: the area is whole pages, all mapped, and only wild pages are mapped
  behind it; `BelowAt`: no region reaches behind the break; `FifoAt`: candidates are in RAM
  and listed once; and, of careful programs, `DisjointAt`: no byte is in two regions;
* `RamInv`: `RamApart`, no two entries name one frame, and `RamSets`, the free list, the
  frames in the hands of an allocation, those behind pages and the lost ones are disjoint
  and all of RAM;
* of careful programs, `SwapInv`: the same for swap, where nothing is in anybody's hands
  between two steps except that the head read under the lock is still the head; and
  `PagesPreserved`.

`DataMoves` is `DataStay` for one step. Each step is shown to satisfy it, and
`PagesPreserved` follows where it is used again (`MovedArePreserved`: data that moved as
they were, or with a stray byte, are still those of their page, so that only what a step
maps anew is left to look at). For `WriteByte` it needs that the frame of a page in RAM is
behind no other page (`RamApart`): an access that found a number in an entry of a page in
RAM stores into the frame of that page, and what it changes of others it can change only
through the entry of a page in swap. `PagesArePreserved` and `DataStays` are the
theorems.

Counting places, as `RamFramesAccounted` does, is not a form to do induction on; the
theorem derives it from `RamSets`. Each action has a lemma `...Keeps`, which uses that an
action of one process leaves the others alone (`OthersKept`), and the entries' bit fields
enter through `SetFpnFacts` and `SetSwapFacts`: a frame number or a swap offset read back
from an entry is the one written, although the two overlap.

The hypotheses: `Scope == Careful \/ ~Ends` for `MemoryTypeOK`, `RamFramesAreAccounted`,
`CandidatesAreOnline` and `RegionsAreBacked`, `Careful` for the others. A careless program
that inherits a page table which is not cleared can fault on a page it will grow over, and
`vmap_page_range` then overwrites the entry (hazard `mm.c:108`). Without inheritance that
cannot happen in the model because `MemoryAssumption` keeps `WildPages` beyond `HeapPages`;
it is an assumption about programs, not something the code sees to. A careless program takes
swap frames without the lock, so that two may get one, and frees regions twice, so that
they overlap. Neither is a weakness of the proof: `MCMemory` and `MCMemoryWild`
satisfy them, and without them TLC refutes every one of these properties with one or two
processes (of `TypeOK`, the victim's frame number: it comes from an entry evicted twice).

Assumptions: those named in the modules. Priorities are below `MAX_PRIO`, quantum and
code sizes at least 1, the queue length at least 1, the loader is no CPU.

Every safety property of a passing run is a theorem. Only model-checked: liveness
(`EveryArrivalReleased`, `ShutsDown`, the liveness half of `ImplementsBarrier`,
`Terminates`, `EveryProcessEnds`, `KillReturns`, `LockReleased`), which is out of the
prover's reach under fairness. What is false is shown by the violation runs.

## 5. Abstractions to know about

* A local pointer to a process its thread has put back or freed is `None`: the code
  assigns it again before it reads it.
* A pcb that was freed while a list still has it has lost its name (`Matches`), and its
  memory becomes no later pcb, though the *content* of that memory does (`Load`).
* `remove_pcb` has a branch for a pcb whose `running_list` is NULL. `get_proc` sets that
  pointer and only the CPU's own `put_proc` clears it, so that no CPU takes the branch;
  `RemovePcb` is not enabled there.
* A read or write at an address behind the storage of RAM, which a swap entry taken for a
  frame number can give, ends the simulator or touches no frame. Which other structure of
  the simulator it would hit is not followed.
* `killall` knows its victim's name. The code reads it with `libread` under
  `queue_lock`.
* Programs allocate at least one byte, and never call `memmap` themselves.
* `MCMemory`'s programs touch and free only what they have allocated; those of
  `MCMemoryWild` do not keep to that, but start from cleared tables.
* A new page table or symbol table holds zeros or what its place held before, each as a
  whole. `vm_next` is taken as NULL, and `active_mswp_id` as the constant `SwpType`
  (neither is ever set). The next process takes the place of the one that ended at once.
* Printing, formatting and exit statuses nobody reads are left out.

## 6. Plan

1. *(done)* Clock and its abstraction, queue, scheduler, kernel threads with killall,
   regions, paging; runs for each; proofs about clock and scheduler.
2. *(done)* The run queue the scheduler implements, checked and proved; the kernel's
   threads as users of the scheduler, proved; system call table; cut names; page table
   entries by their fields; processes that end and tables that are not cleared; programs
   that free twice.
3. *(done)* Proofs about killall, the lists and the end of the kernel; about regions, and
   about memory: every safety property of a passing run.
4. An abstract allocator, of regions that are handed out and taken back and bytes that
   keep what was written, and `Memory` as an implementation of it for careful programs
   whose pages stay in RAM.
5. Compose Kernel and Memory: killall reading its victim's name through the page table
   with `queue_lock` held. More than one swap device, once something sets
   `active_mswp_id`.

## 7. Not modelled

`mem.c` and `paging.c` (the other build); `libstd.c`, the bodies of `sys_listsyscall.c`
and `sys_xxxhandler.c` (they print and keep no state) and `syscalltbl.sh`; the loop of
`killall` that reads a name byte by byte (`sys_killall.c:91`); `read_config` and the
parsing in `load` (file input; its results are the constants of `MCKernel`);
`queue_empty`, `free_pcb_memph`, `init_pte` and `used_fp_list`, which nothing calls or
reads; the sequential mode of the memory devices (never configured); and the branches
without `MLQ_SCHED`.
