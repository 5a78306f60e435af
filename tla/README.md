# TLA+ models of the Mierdux kernel (BOMBOCLAAT-OS)

This directory holds TLA+ modules that model the kernel of BOMBOCLAAT-OS, the
TLC instances that check them, and theorems about them with proofs for TLAPS.
Paths below are relative to the root of the repository; `src/` is the source
tree.

The kernel runs on one x86_64 CPU. User programs enter it through `syscall`,
through `int 0x80`, through exceptions and through the timer and keyboard
interrupts. All of these run with interrupts disabled (with one exception, the tail
of the line input: see *Granularity* and *Heaps*), so the concurrency of the system is the interleaving of tasks at
the points where the kernel switches: the timer interrupt in user mode and in the
idle loop, a blocking `waitpid`, and the death of a task.

## Files

| file | what it is |
|---|---|
| `Tasks.tla` | the task component: creation, scheduling, waiting, signals, termination, reaping |
| `Processes.tla` | the abstract process interface a user program relies on |
| `TasksRefinement.tla` | the mapping under which `Tasks` implements `Processes` |
| `MCTasks.tla`, `TasksCore.cfg`, `TasksFair.cfg` | the instances for TLC |
| `TasksProofs.tla` | theorems about `Tasks` for every number of tasks and table length: that it implements `Processes`, its run queue and its waits |
| `Descriptors.tla` | descriptor tables and open files over the life of the processes |
| `MCDescriptors.tla`, `Descriptors.cfg` | its instance for TLC |
| `Frames.tla`, `MCFrames.tla`, `Frames.cfg` | the physical memory manager, and memory maps for it |
| `AddressSpace.tla`, `MCAddressSpace.tla`, `AddressSpace.cfg` | page tables, kernel stacks and heaps of the tasks, over `Frames` |
| `UserMemory.tla` | the abstract memory interface of user programs, which `AddressSpace` implements |
| `ResourceProofs.tla`, `AddressSpaceProofs.tla` | theorems about `Frames` and `Descriptors`, what the kernel counts; about `AddressSpace` |
| `Heap.tla` | the kernel heap |
| `CallMemory.tla` | what a system call takes from the kernel and gives back |
| `MCKernelHeap.tla`, `KernelHeap.cfg` | the instance of `Heap` and of `CallMemory` |
| `UserMalloc.tla` | the heap of a user program |
| `Allocator.tla` | the abstract allocator both heaps implement |
| `HeapProofs.tla` | theorems about `Heap` with `CallMemory` |
| `ProgramProofs.tla` | theorems about `ExecImage`, `UserMalloc` and `Format`: the memory of a program and the formatter |
| `UserIOProofs.tla` | theorems about `UserCopy` and `Console`, what passes between a program and the kernel |
| `DataLemmas.tla` | lemmas about numbers, division, recursion, sequences and lists of blocks that the proofs share |
| `ExecImage.tla`, `MCExecImage.tla`, `ExecImage.cfg` | ELF validation, the segment loop, the argument page |
| `UserCopy.tla`, `MCUserCopy.tla`, `UserCopy.cfg` | copies between the kernel and a program |
| `Screen.tla`, `Keyboard.tla`, `Console.tla` | the text console, `/dev/kbd`, and both composed with the line editor |
| `Terminal.tla` | the abstract page of text that `Screen` shows |
| `MCConsole.tla`, `Console.cfg` | the instance of `Console` |
| `Format.tla` | the formatter of `kprintf`, `log` and the programs' `printf` |
| `MCLibrary.tla`, `Library.cfg` | the instance of `UserMalloc` and of `Format`, the library of the programs |
| `Registers.tla`, `Context.tla` | registers on their way through the entry code, the switch, fork, exec and signals |
| `UserContext.tla` | the registers as a program sees them, which `Context` implements |
| `MCContext.tla`, `Context.cfg` | the instance of `Context` |
| `ContextProofs.tla` | theorems about `Context` |
| `Files.tla`, `MCFiles.tla`, `Files.cfg` | file contents: the archive walk, read and write |
| `PROJECT.json` | components, runs, mutants, hazards, theorems, and the source lines of every definition |

## Inventory

Status: **M** modelled, **P** partly modelled, **-** not modelled.

| component | sources | state | operations | talks to | status |
|---|---|---|---|---|---|
| Task lifecycle | `core/tasks/tasks.c`, `fork.c`, `exit.c` | `tasks[]`, `task_t` (state, parent, children, next), `next_pid` | fork, spawn, exit, waitpid, terminate, reap, reap_orphans | scheduler (states, run queue), address space, file table, heap | P |
| Scheduler | `core/tasks/sched.c`, `arch/x86_64/tasks/switch.c`, `cpu/irq.c` | `current_task`, the circular list through `next` | `sched`, `pick_next_task`, timer tick | every blocking or dying path | M |
| Signals | `core/tasks/ipc/signal.c` | `pending_signal`, `sigterm_handler_rip` | send, execute, check on return to user mode | terminate, waitpid (EINTR), exec | M |
| System call dispatch | `core/syscall/syscall.c`, `arch/x86_64/int128.c` | none of its own | the call table, the return path | everything | P |
| Exceptions, page faults | `core/memory/pfault.c`, `cpu/cpu_exc.c` | none of its own | grow the user stack, or end the task | address space, terminate | P |
| Exec | `core/tasks/exec.c` | the half-built image | validate, load segments, build image, copy arguments | VFS, address space, tasks | P |
| Physical memory | `core/memory/pmm.c` | bitmap, `used_frames`, `usable_frames` | alloc, alloc contiguous, free, init | address spaces, heap, kernel stacks | M |
| Virtual memory | `core/memory/vmm.c` | the page-table trees | map, unmap, resolve, clone, free | physical memory | P |
| User memory access | `core/memory/userspace.c` | none | range check, copy in and out, string copy | virtual memory | M |
| Kernel heap | `core/memory/kmalloc.c` | block list | kmalloc, kfree, aligned, realloc | everything that allocates | P |
| VFS, descriptors | `fs/vfs/vfs.c` | descriptor tables, `vfs_file_t` (offset, ref_count) | open, read, write, close, delete, mount | tmpfs, devfs, fork and reap | P |
| tmpfs | `fs/tmpfs/tmpfs.c` | directory tree, file size and content | lookup, mkfile, mkdir, read, write, delete | heap | P |
| devfs, fat32 | `fs/devfs/devfs.c`, `fs/fat32/fat32.c` | device list; nothing mounts fat32 | register, lookup | VFS | - |
| Keyboard | `core/drivers/keyboard.c`, `core/memory/stack.c` | a bounded stack and a separate byte count | interrupt handler, read | devfs, system calls | M |
| Boot, initramfs | `arch/x86_64/init/start.c`, `core/initramfs.c` | - | straight-line setup, the walk over the archive | all | P (`Init`, `Files`) |
| Console | `core/drivers/screen.c`, `lib/string.c` (`input`) | framebuffer ring, cursor, `fb_offset`; the line being read | putc, scroll, cls, read a line | keyboard controller, system calls | P |
| Interrupt controllers, descriptor tables, ACPI, ATA, serial | `arch/x86_64/...`, `core/drivers/...` | device registers | device I/O | - | - |
| Kernel library, panic | `core/kprintf.c`, `lib/...` | - | formatting, strings | - | P |
| User heap | `bomboclaat-os/lib/malloc.c` | block list over sbrk | malloc, free | sbrk | M |
| User programs and their library | `bomboclaat-os/...` | - | any sequence of system calls; formatting | - | P (the environment of the other modules; `printf`) |
| Boot loader headers, fonts, C++ stubs, RISC-V header | `include/boot`, `include/fonts`, `cpp`, `include/riscv64` | - | vendored, generated or unused | - | - |

What makes each part right, and what is hard about it:

* **Tasks.** One parent per task, agreed on by the pointer and by the list; a
  guardian for every zombie; no freed struct reachable from the run queue, the
  table or a sleeping `waitpid`; no lost wake-up; exit statuses delivered once.
  Hard: deaths, signals and waits in any order; a pointer held over `sched()`;
  ends of parents with running, sleeping and dead children.
* **Scheduler.** Exactly one RUNNING task; the kernel task only when nobody else
  can run; nobody READY is passed over for ever (unless somebody reads a line that is never
  typed: see *Fairness*). Hard: insertion at the head of the queue while the walk goes on, and
  a walk of bounded length.
* **Signals.** A SIGTERM with a handler stays pending until a return from a trap
  enters the handler, ends a wait early, and goes only with the task or its image.
* **Frames.** A frame the search may hand out is RAM, is not part of the bitmap, and is
  nobody's; the count of used frames does not drift. Hard: memory maps whose
  entries end anywhere, and the run counter of the contiguous search.
* **Address spaces.** Every frame is free or held in exactly one place; a failed fork, exec,
  spawn, sbrk or stack fault gives back what it took, and a program sees it as a call that did
  nothing. Hard: failure in the middle of a nested loop, at any frame.
* **Heaps.** The block list partitions the heap; no two live blocks overlap; freed
  neighbours are one block. Hard: long sequences of splits and merges, and the one `kfree` of the
  kernel that can be switched out between two stores.
* **Exec.** A header that passes validation never makes the loader read past the
  file or write outside the image area; the image is the one the file
  prescribes. Hard: unsigned words of any value, segments that share pages.
* **User copies.** Exactly the bytes the program could access itself, page by page.
* **Descriptors.** `ref_count` equals the number of table slots that hold the
  file, over fork, close, exit and reap; an offset is shared by those who
  inherited it.
* **tmpfs.** The content is as large as `size` says. It is not: see *Finding*.
* **Console.** The ring shows what a plain page of text would; the line in the buffer is the
  line on the screen. Hard: wrap, scroll and backspace at the same character.
* **Keyboard.** The separate count agrees with the stack, and the stack stays in its
  array. Hard: the queue at its limit.
* **Formatter.** Every directive prints what it means and takes its own argument.
* **Entry and switch.** A program finds its registers again behind an interrupt, a fault, a call
  and a wait; so does kernel code. Hard: the layouts of a stack are agreements between
  assembly, C structures and frames made up by hand, and a stack left in one of them is resumed in another.

The hazards, each with its line and with the property that covers it or the
reason why none does yet, are in `PROJECT.json`.

## Plan

1. `Tasks` with `Processes`, the refinement, and the proofs. *Done.*
2. `Descriptors`: descriptor tables and reference counts over open, close, fork,
   exit and reap, composed with the interface `Processes`, and the proofs. *Done.*
3. `Frames` (bitmap and accounting against a set of owned frames) and
   `AddressSpace` (map, unmap, clone, free, sbrk, stack growth, exec's image)
   with every allocation failure, and `UserMemory`, what of it a program sees. *Done.*
4. `Heap` and `UserMalloc`, the block lists as sequences, both implementations of
   `Allocator`. *Done; aligned blocks have no caller.*
5. `ExecImage`: validation, the segment loop, the argument page. *Done.*
6. `UserCopy`: copies over a range that is partly mapped. *Done.*
7. `Console` with `Screen` and `Keyboard`, and the page of text it implements, `Terminal`. *Done.*
8. `Format`: the formatter. *Done.*
9. `Files`: the archive, read, write and offsets. *Done.* Path lookup is left out.
10. `CallMemory`: what every failing step of a call gives back. *Done.*
11. `Context`: register frames through stubs, switches, fork, exec and signals, and the
    abstract registers of a program, `UserContext`. *Done.*
12. Proofs: the rest of `Tasks` (the walk of the queue, no circle of waits), `Frames`,
    `AddressSpace`, `Heap`, `UserMalloc`, `CallMemory` and `Context`, with their refinements;
    `Console` with `Screen` and `Keyboard`, `ExecImage`, `UserCopy`, `Format`. *Done; see* Proofs.
13. Path lookup in the tree of tmpfs with mounts; the search for the section
    `.sigterm`; the parser of the shell. *Open.*

Runs stay small: three or four tasks, two descriptors, a few dozen frames, a
heap of a few blocks. The modules use recursive functions and folds and no `RECURSIVE`
operator, so that all of them can be proved about.

## The task component

### Granularity

An action is everything the kernel does between two points where another task
can run. System calls, exceptions and interrupts enter through interrupt gates
or with `IF` masked, so a whole handler is one action, up to `sched()`. The
actions that end in `sched()` contain the whole of `pick_next_task` and of the
switch; what the task does when it is switched in again is a later action,
selected by `pc`:

| `pc` | the saved kernel stack resumes | code |
|---|---|---|
| `fresh` | in `ret_from_fork`, straight into user mode, without a signal check | `fork.c`, `sysentry.asm` |
| `user` | the task is in user mode (the current task only) | |
| `return` | behind the handler, in front of `signal_check_user` | `irq.c`, `syscall.c` |
| `wait` | in `waitpid`, behind `sched()`, with its local `child` | `exit.c` |
| `poll` | in `input()`, which polls the keyboard with interrupts off until Enter (the current task only) | `string.c` |
| `input` | in `int128_handler` behind `input()`, which ends with `sti` | `int128.c` |
| `idle`, `reap` | in `kernel_idle_loop`, at `hlt` or in `task_reap_orphans` | `start.c`, `tasks.c` |
| `gone` | never: a zombie, or no task | |

`poll` and `input` are the exceptions to the rule above. `input()` clears `IF` and polls the
keyboard without bound: nothing else happens in the machine until somebody types Enter. Then
it enables interrupts inside the kernel, so that the tail of that handler can be
switched out like user code; the `kfree` in this tail is the subject of *Heaps*. `reap` separates the iterations of
`task_reap_orphans`; no other action is enabled between them, since the code
holds interrupts off, and `CanResume` and `KernelStays` say so.

### State

| variable | code |
|---|---|
| `current` | `current_task` |
| `state` | `task_t.state`; `"FREE"` for a struct that is not allocated |
| `parent`, `children` | `task_t.parent`, `task_t.children` (as a set; only membership is ever used) |
| `next` | `task_t.next`, the circular run queue with `kernel_task` in it |
| `table` | the entries of `tasks[]` (which slot is never observed, only whether one is left) |
| `waitFor` | the local variable `child` of `waitpid` |
| `pending`, `handler` | `pending_signal`, `sigterm_handler_rip` |

Abstractions. A pid is identified with its struct: `next_pid` only grows, so a
pid names at most one struct as long as that struct is in `tasks[]`. The
overflow of `next_pid` after 2^31 tasks is left out. `Task` is the set of structs the
allocator can return, and any free one may be returned; that includes the init
task, which is any member of `Task` (this keeps the structs interchangeable).
Exit codes, registers, FPU images, frames and descriptors are not in
this module; `Context`, `AddressSpace` and `Descriptors` have all but the first. An error return of a call changes no task and is `Trap`. `Init` is
the state at the end of `kinit`, at the first `sched()` of boot, which is taken
by the same code as the idle loop's.

Between two actions `pending_signal` is zero or a SIGTERM that can be caught:
`signal_send` executes SIGKILL, and SIGTERM without a handler, at once. Nothing in
the tree calls `signal_send` at this commit (there is no such system call in the
table), so the constant `SignalsUsed` says whether a task may call it. Both
values are covered: the safety run takes `TRUE`, which has all the behaviours
of `FALSE`, the liveness run `FALSE`, and the theorems hold for both.

### Actions

| action | code |
|---|---|
| `TimerTick` | `irq_handler` for interrupt 32, `sched` |
| `Trap`, `ReturnToUser` | a call or interrupt that changes no task; the way back |
| `InputLine`, `LineTyped`, `InputReturn` | the `int 0x80` line input: into the polling loop, out of it, back from the tail |
| `Fork`, `Spawn` | `fork`; `spawn` with `task_from_image`; `task_link` and `task_insert` |
| `Execve` | `execve` that succeeds |
| `Exit`, `Fault` | `exit`, a fatal exception: `task_terminate`, `sched` |
| `WaitBlock`, `WaitInterrupted`, `WaitCollect` | the three ways one turn of the loop in `waitpid` ends |
| `IdleWake`, `ReapOrphan`, `IdleSleep` | `kernel_idle_loop`, `task_reap_orphans`, `task_reap` |
| `SignalKill`, `SignalSelf`, `SignalCatch` | `signal_send` with `execute_signal` |
| `RunHandler`, `NoHandler` | `signal_check_user` |

`Walk`, `FirstReady`, `PickNext`, `Preempted` and `Sched` are the scheduler: the walk
starts behind the current task, looks at `MAX_TASKS + 2` nodes and falls back to
`kernel_task`. Definitions marked `(fault: ...)` are no part of the model. Each
is a wrong version of the definition it stands in front of, as a plausible mistake
in the code would make it; substituting it must break a property, which shows
that the property depends on the code.

### The abstract specification

`Processes` is what a user program relies on: a process is not there, alive, or
dead and uncollected; a living process creates children; when it dies its
children get the root as guardian; a wait is for a living child of one's own and
ends by collecting that child, by a signal or by one's own death. It has no scheduler,
queue, table or `pc`. `TasksRefinement` maps `state` to the three phases,
`parent` to the guardian, and `waitFor` to the wait; every switch, trap, tick and
return is a stutter.

## The descriptor component

`Descriptors` composes the file side of the kernel with `Processes`, the
interface that `Tasks` implements: every process action of `Processes` is joined
with what the same call does to the descriptor tables. What `Processes` hides, the
scheduler and the queue, cannot matter here, since no handler that touches a
descriptor table is switched out.

| definition | code |
|---|---|
| `fdTable` | `task_t.fd_table`; all null for a struct from `task_alloc` |
| `refCount`, `inode`, `allocated` | the fields of `vfs_file_t`; the structs between their `kmalloc` and `kfree` |
| `Open`, `Close` | `vfs_open` with the first free slot and any free struct; `vfs_close` |
| `CloseAll` | the loops over `vfs_close` in `task_terminate` and `task_release` |
| `Inherit` | `task_inherit_fds` |
| `Fork`, `Spawn` | `fork`; `spawn`, whose `load_file` needs a descriptor of the caller for the time of the call (`CanLoad`) |
| `Die`, `Collect`, `Sweep` | `task_terminate`; `task_reap` from `waitpid` and from the orphan scan |
| `Wait`, `Interrupt` | `waitpid` that sleeps and that a signal ends; no descriptor changes |

`execve` keeps the table of the task and is a stutter here. A path is the inode
it leads to; lookup, mounts, flags and offsets are left out, and so is `vfs_delete`,
which nothing calls. A call that fails changes no table and is a stutter. The first
process starts with the empty table of `kernel_task`.

## The memory components

### Frames

| definition | code (`core/memory/pmm.c`) |
|---|---|
| `memmap` | the memory map of the boot loader |
| `bits`, `used` | the set bits of `bitmap`; `used_frames` |
| `owned` | no variable of the code: what the callers hold |
| `BitmapEntry`, `BitmapAddr`, `BitmapSize`, `Spare`, `Init` | `pmm_init` |
| `Take`, `AllocFrame` | `pmm_alloc_frame` |
| `Run`, `Scan`, `AllocContiguous` | `pmm_alloc_contiguous`; `Run` is its counter after each frame |
| `Put`, `FreeFrames` | `pmm_free_frame`, once or in a loop |

`LowestRun` is what the scan is for, and `ScanFindsLowestRun` says that it does it;
`AddressSpace` uses `LowestRun` on the strength of that.

### Address spaces

`AddressSpace` instantiates `Frames` with the frames its own state holds as `owned`. A
space is the tree below a `pml4`, a function from nodes to frames, as deep as the
hardware's and with a fanout of two. One call is in progress at a time (`op`), split at every
`pmm_alloc_frame`, each of which may find no frame left (`OutOfFrames`).

| definition | code |
|---|---|
| `space`, `kstack`, `brk` | `task_t.pml4`, `kstack_frames`, `mm.brk` |
| `loaded` | `cr3` |
| `NewRoot` | `vmm_init` for a new space |
| `NewLeaf`, `NewTable`, `MapPage` | a page's frame; `vmm_map_page` with the tables on the way |
| `BeginFork`, `FinishFork`, `UndoFork` | `fork`, `vmm_clone_user_space`, `task_alloc` (kernel stack first) |
| `BeginSpawn`, `FinishSpawn`, `SpawnFails`, `UndoImage` | `spawn`, `image_build`, `task_from_image` (kernel stack last), `image_free` |
| `BeginExec`, `ExecSwap`, `ExecLoad`, `ExecFree` | `execve`: the new space goes in, `cr3` is loaded, the old one is freed |
| `BeginGrow`, `FinishGrow`, `UndoGrow`, `Shrink` | `task_sbrk` |
| `BeginFault`, `FinishFault`, `UndoFault` | the stack page of `core/memory/pfault.c` |
| `Die`, `Sched`, `Reap` | `task_terminate`, the reload of `cr3` in `sched`, `task_release` |

`UserMemory` has no frames and no half-done calls: each call takes effect as a whole
or is no step. Under the mapping in `MCAddressSpace` a space under construction
and the pages sbrk has mapped above the break are invisible. The families and the
queue, which say who may reap and who runs next, are in `Tasks`; here any task may reap
a dead one, which only adds behaviours.

### Heaps

| definition | code |
|---|---|
| `Heap!list`, `live` | `free_list` as a sequence; the sizes in the chunk headers of the pointers in use |
| `FirstFit`, `Split`, `Take`, `Kmalloc` | `_kmalloc`, `split_block`, `kmalloc` |
| `Release`, `Merge`, `Kfree` | `_kfree` with the loop at its end, interrupts off |
| `walk` | where each line reader is in its `kfree(tmpbuf)`, with `cur` |
| `LineFree`, `Enlarge`, `Unlink`, `Advance`, `FreeDone` | the same `_kfree` store by store, as `int128.c:83` calls it with interrupts on |
| `overlapped` | no variable of the code: some call ran while a reader was inside |
| `Realloc` | `realloc` as `tmpfs_write` calls it |
| `UserMalloc!Reuse`, `Extend` | `malloc` with and without a free block; `Extend` calls sbrk |
| `UserMalloc!Merge`, `Free` | `coalesce_free_blocks`, `free` |

`Allocator` says what both promise: an address names bytes of the arena that belong to
nobody else until it is given back. Callers are taken to stay within what they asked
for, and sizes near 2^64 are left out. One caller does not: `join` in the walk over the archive
(`src/core/initramfs.c:80`) allocates no byte for the terminator, and for names that fill the
rounded block it writes a zero into the header of the next block.

Calls of the kernel heap run with interrupts off and are one action each, but for one. The
line input ends with `kfree(tmpbuf)` behind the `sti` of `input()`
(`src/core/arch/x86_64/int128.c:83`, `src/lib/string.c:386`), so a tick can switch tasks anywhere
in the loop of `_kfree`; in particular between the store that enlarges a block and the one
that unlinks its neighbour (`src/core/memory/kmalloc.c:149` and 150), where two blocks of the list
overlap. In the model this loop goes one store at a time, by any number of readers, of
any live pointer (which covers `tmpbuf`), and every other call may come in between. A call that comes in
sets `overlapped`. The code does nothing to keep it out, and what follows can be wrong: without
the condition on `overlapped`, TLC finds a `kmalloc` between the two stores after which the blocks no
longer tile the heap and bytes are handed out twice. So the properties say what holds up to the first such call, and
nothing about the heap behind it. A reader that is killed inside (no code does that at this
commit) never leaves, and every later call counts as overlapping.

### What a call holds

`CallMemory` follows execve, spawn, fork, open, close, read and write from one kmalloc, kfree, `vfs_open` or
`vfs_close` to the next. `held` is the set of blocks only the call knows, `fd` the slot
`load_file` uses in the program's own table, and `broken` records a block that is used or freed without
being held, or overwritten while it is. Every step may fail that can, at any time; that
`vfs_read` stops short (`LoadRead`) is what its interface allows, and no file system here does it. An allocation that fails
before a call has taken anything is no step. The dentry and the inode of a lookup are not in
`held`: no code frees them.

## Loading programs and copying

`ExecImage` takes a file with any program headers through `elf_validate` (`Valid`,
`SegmentOK`), the two loops of `elf_load` (`LoadPage`, `LoadSegment`, one page a step) and
`task_setup_user_stack` (`PushString`, `PushVector`). Words wrap around at `Word`, so that a check
written as a sum would be caught. `content` maps a byte of the image to the offset in the file it
was copied from; bytes outside are zero. Frames never run out here, which is the subject of
`AddressSpace`.

`UserCopy` is `core/memory/userspace.c`: the range check (`user_range_valid`), the
translation of a page (`Translates`), one turn of the loops of `copy_to_user` and
`copy_from_user` (`CopyPage`, `CopyFault`, `CopyDone`), and the string copy
(`StringPage`, `StringFault`, `StringTooLong`). `moved` is the physical address of each byte moved so far.

## The console

| definition | code |
|---|---|
| `Screen!fb`, `cursor_x`, `cursor_y`, `fb_offset` | the framebuffer as rows of glyph rows; the variables of `core/drivers/screen.c` |
| `RealRow`, `Drawn`, `Scrolled`, `Putc`, `cls` | `put_pixel`, `draw_char`, the `memset` of `scroll`, `putc`, `cls` |
| `Keyboard!top`, `data_stack_size` | the pointer of the stack and the byte count next to it |
| `keyboard_handler`, `keyboard_read` | the interrupt handler and read of `/dev/kbd` |
| `Console!buf`, `max_len`, `shift_pressed`, `caps_lock` | the locals of `input()` in `lib/string.c`, and the keyboard's modifiers |
| `irq` | the keyboard interrupt that stays pending while `input()` polls with interrupts off |
| `BeginInput`, `Key`, `Erase`, `Room`, `get_ascii` | `input()`: one key a step |
| `Interrupt`, `ReadKbd`, `PrintText`, `ClearScreen` | a key while no line is read; read of `/dev/kbd`; printing; the call that clears |

Columns are characters and rows are pixels. Colours, images and the device that shows single
pixels are left out. `Terminal` is a page of text with a cursor; `Shown` reads it off the ring.
Two limits of the code are assumptions here (`ScreenAssumption`): at a height that is no
multiple of the glyph's, `scroll` clears memory behind the framebuffer on some turns of
the ring, and at one that does not divide 2^32 the picture jumps when `fb_offset`
wraps around. Both belong to the hazard at `src/core/drivers/screen.c:197`.

## Registers

`Context` follows the registers of each program, and of the kernel code that is switched out,
through everything the kernel does with them. A value is a triple that says where it was made,
so two are equal only where the code copies one into the other. A stack is a sequence of values,
its top first.

| definition | code |
|---|---|
| `StubPushes`, `StubPops`, `SyscallPushes`, `SyscallPops`, `SwitchPushes`, `SwitchPops` | the orders of the instructions in `isr.asm`, `sysentry.asm`, `switch.c` |
| `registers_t`, `syscall_ctx_t` | the orders of the fields of the two structures |
| `Interrupt`, `InterruptReturn`, `Int128Return`, `SyscallEntry`, `SyscallReturn` | the stubs on the way in and out |
| `Acknowledge` | `apic_eoi()` in `irq_handler` |
| `SignalCheck`, `Checked` | what `signal_check_user` stores through its pointers; the mark and the handler it takes |
| `Switch`, `Sched`, `RetFromFork` | `sched()` with `cpu_switch_context`, the FPU images, `tss.rsp0` and `syscall_kernel_rsp`; the entry of a new task |
| `KernelFrame`, `ImageContext`, `ForkContext` | the frames that `build_kernel_frame`, `task_setup_user_context` and `fork` make up |
| `Fork`, `Spawn`, `Exec`, `Send`, `Kill`, `Exit` | the calls that make, replace or end a register frame |

The orders are written down apart from each other, as they are in the code; nothing in the
module makes them agree. `UserContext` has one register file per program and no stacks. The
mapping reads the file of a program off the bottom of its kernel stack, where an
interrupt or a call has left it, by the names of the structure's fields.

Who runs next is the subject of `Tasks`, so `Sched` may pick any task, and a wait is a `Sched`
in a call. A signal to a task without a handler, and a handler whose stack is not writable,
end the task (`Exit`). The one bound is `Numbered`: a program puts the number of a call, and not the
result of the last one, in `rax`. `ds` and `es` are left out, as nothing reads them in 64-bit mode.

## The formatter

`Format` has `vasprintf` of `core/kprintf.c` and its variant in
`bomboclaat-os/lib/stdio.c`, which differ in flags, padding and length (`lib`). The input is a
sequence of directives as the caller means them; `fmt` writes them down as characters, and
`Literal` and `Conversion` read them back, one turn of the loop each. `print_dec` and
`print_hex` compute in unsigned words, and their loops are recursive functions of the number of turns:
`Largest` is the number that a turn of the digit count compares with, `CountTurns` the first turn that ends it. A width
fits an `int`. The property holds for decimal numbers up to
`DecLimit`, which is 1410065407 for 32 bits: above it the loop that counts digits wraps
around, and a number comes out with up to 32 digits. Negative numbers are above it.

## Files

`Files` has the walk over the archive (`TakeEntry`, `EndOfArchive`), `vfs_open` and
`vfs_close` as far as offsets go (`Open`, `Close`), and `tmpfs_read` and `tmpfs_write`. Nothing calls
`mkfile`, so every file is an entry of the archive and its content lies there.

### Finding

`tmpfs_write` (`src/fs/tmpfs/tmpfs.c:149`) compares the offset and the length of a write, each alone, with
the size of the file, and never their sum with the memory of the content. After a
read of one byte of a file of four bytes, a write of four is neither beyond the offset nor longer
than the file: nothing grows, `size` becomes five, and the copy runs into the next entry of
the archive. The run `files_overrun` shows it against `ContentFits`, which is what the comment at
`src/fs/tmpfs/tmpfs.c:174` says of the memory of a content. Where the function
does grow a file, `realloc` reads a block header in front of a content that is not on the
heap; `Write` has that as the state `panic`.

## Runs

| run | specification | instance | states |
|---|---|---|---|
| `tasks_core` | `Spec`, signals on, symmetry over structs | 4 structs, `MaxTasks` 4 | 15,393 |
| `tasks_fair` | `FairSpec`, signals off, no symmetry | 3 structs, `MaxTasks` 4 | 33,002 |
| `descriptors` | `Spec`, symmetry over processes, files and inodes | 3 processes, 3 files, 2 inodes, 2 slots | 6,131 |
| `frames` | `Spec` | 48 memory maps of up to 21 frames, runs of 1 to 3 frames | 972 |
| `address_space` | `MCSpec`, symmetry over tasks | 3 tasks, 16 pages under 4 levels, 22, 27, 30 or 33 frames, 5 calls | 164,939 |
| `kernel_heap` | `MCSpec`, symmetry over readers | a heap of 320 bytes with five sizes and 2 line readers, or calls with 3 descriptors and 2 children | 995,265 |
| `library` | `MCSpec` | a heap of 216 bytes with three sizes, or words of 8 bits and pairs of directives | 34,656 |
| `exec_image` | `Spec` | words of 5 bits, pages of 4 bytes, 1 or 2 segments, up to 3 arguments | 20,590 |
| `user_copy` | `Spec` | pages of 3 bytes, 3 user pages and one beyond | 175,380 |
| `console` | `Spec` | 2 lines of 2 characters, a stack of 2, lines of up to 3 | 155,344 |
| `context` | `Spec`, symmetry over tasks | 2 tasks and the kernel task | 114,570 |
| `files_overrun` | `Spec`; a violation is expected | 2 files of 4 and 6 bytes, 2 open files | |

**`tasks_core`** checks these questions:

* `OneRunning`: no path through `sched()`, a wake-up or a signal leaves two running tasks.
* `FamilyConsistent`: `task_terminate` follows the children list
  and `task_reap` the parent pointer, in any order of deaths; they stay two views
  of one forest.
* `WaitTargetOwned`, `NoLostWakeup`: the pointer `waitpid` holds over
  `sched()` stays valid and its own; nobody sleeps for a child that is dead
  already, or with a signal to take.
* `QueueIsTable`: the run queue is one cycle over exactly the entries of `tasks[]`,
  and the bounded walk sees all of it.
* `IdleOnlyWhenAlone`, `ReapedByParent`, `DeadStayDead`, `TermNotForgotten`: action
  properties of switches, reaping, zombies and signals. The first also excludes a circle of waits,
  which would leave only the idle loop.
* `ImplementsProcesses`: the refinement.

**`tasks_fair`** checks `NoStarvation` and `ImplementsProcessesFairly` (a wait for a
dead child returns), both provided that every line that is read gets typed (`LinesAreTyped`), and
`AllDeadReaped` (when the last user task is dead, the idle loop frees every struct), which needs
no such condition: a task in `input()` is not dead.

**`descriptors`** checks that `ref_count` is the number of slots that hold the
file and that a struct is allocated exactly while there is one (`RefsExact`), that
what `task_terminate` closes leaves nothing for `task_release` to close again
(`OnlyAliveHold`), and that a descriptor that stays open names the same
inode and a struct that is still allocated, whatever the tasks that share it do
(`DescriptorStable`).

**`frames`**: `UsedExact`, `FreeIsSpare` and `ScanFindsLowestRun`, the three claims of *Frames* above.

**`address_space`**: `OwnedExactly`, that every frame that is not the kernel's is free or is
held in exactly one place, at each step of each call; `HeapMapped`, that between calls the
heap pages of a living task are those below its break; `LoadedLives`, that `cr3` never names a
freed root; `ImplementsUserMemory`, that calls are all or nothing.

**`kernel_heap`**, **`library`**: `BlocksTile` and `ListIsMemory`, the partition (which the
user heap relies on, since it merges by list order); `FullyMerged`, no two free
neighbours; `ImplementsAllocator`. Of the kernel heap they hold through every step of an
interruptible `kfree`, up to the first call that comes in while one is half done; between its
two stores the blocks overlap, and while it runs neighbours may be free. **`kernel_heap`** also checks `CallsGiveBack`: whichever step of a call
fails, it has given back what it took, once, and used nothing after giving it back.

**`exec_image`**: `LoadStaysInside` over headers with words of any value,
`LoadedExactly` against the image that the file prescribes, `ArgumentsFit` for the strings and the vector.

**`user_copy`**: `CopyExact`, that a call moves the bytes the program itself could access, in order, and
succeeds exactly when that is all of them; a string is not read past its end.

**`console`**: `ImplementsTerminal` and `LineShown`, with printing, scrolling and editing in any
order; `KeyboardInside`, that the pointer of the stack leaves its array in neither direction, and
differs from the count by at most the byte a full stack drops, until a full stack has been drained: then
it stays at its largest value, every byte is dropped and read returns 0xFF, until the
count has filled up once more.

**`library`** also checks `FormatExact`, against the meaning of each directive.

**`context`**: `KernelStateKept`, that C code of the kernel finds its registers, its place and its
stack as it left them; `InterruptsHeard`, that nobody is switched to with an interrupt
unacknowledged; `ImplementsUserContext`, that a program keeps its registers and that fork, exec,
spawn, signals and results change exactly what they should.

**`files_overrun`**: `ContentFits`, see *Finding*.

`IdleOnlyWhenAlone` says something about the code that is easy to overlook. The only
way to sleep is `waitpid` on a living child, so as long as a user task is alive
some user task can run, the kernel task does not get the CPU, and its idle
loop, the only caller of `task_reap_orphans`, does not run. A dead orphan keeps
its slot in `tasks[]` until all user tasks are dead. No doc promises
otherwise, so this is a property of the model and not a finding.

Why the bounds are enough. With `MaxTasks` 4 the table holds three user tasks next
to `kernel_task`: a parent, its child and its grandchild, or a parent with two
children, which is what the orphaning, reaping and waiting code tells apart; the
table also fills, so that fork and spawn meet a full one. The fourth struct
of `tasks_core` makes the allocator return a struct other than the one freed
last. A larger instance (four user tasks, signals, 859,000 states) finds
nothing else. Nothing in the module grows without limit, so there is no artificial
counter bound. `CHECK_DEADLOCK` is left on: the system never stops.
In `descriptors`, two slots and three processes let a file be held twice by one
process, by a parent and its descendants, and by siblings after the parent has
gone; three files let two stay open while a freed struct is opened again. A
count is at most 6, the number of slots, so nothing is bounded artificially.
`CHECK_DEADLOCK` is off there, since `Processes` has no idle loop and nothing
happens after the last process is collected.

In `frames` the boundaries of the map fall at and inside a page and a byte of the bitmap, the bitmap
takes part of a page, one page and more, and lies in either usable entry. In `address_space`
the largest machine lets three tasks live; on the others the frames run out at
every point of every call, the first included. Levels are those of the hardware; fanout 2
gives pages that share all, some and none of their tables. `MaxCalls` bounds a
sequence of calls to five, in which a task can be created, grow, be forked, replaced and reaped.
`CHECK_DEADLOCK` is off there because of that bound. The heaps are large enough for four
live blocks and small enough to be full; every block size is met that splits and that is
too small to. In the kernel heap a behaviour ends with the first call that overlaps a
half-done `kfree`, since nothing is claimed behind it; two readers are one more than can be inside
before that. The calls of `CallMemory` start there with an empty heap and nobody inside. In `exec_image` every address below `Word` is tried as an image, sizes and offsets on
both sides of every limit, and pairs of segments in all positions in and across a page; the
argument lengths reach the size of the page and pass it. In `user_copy` every page is missing, the
kernel's, read-only or writable, and ranges begin and end at every offset. In `console` the ring wraps around
in its height and in `Word` after two and four scrolls. In `library`
every number of a word is printed by every conversion, and every pair of directives
stands next to each other. Loading, copying and formatting end, and the panics of `Files` and `CallMemory` are final, so
`CHECK_DEADLOCK` is off in these. In `context` two tasks and the kernel task reach every pair of a
stack that is left and one that is resumed: in an interrupt of user mode, of the tail of a call or
of the boot stack, in a call, or never run.

### Fairness

`FairSpec` assumes three things. `WF(KernelPath)`: kernel code that has begun a
way back to user mode, an iteration of the orphan scan, or a turn of the wait loop
finishes it; interrupts are off and the code has no unbounded loop there (`input()`, which has one, is
not among these paths).
`SF(TimerTick)`: the local APIC timer is periodic and holds its interrupt pending
while `IF` is clear, so a tick is taken when interrupts are enabled again and
again, even by a task that spends its time in system calls. `SF(IdleWake)`: when the
kernel task gets the CPU again and again it sometimes passes `hlt` and scans, since
the scan is far shorter than a timer period. Nothing is assumed about user programs: they may
loop, never wait and never exit. Nothing is assumed about the keyboard either: `LineTyped` has no
fairness, and a task may stay in `poll` for ever.

That last case is real. `input()` masks the timer until somebody types Enter, and the `scanf` of
the programs (`src/bomboclaat-os/lib/stdio.c`) uses it, so as long as a prompt waits for its
user no other task runs, and TLC finds `NoStarvation` violated without a condition. Therefore
`NoStarvation` and `ImplementsProcessesFairly` are stated under `LinesAreTyped == []<>(pc[current] #
"poll")`: the machine is not polling from some time on for ever. It is a condition on whoever sits at the
keyboard, and stands in the properties and not in the specification, so that it is seen. No
doc promises progress without it.

## Proofs

Every theorem is about all values of the constants that satisfy the named assumption of the
module. TLC evaluates the assumptions in each run; what they say beyond types is justified below.

### Tasks

`TasksProofs` proves, for every finite or infinite set `Task` under
`TasksAssumption` (the kernel and null are not members of `Task`, `MaxTasks >= 2`), with and
without signals:

| theorem | statement |
|---|---|
| `Invariance` | `Spec => []IInv` |
| `TypeCorrect`, `OneTaskRuns`, `FamilySound`, `WaitTarget`, `WaitSound`, `QueueSound` | the conjuncts `TypeOK`, `OneRunning`, `FamilyConsistent` and `ParentLive`, `WaitTargetOwned`, `NoLostWakeup`, `QueueClosed` |
| `OnlyParentReaps`, `NoRevival`, `TermKept` | `ReapedByParent`, `DeadStayDead`, `TermNotForgotten` |
| `Refinement` | `Spec => ImplementsProcesses` |
| `QueueInvariance` | `Spec => []QInv`: one cycle, rooted families, a table within the bound of the walk |
| `WalkSound`, `KernelIsLast` | `QueueIsTable`, `IdleOnlyWhenAlone` |

The invariant. No conjunct of `IInv` is inductive alone. `NoLostWakeup` needs
`WaitTargetOwned`, since `task_terminate` wakes the parent and not whoever
holds a pointer to the task; that needs `FamilyConsistent`, since reaping
and orphaning change both sides of the family; that needs `ParentLive`, or a
freed parent's list would survive; `OneRunning` needs `CanResume`, or the walk
could switch to a task that cannot run; and all need `QueueClosed`, without which the
walk could end at a freed struct. The run `tasks_core` checks the conjuncts that say something to a reader; `TypeOK`, `ParentLive`, `KernelStays` and `CanResume` serve the proof.

The argument. `PickNextReady` and `SchedEffect` say what a switch does: the next task is the kernel
or a READY user task, and only the outgoing and incoming states change. The actions
then fall into a few shapes with one preservation lemma each (`QuietStep`,
`TimerTickStep`, `WaitBlockStep`, `ReapStep` for both reapers, `CreateStep` for fork and spawn,
`TerminateStep` and `DieStep` for all deaths, and one for each signal action), and
`StepIInv` puts them together. `SchedMoves` and `LifeStep` give the two action properties.

The refinement needs one more fact, `NoLeftovers`: a task outside `waitpid` holds no
child pointer (or a task that forks would count as waiting), and a freed
struct has no parent (or the death of its former parent would give it a guardian). The
proof carries it along: `StepRefines` shows for each action that it keeps
`NoLeftovers` and is a step of `Processes` or a stutter. `SchedPhase` says that
`sched()` changes nobody's phase, and `DeathRefines` covers every way to die.

The walk. That the queue is one cycle is stated without reachability (`OneCycle`): a set of
structs that is not empty, not all of them, and closed under `next` does not exist. `CycleGrows` and
`CycleShrinks` show that `task_link` and `task_reap` keep it. `WalkCovers` then follows the walk:
if it missed an entry, the structs it saw would be closed under `next`, or it would have
seen more different ones than the table has slots. `QueueFits` bounds the latter: the
table holds at most `MaxTasks` structs and the walk looks at `MAX_TASKS + 2` nodes.

The waits. `Rooted` says that every set of user tasks that is not empty has a
member whose parent lies outside it. If no user task could run, all living ones would be
asleep, each waiting for a living child of its own; these children differ, so, the table being
finite, every sleeper would be waited for and have its parent among the sleepers, which `Rooted`
excludes (`NobodyWaitsAlone`). So the walk, which sees every entry, finds somebody, and the
kernel task is chosen only when nobody is alive.

Only model-checked: the liveness properties `ImplementsProcessesFairly`, `NoStarvation` and
`AllDeadReaped`, which depend on fairness.

### Descriptors

`ResourceProofs` proves, for any finite set of processes and any set of files,
inodes and table length of at least one (`DescriptorsAssumption`):

| theorem | statement |
|---|---|
| `DescriptorsInvariant` | `DescriptorsSpec => []DescriptorsInv` |
| `RefsSound`, `DeadHoldNothing` | `RefsExact`, `OnlyAliveHold` |
| `StableDescriptors` | `DescriptorStable` |

The argument is about cardinalities. `Holders(f)` is the set of slots that hold
`f`. `Open` makes it a singleton, `Close` removes one element, `CloseAll` removes the
row of one process and `Inherit` adds one; `FS_RemoveElement`, `FS_Difference` and
`FS_Union` then give what the counts must do. `RefsExact` is not inductive alone: a
fork adds as many references as its parent has slots only if the table of the new struct is
empty before, which is `OnlyAliveHold`. Finiteness of the set of processes is needed
for the counts to be numbers. `DescriptorStable` follows, since only `Open` writes
`inode`, and only of a struct that no slot holds.

### Frames

`ResourceProofs` proves, for any set of memory maps, page size and run lengths
(`FramesAssumption`):

| theorem | statement |
|---|---|
| `FramesInvariant` | `Spec => []FramesInv` |
| `AccountsExact`, `NothingLost` | `UsedExact`, `FreeIsSpare` |
| `ScanCorrect` | `ScanFindsLowestRun` |

The assumptions about maps are that usable entries begin and end at pages (`FramesAssumption`) and
do not overlap (`EntriesApart`), which the boot protocol promises (`src/include/boot/limine.h` is its
header); entries of other kinds may begin and end anywhere and overlap, and entries may
come in any order. Only `AccountsExact` needs `EntriesApart`: `pmm_init` takes one off `used_frames` in
every turn of its loop, entry by entry and page by page (`Clearings`), so a page of two usable entries would
be taken off twice and its bit cleared once. `ClearedOnce` shows that without overlaps there are as many
turns as pages. `FramesInv` says that the set
bits are those the initialisation never cleared and those handed out, and that `used` is
their number. The scan is a recursive function over the frames. The proof
looks at the first frame where its counter would be wrong, and at the first run it would find late.

### Address spaces

`AddressSpaceProofs` proves, for any number of tasks, page layout, depth of the page
tables, machine size and set of shared frames (`AddressSpaceAssumption`):

| theorem | statement |
|---|---|
| `AddressSpaceInvariant` | `Spec => []AInv` |
| `FramesOwned`, `HeapExact`, `LoadedAlive` | `OwnedExactly`, `HeapMapped`, `LoadedLives` |
| `MemoryRefinement` | `Spec => ImplementsUserMemory` |

Two parts of the assumption are more than types. Frame 0 and the shared frames are the kernel's:
the searches of `pmm.c` begin at frame 1, the framebuffer is not RAM to hand out, and
`task_init` takes the trampoline's frame at boot and nobody gives it back. And the pages of the
image and of the stack lie outside the pages the heap may grow to. The code does not enforce the
second: `elf_load` limits an image only by `USER_IMAGE_LIMIT`, which is the trampoline, and `task_sbrk` checks
only `brk_start + USER_HEAP_MAX`. It holds for the programs in the tree, which the
linker script puts far below; see *Not modelled*.

`AInv` is a conjunction of named parts, none of which is inductive alone:

* `Splits` is `OwnedExactly` as a partition: the set bits are the kernel's frames together with
  pairwise disjoint parts, one for every space and kernel stack, and one for the frame
  that is taken and not mapped yet. A step of a call takes a frame, gives frames back, or moves them from one
  part to another, with one lemma each (`GiveSplits`, `LoseSplits`, `EmptySplits`, `ShiftSplits`, `SwapSplits`).
* `Spaces` says that each space is a tree in which only the shared frames occur more than
  once. Without it a space that is freed could free a frame twice.
* `Caller` and `Construction` say what a half-done call has in its hands: who called, that the struct
  a fork fills is nobody's, and that the pages built and the pages still to do make up the image. `Unmapped` says that the
  next page is not mapped yet, or `MapPage` would overwrite a frame and lose it.
* `Growth` and `Faulting` say the same of sbrk and of the stack fault, whose pages go into a living space; `Heaps` follows
  the break and the pages through a growth, so that its undoing removes just the pages it added.
* `Lives` says which tasks have a space and a stack, and what `cr3` holds between the two halves of execve.

There is one preservation lemma for each action. The refinement is a step-by-step argument from
`AInv`: `VisibleFacts` says what a program sees of its own space, its pages outside the heap and the
heap up to the break; a step in the middle of a call changes none of it, the last step of a call
changes what `UserMemory` says, and a step that undoes a call is a stutter.

### Heaps and what a call holds

`HeapProofs` and `ProgramProofs` prove, for heaps, headers, alignments and requests of any
size (`HeapAssumption`, `UserMallocAssumption`: headers and alignment are positive, and the heap has room
for one block), and for any number of descriptors and children:

| theorem | statement |
|---|---|
| `HeapInvariant`, `UserInvariant` | `Spec => []HeapInv`, `Spec => []UserInv` |
| `HeapTiled`, `UserListIsMemory` | `BlocksTile`, `ListIsMemory` |
| `HeapMerged` | `FullyMerged` |
| `HeapAllocates`, `UserAllocates` | `ImplementsAllocator`, for each heap |
| `CallsBalanced` | `CallsGiveBack` |

The invariants relate the list to the pointers in use: the blocks are side by side, those in
use are the blocks in front of the live pointers, and each is as large as what was asked for.
`BlocksTile` alone would be kept by an allocator that hands out the same block twice. Of the
kernel heap the invariant `HeapInv` says this until a call overlaps with a reader inside `kfree`: with nobody
inside the heap is `Settled`, with neighbours merged; with one reader inside, `WalkOK` says that the
blocks in front of its `cur` are merged and that between its two stores the block is enlarged over exactly
the next one, which is free (`Intact`). Each store has a lemma (`LineFreeOK`, `EnlargeOK`, `UnlinkOK`, `AdvanceOK`,
`FreeDoneOK`), and the theorems have the same limit as the properties. The work is
in `DataLemmas`: replacing one block by two, joining two neighbours, and a whole pass of merging keep a tiled
list tiled and keep every block in use. The merge loops are recursive functions; `LoopExists`
shows that the function they define exists, and a property of all its values is shown at the least turn
where it would fail (`LeastNat`, `CountUp`). `CallsBalanced` has one lemma for each
step of a call: what is held at a point is a function of the point (`HeldAt`).

### Registers

`ContextProofs` proves, for any number of tasks (`RegistersAssumption`: the kernel task is not
one of the user tasks):

| theorem | statement |
|---|---|
| `ContextInvariant` | `Spec => []CInv` |
| `KernelStateSound`, `InterruptsAnswered` | `KernelStateKept`, `InterruptsHeard` |
| `UserContextImplemented` | `Spec => ImplementsUserContext` |

`KernelStateKept` is not inductive alone: `sched` and `iretq` put back what lies on a
stack, so `CInv` says what lies on each. `Entered` is a C function on top of what the entry stub has
left: a whole `registers_t` of a program (`UserFrame`), or a whole `syscall_ctx_t` (`UserCall`).
`Interrupted` is `irq_handler` on top of a C function that runs with interrupts on, whose
registers below it are those this function expects. `Elsewhere` says that the stack of a task that does not run is
one that was never run (`Fresh`), or one of these with the six registers of `cpu_switch_context` on it
(`SwitchedOut`), which are those the function that called `sched` expects; `Here` says which of them the
running task has, and `Types` that `tss.rsp0` and `syscall_kernel_rsp` are its own. No value of a
program is a place in the kernel's code, which `UserFrame` says of the one register the mapping looks at to
tell a call from an interrupt.

The lists of registers enter the proof in one place each: `RegistersTable`, `SyscallTable`, `StubTable`,
`PopsTable`, `SwitchTable` and `SavedTable` compute at which index each name is found. `FrameFacts`,
`IretqFacts`, `SyscallFacts`, `SysretFacts`, `SwitchFacts`, `ImageFacts` and `ForkFacts` say with them what each stub,
the switch, fork and exec put on a stack or take off it, name by name; the actions only use these.

For the refinement, `HeldFrame` and `HeldCall` read the registers of a program off the two kinds of trap,
and `HeldUnder` says that nothing the kernel puts on top changes them: so interrupts,
acknowledgements and switches are stutters. The other actions have one lemma each, up to `ForkChild`: the
child's frame holds the parent's registers, but for the result and the masked flags.

### Images and arguments

`ProgramProofs` proves, for every file with any number of program headers, page size, image area, size
limits, stack page and argument list (`ExecImageAssumption`):

| theorem | statement |
|---|---|
| `LoaderInside` | `ExecSpec => []LoadStaysInside` |
| `ImageAsPrescribed` | `ExecSpec => []LoadedExactly` |
| `StackHoldsArguments` | `ExecSpec => []ArgumentsFit` |

What the assumption says beyond types: the two ends of the image area are page boundaries, there is
room for a page between its end and the end of the words, and the file is smaller than a word can
say. `USER_MIN_ADDR` and `USER_IMAGE_LIMIT` have the first two properties, and no file is 2^64 bytes long. Nothing
is assumed of the header words: `CheckedIsSound` shows that the checks of `elf_validate`, which are
differences that cannot wrap around once the check before them has passed, bound the sums that
`elf_load` computes (`Sound`).

`LoadedExactly` speaks of the end of the load, so the invariant has to say what is loaded in the
middle of it: `Loaded` says that the pages mapped and the bytes copied are those of the
segments before `seg`, and of `seg` itself those below `va`, and that a byte comes from the last of the segments
that have copied it. `LoadPageStep` adds one page, `LoadSegmentStep` shows that nothing of a segment
is left when its loop ends (`LoopTouches`: the loop visits exactly the pages that have a part of the segment),
and `NextInOrder` that no loadable segment is skipped. `Pushed` says that the strings placed so far lie in order between
`offset` and the top of the page; the vector then goes below `offset`.

### Copies

`UserIOProofs` proves, for any page size, user range, page tables and calls (`UserCopyAssumption`: the user range
begins and ends at a page, as `USER_MIN_ADDR` and `USER_SPACE_LIMIT` do):

| theorem | statement |
|---|---|
| `CopiesExactly` | `CopySpec => []CopyExact` |

`CopyExact` is nearly inductive. `CopyInv` adds that a call that still runs has passed the range check, that `va` is as far
from the start as bytes were moved, and that a string has met no zero byte so far. `ChunkAccessible` says that
one turn of the loop stays in one page, so that all its bytes are accessible if the first one
is, and lie side by side; `FaultInaccessible` says the reverse of a page that does not translate.

### The console

`UserIOProofs` proves, for any screen, font, line length, set of keys and queue
(`ScreenAssumption`, `ConsoleAssumption`, `KeyboardAssumption`):

| theorem | statement |
|---|---|
| `ScancodesInside` | `Spec => []KeyboardInside` |
| `TerminalImplemented` | `Spec => ImplementsTerminal` |
| `LineAsTyped` | `Spec => []LineShown` |

`ScreenAssumption` is the one that restricts the code, as said under *The console* above: the height of
the screen is a multiple of the glyph's and divides 2^32. `ConsoleAssumption` says that a key that is a letter or a digit
has two characters; `KeyboardAssumption` that the queue has at least two places and fewer than a word can count.

The ring is read in lines of text: line `l` of the screen is in the slot `Slot(l, r)` of the ring when the ring has
turned by `r` lines. `RealRowIs` shows that the remainders in `put_pixel` compute this slot, and `OffsetMoved` that a scroll
turns the ring by one line, also where `fb_offset` wraps around. `Shows(f, r, t)` says that the
pixels are those of the page of text `t`: every glyph is whole. `DrawnShows`, `ScrolledShows` and `ClearedShows` say
what each of the three ways to write pixels does to the page. `ScreenInv` is that the pixels show some page and the
cursor is in it, and `PutcMoves` and `ClsMoves` that a character does to the page what `Terminal`
says. `LineShown` is then a matter of the page alone (`OnPage`): a typed character is appended
to the line and to the page, and `ErasedOnPage` shows that a backspace takes the same one from both. Once a
line has wrapped to another row (`cursor_x < Len(buf)`) nothing is claimed of it until it is back on its row.

### The formatter

`ProgramProofs` proves, for any sequence of directives, any power of 16 as the number of words, any digits and
characters (`FormatAssumption`):

| theorem | statement |
|---|---|
| `PrintsWhatIsMeant` | `FormatSpec => []FormatExact` |

`FormatAssumption` says of the characters what ASCII does: the digits differ from each other and from the letters of the
conversions. Of a directive it says that a text has no percent sign and is not empty, and that a width fits an `int`.

The numbers come first. `DigitsFromAre` shows that dividing off digits one by one gives those that the powers of the base
define, and `LargestAre` that the count of digits compares with one less than a power as long as the power
before fits a word. So the count is right for every hexadecimal number (`HexWidthAre`) and for decimal
ones up to `DecLimit` (`DecWidthAre`), where the comparison wraps around once. Then the reading:
`WrittenLayout` says which character stands where in a written directive, `LeadingDigit` that no width begins
with the flag, and `ReadsConversion` that a turn finds flag, width, length and conversion again and ends at the end of the
directive. The invariant (`FormatInv`) says how far the loop has come: between two directives, or inside
a text, with the format read, the arguments taken and the output written being those of the directives before.

### Only model-checked

* The liveness properties, since the provers know neither fairness nor `ENABLED`.

## Not modelled

The components marked `-` above are device drivers without kernel state, vendored or
generated code, and file systems that hold nothing here: devfs is a list filled once at boot,
and nothing mounts fat32. Of the components marked `P` the following is left out.

* Code nothing calls at this commit: `kmalloc_aligned`, `kptrsize`, `vmm_remap_page`,
  `get_free_frames`, and `mkfile`, `mkdir`, `delete` with `vfs_delete`.
* Names: path lookup, mounts, task names, the search for `.sigterm`, the text of the archive's headers, and the string
  and memory primitives, which are the functions their names say.
* Permission bits and the kernel half of the page tables, except for the user and write bits `UserCopy` needs.
* Exit codes, the segment registers `ds` and `es`, the stack sentinel, colours, log tags.
* The kernel heap after a call that came in while the `kfree` of the line input was half done
  (see *Heaps*). In the other models an allocation returns a struct that nobody uses.
* The overflow of `next_pid` after 2^31 tasks, sizes near 2^64 in the heap, and a heap of
  a program that grows up to the shared pages, far above where the linker script puts programs.
* The dentries and inodes that `vfs_open` allocates and nobody frees.
* What a program loses when a read has moved the offset, or has popped keys, and the copy to it
  then fails.

A kernel panic halts the machine; only `Files` has it as a state.
