----------------------------- MODULE CallMemory -----------------------------
(***************************************************************************)
(* What a system call takes and has to give back on each of its paths: the *)
(* kernel buffers, the image under construction, the new task and the      *)
(* descriptor of the executable, through execve, spawn, fork, open, close, *)
(* read and write, any of whose steps may fail.  One program is enough: a  *)
(* call that keeps something is not switched out.  The pages of an image   *)
(* are the subject of AddressSpace, the count of a shared file of          *)
(* Descriptors.  The dentry and inode of a lookup are never given back.    *)
(***************************************************************************)
EXTENDS Integers, FiniteSets

CONSTANTS
    Slots,          \* 1..MAX_FILES_PER_TASK
    MaxChildren     \* MAX_TASKS without the kernel and the caller

VARIABLES
    at,             \* the next step of the call, or "user" or "panic"
    call,           \* "execve" or "spawn"
    held,           \* blocks that only the call knows
    table,          \* slots of fd_table in use
    fd,             \* the slot of load_file, 0 for none
    opened,         \* slots the program has opened and not closed
    children,       \* the number of tasks made
    broken          \* a block was used or freed that was not held, or forgotten

vars == <<at, call, held, table, fd, opened, children, broken>>

Blocks == {"ka", "file", "data", "image", "user_addrs", "task", "kstack", "tmpbuf"}

Init ==
    /\ at = "user" /\ call = "none"
    /\ held = {} /\ broken = FALSE
    /\ table = {} /\ fd = 0 /\ opened = {}
    /\ children = 0

-----------------------------------------------------------------------------
\* From one point of a call to another: it uses some blocks, frees some,
\* hands some to a task, and allocates some.
Step(from, uses, frees, gives, takes, to) ==
    /\ at = from /\ at' = to
    /\ held' = (held \ (frees \cup gives)) \cup takes
    /\ broken' = (broken \/ ~((uses \cup frees \cup gives) \subseteq held)
                         \/ held \cap takes # {})

Descriptors == <<table, fd, opened>>

\* The first free slot, as a set.
Lowest == {s \in Slots \ table : \A r \in Slots \ table : s <= r}

\* execve and spawn up to the copy of the arguments.
BeginExec(c) ==
    /\ Step("user", {}, {}, {}, {"ka"}, "args")
    /\ call' = c
    /\ UNCHANGED <<Descriptors, children>>

CopyArgs ==
    /\ \/ Step("args", {"ka"}, {"ka"}, {}, {}, "user")
       \/ Step("args", {"ka"}, {}, {}, {}, "open")
    /\ UNCHANGED <<call, Descriptors, children>>

\* load_file fails, and its caller with it.
LoadFails(from, uses, frees) == Step(from, uses, frees \cup {"ka"}, {}, {}, "user")

\* vfs_open in load_file.  It fails when the table is full, for an unknown
\* path, and without memory for a dentry or a file.
LoadOpen ==
    /\ \/ /\ LoadFails("open", {"ka"}, {})
          /\ UNCHANGED Descriptors
       \/ \E s \in Lowest :
            /\ Step("open", {"ka"}, {}, {}, {"file"}, "size")
            /\ table' = table \cup {s} /\ fd' = s
            /\ UNCHANGED opened
    /\ UNCHANGED <<call, children>>

\* vfs_close in load_file.
Closes == table' = table \ {fd} /\ fd' = 0 /\ UNCHANGED opened

\* (fault: the refusal of an empty or a large file leaves it open)
LoadSizeOpen ==
    /\ \/ LoadFails("size", {}, {"file"}) /\ Closes
       \/ LoadFails("size", {}, {}) /\ UNCHANGED Descriptors
       \/ Step("size", {}, {}, {}, {"data"}, "read") /\ UNCHANGED Descriptors
    /\ UNCHANGED <<call, children>>

\* An empty or a large file, or no memory for it, or a buffer.
LoadSize ==
    /\ \/ LoadFails("size", {}, {"file"}) /\ Closes
       \/ Step("size", {}, {}, {}, {"data"}, "read") /\ UNCHANGED Descriptors
    /\ UNCHANGED <<call, children>>

\* The loop over vfs_read, which may stop short.
LoadRead ==
    /\ \/ LoadFails("read", {"data"}, {"file", "data"})
       \/ Step("read", {"data"}, {"file"}, {}, {}, "validate")
    /\ Closes
    /\ UNCHANGED <<call, children>>

\* elf_validate and vmm_init.
BuildBegin ==
    /\ \/ Step("validate", {"data"}, {}, {}, {}, "unbuilt")
       \/ Step("validate", {"data"}, {}, {}, {"image"}, "load")
    /\ UNCHANGED <<call, Descriptors, children>>

\* elf_load and the pages of the stack, up to the kmalloc of user_addrs.
BuildLoad ==
    /\ \/ Step("load", {"data", "image"}, {"image"}, {}, {}, "unbuilt")
       \/ Step("load", {"data", "image"}, {}, {}, {"user_addrs"}, "push")
    /\ UNCHANGED <<call, Descriptors, children>>

\* The rest of task_setup_user_stack, and task_map_shared_regions.
BuildStack ==
    /\ \/ Step("push", {"ka", "user_addrs", "image"}, {"user_addrs", "image"}, {}, {}, "unbuilt")
       \/ Step("push", {"ka", "data", "user_addrs", "image"}, {"user_addrs"}, {}, {}, "built")
    /\ UNCHANGED <<call, Descriptors, children>>

Unbuilt ==
    /\ Step("unbuilt", {}, {"data", "ka"}, {}, {}, "user")
    /\ UNCHANGED <<call, Descriptors, children>>

\* The end of execve: the image becomes the task's, and its own is freed.
Exec ==
    /\ call = "execve"
    /\ \/ Step("built", {}, {"data"}, {}, {}, "swap")
       \/ Step("swap", {"ka"}, {"ka"}, {"image"}, {}, "user")
    /\ UNCHANGED <<call, Descriptors, children>>

\* The end of spawn, with task_from_image.
Spawn ==
    /\ call = "spawn"
    /\ \/ /\ Step("built", {}, {"image", "data", "ka"}, {}, {}, "user")
          /\ UNCHANGED children
       \/ /\ children < MaxChildren
          /\ Step("built", {}, {}, {}, {"task"}, "stack")
          /\ UNCHANGED children
       \/ /\ Step("stack", {}, {"task", "image", "data", "ka"}, {}, {}, "user")
          /\ UNCHANGED children
       \/ /\ Step("stack", {"ka"}, {"data", "ka"}, {"task", "image"}, {}, "user")
          /\ children' = children + 1
    /\ UNCHANGED <<call, Descriptors>>

\* fork: task_alloc, and vmm_clone_user_space, behind which task_release
\* takes back a task without an address space.
Fork ==
    /\ \/ /\ children < MaxChildren
          /\ Step("user", {}, {}, {}, {"task"}, "fork_stack")
          /\ UNCHANGED children
       \/ /\ \/ Step("fork_stack", {}, {"task"}, {}, {}, "user")
             \/ Step("fork_stack", {"task"}, {}, {}, {"kstack"}, "clone")
             \/ Step("clone", {"task"}, {"kstack", "task"}, {}, {}, "user")
          /\ UNCHANGED children
       \/ /\ Step("clone", {"task"}, {}, {"task", "kstack"}, {}, "user")
          /\ children' = children + 1
    /\ UNCHANGED <<call, Descriptors>>

\* A child is reaped.
Reap ==
    /\ at = "user" /\ children > 0
    /\ children' = children - 1
    /\ UNCHANGED <<at, call, held, Descriptors, broken>>

\* open, when it succeeds, and close.
Open ==
    /\ at = "user"
    /\ \E s \in Lowest : table' = table \cup {s} /\ opened' = opened \cup {s}
    /\ UNCHANGED <<at, call, held, fd, children, broken>>

Close(s) ==
    /\ at = "user" /\ s \in table
    /\ table' = table \ {s} /\ opened' = opened \ {s}
    /\ UNCHANGED <<at, call, held, fd, children, broken>>

\* read and write: one buffer, on every path.
ReadWrite ==
    /\ \/ Step("user", {}, {}, {}, {"tmpbuf"}, "io")
       \/ Step("io", {"tmpbuf"}, {"tmpbuf"}, {}, {}, "user")
    /\ UNCHANGED <<call, Descriptors, children>>

\* tmpfs_lookup, from either caller of vfs_open, uses its inode unchecked.
NoInode ==
    /\ \E from \in {"open", "user"} : Step(from, {}, {}, {}, {}, "panic")
    /\ UNCHANGED <<call, Descriptors, children>>

Next ==
    \/ \E c \in {"execve", "spawn"} : BeginExec(c)
    \/ CopyArgs \/ LoadOpen \/ LoadSize \/ LoadRead
    \/ BuildBegin \/ BuildLoad \/ BuildStack \/ Unbuilt
    \/ Exec \/ Spawn \/ Fork \/ Reap
    \/ Open \/ ReadWrite \/ NoInode
    \/ \E s \in Slots : Close(s)

Spec == Init /\ [][Next]_vars

-----------------------------------------------------------------------------
\* A call uses and frees only what it holds, forgets nothing, and is back in
\* the program with nothing left, the slot of the executable included,
\* whichever of its steps failed.
CallsGiveBack ==
    /\ ~broken
    /\ at = "user" => held = {} /\ fd = 0 /\ table = opened
=============================================================================
