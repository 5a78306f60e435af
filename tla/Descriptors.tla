---------------------------- MODULE Descriptors ----------------------------
(***************************************************************************)
(* Descriptor tables and open files of the VFS over the life of processes. *)
(* An open file (vfs_file_t) is shared by every descriptor that was copied *)
(* from the one vfs_open made, in the same task, a fork or a spawned one;  *)
(* ref_count decides when it is freed.  The processes are those of the     *)
(* interface that Tasks implements; every call below is one action, since  *)
(* none of them can be switched out.                                       *)
(***************************************************************************)
EXTENDS Integers, FiniteSets

CONSTANTS
    Proc, Root, Nobody,     \* see Processes
    File,                   \* vfs_file_t structures kmalloc can return
    NoFile,                 \* the null pointer
    Inode,                  \* what a path can lead to
    MaxFiles                \* MAX_FILES_PER_TASK

ASSUME DescriptorsAssumption ==
    /\ IsFiniteSet(Proc)
    /\ Root \notin Proc
    /\ Nobody \notin Proc \cup {Root}
    /\ NoFile \notin File
    /\ MaxFiles \in Nat \ {0}

Fd == 0..(MaxFiles - 1)

VARIABLES
    life, guardian, waits,  \* the processes
    fdTable,                \* task_t.fd_table; all null for a fresh struct
    refCount,               \* vfs_file_t.ref_count
    inode,                  \* vfs_file_t.inode
    allocated               \* the vfs_file_t that were kmalloc'ed and not freed

processes == <<life, guardian, waits>>
files == <<fdTable, refCount, inode, allocated>>
descriptorsVars == <<processes, files>>

P == INSTANCE Processes

Empty == [fd \in Fd |-> NoFile]

TypeOK ==
    /\ life \in [Proc -> {"none", "alive", "dead"}]
    /\ fdTable \in [Proc -> [Fd -> File \cup {NoFile}]]
    /\ refCount \in [File -> Nat]
    /\ inode \in [File -> Inode]
    /\ allocated \in SUBSET File

\* init starts with the empty table of kernel_task.
DescriptorsInit ==
    /\ P!Init
    /\ fdTable = [p \in Proc |-> Empty]
    /\ refCount = [f \in File |-> 0]
    /\ inode \in {[f \in File |-> i] : i \in Inode}
    /\ allocated = {}

-----------------------------------------------------------------------------
(***************************************************************************)
(* The calls of vfs.c on a descriptor table.                               *)
(***************************************************************************)
FreeFds(p) == {fd \in Fd : fdTable[p][fd] = NoFile}

LowestFree(p) == {fd \in FreeFds(p) : \A e \in FreeFds(p) : fd <= e}

\* vfs_open on a path that leads to the inode i.
Open(p, f, i) ==
    /\ P!Active(p)
    /\ f \notin allocated
    /\ \E fd \in LowestFree(p) : fdTable' = [fdTable EXCEPT ![p][fd] = f]
    /\ refCount' = [refCount EXCEPT ![f] = 1]
    /\ inode' = [inode EXCEPT ![f] = i]
    /\ allocated' = allocated \cup {f}
    /\ UNCHANGED processes

\* (fault: the slot still points at the file)
CloseKeepingSlot(p, fd) ==
    LET f == fdTable[p][fd]
    IN  /\ P!Active(p)
        /\ f # NoFile
        /\ refCount' = [refCount EXCEPT ![f] = @ - 1]
        /\ allocated' = IF refCount[f] = 1 THEN allocated \ {f} ELSE allocated
        /\ UNCHANGED <<fdTable, inode, processes>>

\* vfs_close.
Close(p, fd) ==
    LET f == fdTable[p][fd]
    IN  /\ P!Active(p)
        /\ f # NoFile
        /\ fdTable' = [fdTable EXCEPT ![p][fd] = NoFile]
        /\ refCount' = [refCount EXCEPT ![f] = @ - 1]
        /\ allocated' = IF refCount[f] = 1 THEN allocated \ {f} ELSE allocated
        /\ UNCHANGED <<inode, processes>>

Slots(p, f) == {fd \in Fd : fdTable[p][fd] = f}

\* The loop over vfs_close in task_terminate and in task_release: a file is
\* freed by the close that takes its count to zero.
CloseAll(p) ==
    /\ fdTable' = [fdTable EXCEPT ![p] = Empty]
    /\ refCount' = [f \in File |-> refCount[f] - Cardinality(Slots(p, f))]
    /\ allocated' = allocated \ {f \in File : refCount[f] \in 1..Cardinality(Slots(p, f))}
    /\ UNCHANGED inode

\* (fault: the references of the new task are not counted)
InheritUncounted(p, c) ==
    /\ fdTable' = [fdTable EXCEPT ![c] = fdTable[p]]
    /\ UNCHANGED <<refCount, inode, allocated>>

\* task_inherit_fds: every open descriptor is copied and counted.
Inherit(p, c) ==
    /\ fdTable' = [fdTable EXCEPT ![c] = fdTable[p]]
    /\ refCount' = [f \in File |-> refCount[f] + Cardinality(Slots(p, f))]
    /\ UNCHANGED <<inode, allocated>>

-----------------------------------------------------------------------------
(***************************************************************************)
(* The calls that create and end processes.                                *)
(***************************************************************************)
Fork(p, c) == P!Create(p, c) /\ Inherit(p, c)

\* load_file opens the program in the caller's table and closes it again: it
\* takes a free descriptor and a free struct and gives both back.
CanLoad(p) == FreeFds(p) # {} /\ allocated # File

Spawn(p, c) == CanLoad(p) /\ P!Create(p, c) /\ Inherit(p, c)

\* (fault: a task that is killed leaves its files open until it is reaped)
DieOpen(p) == P!Die(p) /\ UNCHANGED files

\* exit, a fault or a signal: task_terminate.
Die(p) == P!Die(p) /\ CloseAll(p)

\* waitpid and the orphan scan: task_reap, with task_release.
Collect(p, c) == P!Collect(p, c) /\ CloseAll(c)
Sweep(c) == P!Sweep(c) /\ CloseAll(c)

Wait(p, c) == P!BeginWait(p, c) /\ UNCHANGED files
Interrupt(p) == P!Interrupt(p) /\ UNCHANGED files

DescriptorsNext ==
    \/ \E p \in Proc, f \in File, i \in Inode : Open(p, f, i)
    \/ \E p \in Proc, fd \in Fd : Close(p, fd)
    \/ \E p, c \in Proc : Fork(p, c) \/ Spawn(p, c) \/ Collect(p, c) \/ Wait(p, c)
    \/ \E p \in Proc : Die(p) \/ Sweep(p) \/ Interrupt(p)

DescriptorsSpec == DescriptorsInit /\ [][DescriptorsNext]_descriptorsVars

-----------------------------------------------------------------------------
(***************************************************************************)
(* What the component promises.                                            *)
(***************************************************************************)
\* The slots, of whatever task, that point at f.
Holders(f) == {s \in Proc \X Fd : fdTable[s[1]][s[2]] = f}

\* ref_count is the number of slots that hold the file, over every order of
\* opens, closes, forks, deaths and reaps; a file exists as long as somebody
\* holds it and no longer, so none is used behind its kfree and none leaks.
RefsExact ==
    \A f \in File :
        /\ refCount[f] = Cardinality(Holders(f))
        /\ f \in allocated <=> Holders(f) # {}

\* The dead hold nothing: their files are closed when they die and not when
\* somebody comes to reap them, and closing them twice does not happen.
OnlyAliveHold == \A p \in Proc : life[p] # "alive" => fdTable[p] = Empty

\* The conjunction that every step preserves.
DescriptorsInv == TypeOK /\ RefsExact /\ OnlyAliveHold

\* A descriptor names the same file until its own task closes it or dies,
\* whatever the tasks it shares the file with do: the struct is not freed and
\* opened again underneath.
DescriptorStable ==
    [][\A p \in Proc, fd \in Fd :
          fdTable[p][fd] # NoFile /\ fdTable'[p][fd] = fdTable[p][fd]
             => /\ inode'[fdTable[p][fd]] = inode[fdTable[p][fd]]
                /\ fdTable[p][fd] \in allocated']_descriptorsVars
=============================================================================
