-------------------------------- MODULE Files --------------------------------
(***************************************************************************)
(* The contents of files: the walk over the initramfs archive at boot      *)
(* (core/initramfs.c), and reading and writing through open files          *)
(* (fs/vfs/vfs.c, fs/tmpfs/tmpfs.c).  Nothing in the kernel calls mkfile:  *)
(* every file is an entry of the archive, and its content lies there.      *)
(***************************************************************************)
EXTENDS Integers, Sequences

CONSTANTS
    Archive,        \* the sizes of the entries
    MaxFiles,       \* 512, the size of the buffer for them
    Slots,          \* open files
    MaxIO,          \* SYSCALL_MAX_IO
    MaxSize         \* bound on offsets

VARIABLES
    state,          \* "boot", "running" or "panic"
    size,           \* of the files found so far
    open            \* slot |-> the file and the offset; file 0: closed

vars == <<state, size, open>>

Closed == [file |-> 0, offset |-> 0]

Init ==
    /\ state = "boot"
    /\ size = <<>>
    /\ open = [s \in Slots |-> Closed]

-----------------------------------------------------------------------------
\* One entry of initramfs_get_files; file_size is rounded up to reach the next.
TakeEntry ==
    /\ state = "boot" /\ Len(size) < MaxFiles /\ Len(size) < Len(Archive)
    /\ size' = Append(size, Archive[Len(size) + 1])
    /\ UNCHANGED <<state, open>>

\* The trailer, or a full buffer, which panics even if nothing is left.
EndOfArchive ==
    /\ state = "boot" /\ (Len(size) = MaxFiles \/ Len(size) = Len(Archive))
    /\ state' = IF Len(size) = MaxFiles THEN "panic" ELSE "running"
    /\ UNCHANGED <<size, open>>

Padded(n) == ((n + 3) \div 4) * 4

\* vfs_open: every open file has its own offset.
Open(s, f) ==
    /\ state = "running" /\ open[s] = Closed
    /\ open' = [open EXCEPT ![s] = [file |-> f, offset |-> 0]]
    /\ UNCHANGED <<state, size>>

Close(s) ==
    /\ open[s] # Closed
    /\ open' = [open EXCEPT ![s] = Closed]
    /\ UNCHANGED <<state, size>>

\* tmpfs_read; the offset moves even if the bytes do not reach the program.
Read(s, n) ==
    LET f == open[s].file
        available == size[f] - open[s].offset
    IN  /\ state = "running" /\ open[s] # Closed /\ available > 0
        /\ open' = [open EXCEPT ![s].offset = @ + IF n < available THEN n ELSE available]
        /\ UNCHANGED <<state, size>>

\* tmpfs_write.  Growing calls realloc, and what stands in front of a content
\* that lies in the archive is no block header: the copy takes its length from
\* the text of a cpio header and runs off the heap.
Write(s, n) ==
    LET f == open[s].file
        at == open[s].offset
        grow == at > size[f] \/ n > size[f]
    IN  /\ state = "running" /\ open[s] # Closed /\ at + n <= MaxSize
        /\ \/ /\ grow
              /\ state' = "panic"
              /\ UNCHANGED <<size, open>>
           \/ /\ ~grow
              /\ size' = [size EXCEPT ![f] = at + n]
              /\ open' = [open EXCEPT ![s].offset = at + n]
              /\ UNCHANGED state

Next ==
    \/ TakeEntry \/ EndOfArchive
    \/ \E s \in Slots :
        \/ \E f \in DOMAIN size : Open(s, f)
        \/ Close(s)
        \/ \E n \in 1..MaxIO : Read(s, n) \/ Write(s, n)

Spec == Init /\ [][Next]_vars

-----------------------------------------------------------------------------
\* The memory of a file's content is as large as the file: the bytes of one
\* file never lie in the next entry of the archive.  ("previous allocation of
\* 1024 KB was absolutely stupid but I didn't have realloc() back then",
\* fs/tmpfs/tmpfs.c: with realloc the block follows the size.)
ContentFits == \A f \in DOMAIN size : size[f] <= Padded(Archive[f])
=============================================================================
