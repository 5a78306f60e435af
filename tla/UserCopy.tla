------------------------------- MODULE UserCopy -------------------------------
(***************************************************************************)
(* Copying between the kernel and a program: core/memory/userspace.c.  A   *)
(* call checks the range once and then goes page by page, each page        *)
(* translated on its own; neighbouring pages of a program are anywhere in  *)
(* physical memory, may be missing, the kernel's, or read-only.            *)
(* Interrupts are off, so the page tables stand still during a call.       *)
(***************************************************************************)
EXTENDS Integers, Sequences, FiniteSets

CONSTANTS
    PageSize,
    MinAddr,        \* USER_MIN_ADDR
    Limit,          \* USER_SPACE_LIMIT
    Calls           \* [op, addr, len, pages, zeros]: see the variable call

ASSUME UserCopyAssumption ==
    /\ {PageSize, MinAddr, Limit} \subseteq Nat \ {0}
    /\ MinAddr % PageSize = 0 /\ Limit % PageSize = 0 /\ MinAddr < Limit
    /\ \A c \in Calls :
        /\ c.op \in {"to", "from", "string"} /\ {c.addr, c.len} \subseteq Nat
        /\ \A p \in DOMAIN c.pages : c.pages[p].frame \in Nat

VARIABLES
    call,       \* op: "to", "from" or "string"; addr and len: the range, or
                \* where the string begins and max_len; pages: virtual page |->
                \* [frame, user, write] for the present ones; zeros: the
                \* physical addresses that hold a zero byte
    va,         \* the next address
    moved,      \* the physical address of each byte moved so far
    result      \* "running", "ok" or "failed"

copyVars == <<call, va, moved, result>>

PageOf(a) == a \div PageSize

-----------------------------------------------------------------------------
user_range_valid(addr, len) ==
    \/ len = 0
    \/ addr >= MinAddr /\ addr < Limit /\ len <= Limit - addr

\* user_page_translate: present, the user's, and writable where that is needed.
Translates(a) ==
    /\ PageOf(a) \in DOMAIN call.pages
    /\ call.pages[PageOf(a)].user
    /\ call.op = "to" => call.pages[PageOf(a)].write

Physical(a) == call.pages[PageOf(a)].frame * PageSize + (a % PageSize)

Left == call.len - Len(moved)

\* (fault: always a page's worth, whatever the offset in the page)
ChunkOfPage == IF PageSize > Left THEN Left ELSE PageSize

\* What is left of the page, but no more than what is left of the call.
Chunk == LET rest == PageSize - (va % PageSize)
         IN  IF rest > Left THEN Left ELSE rest

CopyInit ==
    /\ call \in Calls
    /\ va = call.addr
    /\ moved = <<>>
    /\ result = IF IF call.op = "string"
                   THEN call.len # 0 /\ user_range_valid(call.addr, 1)
                   ELSE user_range_valid(call.addr, call.len)
                THEN "running" ELSE "failed"

-----------------------------------------------------------------------------
Copying == result = "running" /\ call.op # "string"

\* One turn of the loop of copy_to_user and copy_from_user.
CopyPage ==
    /\ Copying /\ Left > 0 /\ Translates(va)
    /\ moved' = moved \o [i \in 1..Chunk |-> Physical(va) + i - 1]
    /\ va' = va + Chunk
    /\ UNCHANGED <<call, result>>

CopyFault ==
    /\ Copying /\ Left > 0 /\ ~Translates(va)
    /\ result' = "failed"
    /\ UNCHANGED <<call, va, moved>>

CopyDone ==
    /\ Copying /\ Left = 0
    /\ result' = "ok"
    /\ UNCHANGED <<call, va, moved>>

Reading == result = "running" /\ call.op = "string"

\* The first zero byte of the chunk ends the string.
StringPage ==
    /\ Reading /\ Left > 0 /\ va < Limit /\ Translates(va)
    /\ LET ends == {i \in 1..Chunk : Physical(va) + i - 1 \in call.zeros}
           n == IF ends = {} THEN Chunk
                ELSE CHOOSE i \in ends : \A j \in ends : i <= j
       IN  /\ moved' = moved \o [i \in 1..n |-> Physical(va) + i - 1]
           /\ va' = va + n
           /\ result' = IF ends = {} THEN "running" ELSE "ok"
    /\ UNCHANGED call

StringFault ==
    /\ Reading /\ Left > 0 /\ (va >= Limit \/ ~Translates(va))
    /\ result' = "failed"
    /\ UNCHANGED <<call, va, moved>>

\* max_len bytes without a zero; the last one is overwritten by a terminator.
StringTooLong ==
    /\ Reading /\ Left = 0
    /\ result' = "failed"
    /\ UNCHANGED <<call, va, moved>>

CopyNext == CopyPage \/ CopyFault \/ CopyDone \/ StringPage \/ StringFault \/ StringTooLong

CopySpec == CopyInit /\ [][CopyNext]_copyVars

-----------------------------------------------------------------------------
\* A byte the program itself may read, or write for the direction "to".
Accessible(a) ==
    /\ a >= MinAddr /\ a < Limit
    /\ PageOf(a) \in DOMAIN call.pages
    /\ call.pages[PageOf(a)].user
    /\ call.op = "to" => call.pages[PageOf(a)].write

Bytes(n) == call.addr..(call.addr + n - 1)

\* The lengths, the zero byte counted, at which the string could end.
Ends == {n \in 1..call.len : /\ \A a \in Bytes(n) : Accessible(a)
                             /\ Physical(call.addr + n - 1) \in call.zeros}

\* Whatever the alignment, the length and the holes in the range: a call moves
\* exactly the bytes the program itself could access, each through the page it
\* lies in, and succeeds if and only if that is all of them; a string is read
\* up to its first zero byte and no further, even when the next page is missing.
CopyExact ==
    /\ Len(moved) <= call.len
    /\ \A i \in 1..Len(moved) : Accessible(call.addr + i - 1)
                             /\ moved[i] = Physical(call.addr + i - 1)
    /\ call.op # "string" =>
        /\ result = "ok" => Len(moved) = call.len
        /\ result = "failed" => \E a \in Bytes(call.len) : ~Accessible(a)
    /\ call.op = "string" =>
        /\ result = "ok" => Len(moved) \in Ends /\ \A n \in Ends : Len(moved) <= n
        /\ result = "failed" => Ends = {}
=============================================================================
