----------------------------- MODULE MCUserCopy -----------------------------
(* Calls for UserCopy: every range around three user pages, with pages that  *)
(* are missing, the kernel's or read-only, in frames that are not in order.  *)
EXTENDS UserCopy

Page == (MinAddr \div PageSize)..(Limit \div PageSize)

FrameOf(p) == IF p % 2 = 0 THEN p + 7 ELSE p + 1

Kinds == {[user |-> TRUE, write |-> TRUE], [user |-> TRUE, write |-> FALSE],
          [user |-> FALSE, write |-> TRUE]}

Mappings ==
    UNION {{[p \in ps |-> [frame |-> FrameOf(p), user |-> k[p].user, write |-> k[p].write]] :
                k \in [ps -> Kinds]} : ps \in SUBSET Page}

Addresses == (MinAddr - 1)..(Limit + 1)

Copies == [op : {"to", "from"}, addr : Addresses, len : 0..(3 * PageSize + 1),
           pages : Mappings, zeros : {{}}]

\* A string that ends at the end of a page, inside one, or never.
Zeros == {{}, {FrameOf(Limit \div PageSize - 1) * PageSize + PageSize - 1},
          {FrameOf(MinAddr \div PageSize) * PageSize,
           FrameOf(MinAddr \div PageSize + 1) * PageSize + 1}}

Strings == [op : {"string"}, addr : Addresses, len : {0, 1, PageSize, 2 * PageSize + 1},
            pages : Mappings, zeros : Zeros]

Inputs == Copies \cup Strings
=============================================================================
