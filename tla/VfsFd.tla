------------------------------- MODULE VfsFd -------------------------------
(***************************************************************************)
(* Open-file bookkeeping of kernel/vfs/vfs.c: the node table g_nodes with  *)
(* its reference counts, the fd_table of every process, and the calls that *)
(* move references between them: open, close, pipe, dup2, the inheritance  *)
(* of a parent's table at spawn and the clean-up at exit.  Every call runs *)
(* under g_vfs_lock with interrupts off, so it is one step.                *)
(*                                                                         *)
(* A call that returns an error without changing anything is a stuttering  *)
(* step.  Pcb slots are reused: a spawn first clears the slot's fd_table.  *)
(***************************************************************************)
EXTENDS Integers, FiniteSets, Functions

CONSTANTS
    Procs,      \* pcb slots
    MaxFds,     \* MAX_FDS
    FirstFd,    \* 3: the descriptors below are stdin, stdout and stderr
    MaxNodes,   \* MAX_VFSNODES; node 0 is never allocated
    RefMod,     \* 2^32, the range of the unsigned refcount
    MaxOpens,   \* bound: calls of vfs_open and vfs_pipe
    MaxDup,     \* bound: table entries in use that vfs_dup2 adds up to
    MaxInherit, \* bound: table entries that a spawn passes on
    MaxLosses,  \* bound: references lost with a pcb slot, slots marked dead
                \* and nodes that become strays, together
    SelfDup     \* programs dup2 a descriptor onto itself

Fds == 0..(MaxFds - 1)
UserFds == FirstFd..(MaxFds - 1)
Nodes == 1..(MaxNodes - 1)
None == 0

ASSUME VfsFdAssumption ==
    /\ MaxFds \in Nat /\ FirstFd \in Nat /\ FirstFd < MaxFds
    /\ MaxNodes \in Nat /\ MaxNodes >= 2
    /\ RefMod \in Nat /\ RefMod > 1
    /\ {MaxOpens, MaxDup, MaxInherit, MaxLosses} \subseteq Nat
    /\ SelfDup \in BOOLEAN

VARIABLES
    node_id,          \* whether g_nodes[n].node_id is set
    refcount,
    backend,          \* whether the node has one: a pipe end has none
    bctx,             \* backend contexts opened for a node less those closed
    fd_table,         \* of every pcb slot: descriptor -> node
    alive,            \* pcb slots with a process
    kfds,             \* nodes held through kernel pseudo-descriptors
    g_next_node_id,
    stuck,            \* pcb slots lost to a spawn without a kernel stack
    opens,            \* calls so far of vfs_open and vfs_pipe that got nodes
    leaked,           \* history: references overwritten with their pcb slot
    abandoned,        \* history: pcb slots marked dead without vfs_close_all
    strays            \* history: nodes whose number was closed by a caller
                      \* that vfs_open had not given it to, and nodes that
                      \* vfs_pipe took for both ends

hist == <<leaked, abandoned, strays>>
vars == <<node_id, refcount, backend, bctx, fd_table, alive, kfds,
          g_next_node_id, stuck, opens, hist>>

Init ==
    /\ node_id = [n \in Nodes |-> FALSE]
    /\ refcount = [n \in Nodes |-> 0]
    /\ backend = [n \in Nodes |-> FALSE]
    /\ bctx = [n \in Nodes |-> 0]
    /\ fd_table = [p \in Procs |-> [i \in Fds |-> None]]
    /\ \E p \in Procs : alive = {p}
    /\ kfds = {}
    /\ g_next_node_id = 1
    /\ stuck = {}
    /\ opens = 0
    /\ leaked = [n \in Nodes |-> 0]
    /\ abandoned = {}
    /\ strays = {}

-----------------------------------------------------------------------------
\* alloc_node_id starting the search at g: the node found, or 0.
alloc_node_id(g) ==
    LET Candidate(i) == (g + i) % MaxNodes
        Hit(i) == Candidate(i) # 0 /\ ~node_id[Candidate(i)]
        Hits == {i \in 0..(MaxNodes - 1) : Hit(i)}
    IN  IF Hits = {} THEN 0
        ELSE Candidate(CHOOSE i \in Hits : \A j \in Hits : i <= j)

\* Faulty: the search may start at the unused node 0.
NextNodeIdUnchecked(c) == (c + 1) % MaxNodes

\* g_next_node_id after node c was handed out.
NextNodeId(c) == IF (c + 1) % MaxNodes = 0 THEN 1 ELSE (c + 1) % MaxNodes

\* The empty descriptors of p from FirstFd on; the calls take the lowest.
FreeFds(p) == {i \in UserFds : fd_table[p][i] = None}
Lowest(S) == CHOOSE i \in S : \A j \in S : i <= j

Dec(r) == (r - 1) % RefMod

(***************************************************************************)
(* vfs_open for a process p (caller set), the backend's open succeeding.   *)
(***************************************************************************)
Open(p) ==
    LET n == alloc_node_id(g_next_node_id)
    IN  /\ p \in alive /\ n # 0
        /\ opens < MaxOpens /\ opens' = opens + 1
        /\ g_next_node_id' = NextNodeId(n)
        /\ refcount' = [refcount EXCEPT ![n] = 1]
        /\ backend' = [backend EXCEPT ![n] = TRUE]
        /\ \/ /\ FreeFds(p) # {}
              /\ fd_table' = [fd_table EXCEPT ![p][Lowest(FreeFds(p))] = n]
              /\ node_id' = [node_id EXCEPT ![n] = TRUE]
              /\ bctx' = [bctx EXCEPT ![n] = @ + 1]
           \/ /\ FreeFds(p) = {}           \* VFS_EMFILE, the node is released
              /\ UNCHANGED <<fd_table, node_id, bctx>>
        /\ UNCHANGED <<alive, kfds, stuck, hist>>

\* vfs_open or vfs_pipe with no node free: the context is closed again.
OpenNoNode(p) ==
    /\ p \in alive /\ alloc_node_id(g_next_node_id) = 0
    /\ UNCHANGED vars

\* vfs_open in kernel context (caller NULL): a pseudo-descriptor.
OpenKernel ==
    LET n == alloc_node_id(g_next_node_id)
    IN  /\ n # 0
        /\ opens < MaxOpens /\ opens' = opens + 1
        /\ g_next_node_id' = NextNodeId(n)
        /\ node_id' = [node_id EXCEPT ![n] = TRUE]
        /\ refcount' = [refcount EXCEPT ![n] = 1]
        /\ backend' = [backend EXCEPT ![n] = TRUE]
        /\ bctx' = [bctx EXCEPT ![n] = @ + 1]
        /\ kfds' = kfds \cup {n}
        /\ UNCHANGED <<fd_table, alive, stuck, hist>>

\* The context of n is closed, if n has one; a second close counts below 0.
CloseContext(b, n) ==
    [b EXCEPT ![n] = IF backend[n] /\ @ >= 0 THEN @ - 1 ELSE @]

\* Faulty: the backend context is not closed with the node.
ReleaseLeaksContext(n) ==
    /\ refcount' = [refcount EXCEPT ![n] = Dec(@)]
    /\ node_id' = [node_id EXCEPT ![n] = Dec(refcount[n]) # 0]
    /\ UNCHANGED bctx

\* refcount--, and at zero close the backend context and free the node.
Release(n) ==
    /\ refcount' = [refcount EXCEPT ![n] = Dec(@)]
    /\ IF Dec(refcount[n]) = 0
       THEN /\ node_id' = [node_id EXCEPT ![n] = FALSE]
            /\ bctx' = CloseContext(bctx, n)
       ELSE UNCHANGED <<node_id, bctx>>

\* Faulty: the table entry stays.
CloseKeepsEntry(p, fd) ==
    /\ p \in alive /\ fd >= FirstFd
    /\ fd_table[p][fd] # None
    /\ Release(fd_table[p][fd])
    /\ UNCHANGED <<backend, fd_table, alive, kfds, g_next_node_id, stuck, opens,
                   hist>>

\* vfs_close of a process descriptor; 0, 1 and 2 are left alone.
Close(p, fd) ==
    /\ p \in alive /\ fd >= FirstFd
    /\ fd_table[p][fd] # None
    /\ fd_table' = [fd_table EXCEPT ![p][fd] = None]
    /\ Release(fd_table[p][fd])
    /\ UNCHANGED <<backend, alive, kfds, g_next_node_id, stuck, opens, hist>>

\* vfs_close of a standard descriptor, or of one that holds no node.
CloseNothing(p, fd) ==
    /\ p \in alive
    /\ fd < FirstFd \/ fd_table[p][fd] = None
    /\ UNCHANGED vars

\* vfs_close of a kernel pseudo-descriptor by the kernel thread that has it.
CloseKernel(n) ==
    /\ n \in kfds
    /\ kfds' = kfds \ {n}
    /\ IF node_id[n] THEN Release(n) ELSE UNCHANGED <<refcount, node_id, bctx>>
    /\ UNCHANGED <<backend, fd_table, alive, g_next_node_id, stuck, opens,
                   hist>>

Losses == SumFunction(leaked) + Cardinality(strays) + Cardinality(abandoned)

\* vfs_close of the number of any node in use, by a caller that was not given
\* it: a process that passes a number from MAX_FDS on to sys_close.
CloseStray(n) ==
    /\ node_id[n] /\ n \notin strays
    /\ Losses < MaxLosses
    /\ strays' = strays \cup {n}
    /\ Release(n)
    /\ UNCHANGED <<backend, fd_table, alive, kfds, g_next_node_id, stuck, opens,
                   leaked, abandoned>>

\* The table entries that refer to n.
Holders(n) == {e \in Procs \X Fds : fd_table[e[1]][e[2]] = n}

\* How many of p's descriptors in S hold node n.
Holds(p, S, n) == Cardinality({i \in S : fd_table[p][i] = n})

\* The entries in use in the tables of S.
Entries(S) == {e \in S \X Fds : fd_table[e[1]][e[2]] # None}

\* Faulty: the loop stops one descriptor early.
CloseAllFdsShort == FirstFd..(MaxFds - 2)

\* The descriptors vfs_close_all goes through.
CloseAllFds == FirstFd..(MaxFds - 1)

\* sched_exit: vfs_close_all drops the descriptors from FirstFd on.
Exit(p) ==
    LET freed == {n \in Nodes : refcount[n] \in 1..Holds(p, CloseAllFds, n)}
    IN  /\ p \in alive /\ alive # {p}
        /\ alive' = alive \ {p}
        /\ fd_table' = [fd_table EXCEPT ![p] =
                           [i \in Fds |-> IF i \in CloseAllFds
                                          THEN None ELSE @[i]]]
        /\ refcount' = [n \in Nodes |->
                           (refcount[n] - Holds(p, CloseAllFds, n)) % RefMod]
        /\ node_id' = [n \in Nodes |-> node_id[n] /\ n \notin freed]
        /\ bctx' = [n \in Nodes |-> IF n \in freed
                                    THEN CloseContext(bctx, n)[n] ELSE bctx[n]]
        /\ UNCHANGED <<backend, kfds, g_next_node_id, stuck, opens, hist>>

\* svcmgr_stop_all, and sched_reap of a process that has not exited: the
\* process is marked dead and its descriptors stay in the slot.
MarkDead(p) ==
    /\ p \in alive /\ alive # {p}
    /\ Losses < MaxLosses
    /\ alive' = alive \ {p}
    /\ abandoned' = abandoned \cup {p}
    /\ UNCHANGED <<node_id, refcount, backend, bctx, fd_table, kfds,
                   g_next_node_id, stuck, opens, leaked, strays>>

\* Faulty: inherited references are not counted.
SpawnUncounted(p, c) ==
    /\ p \in alive /\ c \notin alive \cup stuck
    /\ alive' = alive \cup {c}
    /\ fd_table' = [fd_table EXCEPT ![c] = fd_table[p]]
    /\ UNCHANGED <<refcount, node_id, backend, bctx, kfds, g_next_node_id,
                   stuck, opens, hist>>

(***************************************************************************)
(* sched_spawn: clear the pcb slot c (with it the descriptors that its     *)
(* last process left there), then vfs_fd_inherit from p.                   *)
(* Without memory for a kernel stack the call fails after that, and the    *)
(* slot stays PROC_NEW with what it inherited.                             *)
(***************************************************************************)
Spawn(p, c) ==
    /\ p \in alive /\ c \notin alive \cup stuck
    /\ Cardinality(Entries({p})) <= MaxInherit
    /\ Losses + Cardinality(Entries({c}))
          - Cardinality(abandoned \cap {c}) <= MaxLosses
    /\ \/ alive' = alive \cup {c} /\ UNCHANGED stuck
       \/ stuck' = stuck \cup {c} /\ UNCHANGED alive
    /\ fd_table' = [fd_table EXCEPT ![c] = fd_table[p]]
    /\ refcount' = [n \in Nodes |-> (refcount[n] + Holds(p, Fds, n)) % RefMod]
    /\ leaked' = [n \in Nodes |-> leaked[n] + Holds(c, Fds, n)]
    /\ abandoned' = abandoned \ {c}
    /\ UNCHANGED <<node_id, backend, bctx, kfds, g_next_node_id, opens, strays>>

(***************************************************************************)
(* vfs_pipe: two calls of alloc_node_id before either node is marked used, *)
(* then the two lowest empty descriptors.  With one node free both calls   *)
(* return it, and its two descriptors count as one reference.              *)
(***************************************************************************)
Pipe(p) ==
    LET rid == alloc_node_id(g_next_node_id)
        wid == alloc_node_id(NextNodeId(rid))
        rfd == Lowest(FreeFds(p))
        wfd == Lowest(FreeFds(p) \ {rfd})
    IN  /\ p \in alive /\ rid # 0
        /\ rid = wid => Losses < MaxLosses
        /\ opens < MaxOpens /\ opens' = opens + 1
        /\ g_next_node_id' = NextNodeId(wid)
        /\ refcount' = [refcount EXCEPT ![rid] = 1, ![wid] = 1]
        /\ backend' = [backend EXCEPT ![rid] = FALSE, ![wid] = FALSE]
        /\ \/ /\ Cardinality(FreeFds(p)) >= 2
              /\ fd_table' = [fd_table EXCEPT ![p][rfd] = rid, ![p][wfd] = wid]
              /\ node_id' = [node_id EXCEPT ![rid] = TRUE, ![wid] = TRUE]
              /\ strays' = strays \cup ({rid} \cap {wid})
           \/ /\ Cardinality(FreeFds(p)) < 2      \* VFS_EMFILE
              /\ UNCHANGED <<fd_table, node_id, strays>>
        /\ UNCHANGED <<bctx, alive, kfds, stuck, leaked, abandoned>>

(***************************************************************************)
(* vfs_dup2: drop what newfd holds, then install oldfd's node there and    *)
(* count it.  The node is looked up before the drop and used after it.     *)
(***************************************************************************)
Dup2(p, oldfd, newfd) ==
    LET n == fd_table[p][oldfd]
        old == fd_table[p][newfd]
        ref1 == IF old = None THEN refcount
                ELSE [refcount EXCEPT ![old] = Dec(@)]
        freed == old # None /\ ref1[old] = 0
    IN  /\ p \in alive /\ n # None
        /\ SelfDup \/ oldfd # newfd
        /\ Cardinality(Entries(Procs)) < MaxDup
        /\ fd_table' = [fd_table EXCEPT ![p][newfd] = n]
        /\ refcount' = [ref1 EXCEPT ![n] = (@ + 1) % RefMod]
        /\ node_id' = IF freed THEN [node_id EXCEPT ![old] = FALSE] ELSE node_id
        /\ bctx' = IF freed THEN CloseContext(bctx, old) ELSE bctx
        /\ UNCHANGED <<backend, alive, kfds, g_next_node_id, stuck, opens,
                       hist>>

Next ==
    \/ \E p \in Procs : Open(p) \/ OpenNoNode(p) \/ Pipe(p)
    \/ \E p \in Procs : Exit(p) \/ MarkDead(p)
    \/ OpenKernel
    \/ \E n \in Nodes : CloseKernel(n) \/ CloseStray(n)
    \/ \E p \in Procs, fd \in Fds : Close(p, fd) \/ CloseNothing(p, fd)
    \/ \E p, c \in Procs : Spawn(p, c)
    \/ \E p \in Procs, oldfd, newfd \in Fds : Dup2(p, oldfd, newfd)

Spec == Init /\ [][Next]_vars

-----------------------------------------------------------------------------
TypeOK ==
    /\ node_id \in [Nodes -> BOOLEAN]
    /\ refcount \in [Nodes -> 0..(RefMod - 1)]
    /\ backend \in [Nodes -> BOOLEAN]
    /\ bctx \in [Nodes -> {-1, 0, 1}]
    /\ fd_table \in [Procs -> [Fds -> Nodes \cup {None}]]
    /\ alive \in SUBSET Procs
    /\ kfds \in SUBSET Nodes
    /\ g_next_node_id \in Nodes
    /\ stuck \in SUBSET Procs
    /\ opens \in 0..MaxOpens
    /\ leaked \in [Nodes -> 0..MaxLosses]
    /\ abandoned \in SUBSET Procs
    /\ strays \in SUBSET Nodes

\* The references to n: table entries and pseudo-descriptors.
Held(n) == Cardinality(Holders(n)) + (IF n \in kfds THEN 1 ELSE 0)

(***************************************************************************)
(* No descriptor, of a process or of the kernel, refers to a node that was *)
(* freed and may be handed out to somebody else.  Besides dup2 onto itself *)
(* two calls lead to one, a vfs_close of the node's number by a caller     *)
(* that does not have it and a vfs_pipe that finds one node for both ends; *)
(* they harm no other node.                                                *)
(***************************************************************************)
NoDangling == \A n \in Nodes \ strays : Held(n) > 0 => node_id[n]

(***************************************************************************)
(* The reference count of a node in use is the number of descriptors that  *)
(* refer to it, those lost with a reused pcb slot included: the last close *)
(* frees the node and no earlier one does, with the exceptions above.      *)
(***************************************************************************)
RefExact ==
    \A n \in Nodes \ strays : node_id[n] => refcount[n] = Held(n) + leaked[n]

(***************************************************************************)
(* A node that vfs_open made has one open backend context for as long as   *)
(* it is in use, and none after: the context is closed with the last       *)
(* descriptor, neither earlier nor twice.  A pipe end has none.            *)
(***************************************************************************)
ContextsClosed ==
    \A n \in Nodes \ strays :
        bctx[n] = IF node_id[n] /\ backend[n] THEN 1 ELSE 0

(***************************************************************************)
(* A node stays in use only while a process or the kernel can close it, or *)
(* in one of the ways the code loses it: a dead process keeps descriptors  *)
(* below FirstFd (vfs_close_all starts above them), a process was marked   *)
(* dead without vfs_close_all, a spawn failed after it had inherited, or a *)
(* slot was reused over one of these.                                      *)
(***************************************************************************)
NodesReturned ==
    \A n \in Nodes \ strays : node_id[n] =>
        \/ n \in kfds \/ leaked[n] > 0
        \/ \E e \in Holders(n) :
              e[1] \in alive \cup stuck \cup abandoned \/ e[2] < FirstFd
=============================================================================
