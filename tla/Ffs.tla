-------------------------------- MODULE Ffs --------------------------------
(***************************************************************************)
(* The on-disk filesystem of kernel/vfs/ffs.c.  An operation runs under    *)
(* g_vfs_lock from its first disk write to its last, and the machine may   *)
(* stop between any two of them: an operation computes the writes it       *)
(* issues, in the order of the code (log), Flush carries them out one at a *)
(* time, and Crash forgets the rest along with everything in memory, after *)
(* which ffs_mount_dev reads the bitmaps back.                             *)
(*                                                                         *)
(* Sizes and offsets count blocks.  A data block is zeroed, a block of     *)
(* pointers, of directory entries or of a file's data.  A path may go      *)
(* through a regular file: the code then takes its blocks for directory    *)
(* blocks.  File data is taken to read as an empty directory block or as a *)
(* full one, not to spell out entries.  The entries "." and ".." and the   *)
(* counters of the superblock, which nothing reads back to decide          *)
(* anything, are left out; device errors are not modelled.                 *)
(***************************************************************************)
EXTENDS Integers, Sequences, FiniteSets, SequencesExt, FiniteSetsExt

CONSTANTS
    NInodes,      \* sb.inode_count
    ImapBits,     \* bits of the inode bitmap: sb.inode_count rounded up
    TotalBlocks,  \* sb.total_blocks
    NBits,        \* bits of the block bitmap: sb.total_blocks rounded up
    DataBlocks,   \* blocks of the partition from sb.data_start on
    NDirect,      \* FFS_DIRECT_BLOCKS
    NPtrs,        \* FFS_PTRS_PER_BLK
    DirCap,       \* entries that fit in a directory block
    Paths,        \* sequences of names
    Ctxs,         \* open contexts
    MaxOff,       \* bound: largest offset
    MaxWrite,     \* bound: blocks of one write
    MaxOps        \* bound: operations that write to the disk, and crashes

Inodes == 1..(NInodes - 1)
Blocks == 1..(NBits - 1)
Root == 1

\* The bitmap has a bit for every block of the partition, the blocks before
\* data_start included.
ASSUME FfsAssumption ==
    /\ {NInodes, ImapBits, TotalBlocks, NBits, DataBlocks} \subseteq Nat
    /\ 2 < NInodes /\ NInodes <= ImapBits
    /\ 1 < DataBlocks /\ DataBlocks < TotalBlocks /\ TotalBlocks <= NBits
    /\ NDirect \in Nat \ {0} /\ NPtrs \in Nat \ {0} /\ DirCap \in Nat \ {0}
    /\ MaxOff \in Nat /\ MaxWrite \in Nat /\ MaxOps \in Nat

VARIABLES
    disk,         \* [imap, bmap, inode, data]: what a crash leaves
    imap, bmap,   \* v->imap, v->bmap: the bitmaps in memory, as sets
    ctx,          \* ffs_ctx_t: an inode copy and an offset
    log,          \* disk writes of the current operation still to do
    op,           \* "idle"; "busy"; "trunc": truncating, no block freed yet;
                  \* "freeing": some freed, the inode still lists them
    torn,         \* history: a crash hit a truncation while "freeing"
    outdated,     \* history: a write went through an outdated inode copy
    ops           \* operations so far that wrote to the disk, and crashes

vars == <<disk, imap, bmap, ctx, log, op, torn, outdated, ops>>

Zero == [t |-> "zero"]
Ptrs(p) == [t |-> "ptrs", p |-> p]
Dir(e) == [t |-> "dir", e |-> e]
FileData(g) == [t |-> "file", gen |-> g]
NoPtrs == [k \in 0..(NPtrs - 1) |-> 0]

\* gen (history) is the operation that created the file: inode numbers are
\* reused, and so is a name.
Empty(kind, g) == [kind |-> kind, gen |-> g, size |-> 0,
                   direct |-> [k \in 0..(NDirect - 1) |-> 0], indirect |-> 0]
Unused == Empty("none", 0)
Closed == [ino |-> 0, node |-> Unused, offset |-> 0]

\* What a block is taken for, whatever it holds.
AsPtrs(c) == IF c.t = "ptrs" THEN c.p ELSE NoPtrs
AsDir(c) == IF c.t = "dir" THEN c.e ELSE {}

\* ffs_format, then ffs_mount_dev.
Init ==
    /\ disk = [imap |-> {Root}, bmap |-> {1},
               inode |-> [i \in Inodes |->
                            IF i = Root THEN [Empty("dir", 0) EXCEPT
                                                !.size = 1, !.direct[0] = 1]
                            ELSE Unused],
               data |-> [b \in Blocks |-> IF b = 1 THEN Dir({}) ELSE Zero]]
    /\ imap = disk.imap /\ bmap = disk.bmap
    /\ ctx = [c \in Ctxs |-> Closed]
    /\ log = <<>> /\ op = "idle" /\ torn = FALSE /\ outdated = FALSE /\ ops = 0

-----------------------------------------------------------------------------
(* An operation in the making: the disk as it will be, the bitmaps in      *)
(* memory, the inode at hand, the last result (0: failure), whether file   *)
(* data that is read as a directory block looks empty, and the writes.     *)

Start == [disk |-> disk, imap |-> imap, bmap |-> bmap, node |-> Unused,
          got |-> 0, blank |-> FALSE, log |-> <<>>]

Applied(d, w) ==
    CASE w.what = "imap"  -> [d EXCEPT !.imap = w.val]
      [] w.what = "bmap"  -> [d EXCEPT !.bmap = w.val]
      [] w.what = "inode" -> [d EXCEPT !.inode[w.at] = w.val]
      [] w.what = "data"  -> [d EXCEPT !.data[w.at] = w.val]

Put(st, what, at, val) ==
    LET w == [what |-> what, at |-> at, val |-> val]
    IN  [st EXCEPT !.disk = Applied(@, w), !.log = Append(@, w)]

\* ffs_write_inode refuses a number the inode table has no room for.
write_inode(st, i, node) ==
    IF i \in Inodes THEN Put(st, "inode", i, node) ELSE [st EXCEPT !.got = 0]

\* The first clear bit but 0, or 0 when there is none.
bmap_alloc(used, n) ==
    LET clear == (1..(n - 1)) \ used
    IN  IF clear = {} THEN 0 ELSE CHOOSE i \in clear : \A j \in clear : i <= j

\* Faulty: a full bitmap is not noticed.
take_block_unchecked(st, b) ==
    Put([st EXCEPT !.bmap = @ \cup {b}, !.got = b],
        "bmap", 0, st.bmap \cup {b})

\* Faulty: the block is not zeroed.
take_block_dirty(st, b) ==
    IF b = 0 THEN [st EXCEPT !.got = 0]
    ELSE Put([st EXCEPT !.bmap = @ \cup {b}, !.got = b],
             "bmap", 0, st.bmap \cup {b})

\* Faulty: the bitmap is not flushed.
take_block_no_flush(st, b) ==
    IF b = 0 THEN [st EXCEPT !.got = 0]
    ELSE Put([st EXCEPT !.bmap = @ \cup {b}, !.got = b], "data", b, Zero)

\* Mark block b, flush the bitmap, zero the block; 0 is a full bitmap.
take_block(st, b) ==
    IF b = 0 THEN [st EXCEPT !.got = 0]
    ELSE Put(Put([st EXCEPT !.bmap = @ \cup {b}, !.got = b],
                 "bmap", 0, st.bmap \cup {b}),
             "data", b, Zero)

alloc_data_block(st) == take_block(st, bmap_alloc(st.bmap, NBits))

\* ffs_free_data_block: a block past total_blocks stays marked.
free_data_block(st, b) ==
    IF b >= TotalBlocks THEN st
    ELSE Put([st EXCEPT !.bmap = @ \ {b}], "bmap", 0, st.bmap \ {b})

take_inode(st, i) ==
    IF i = 0 THEN [st EXCEPT !.got = 0]
    ELSE Put([st EXCEPT !.imap = @ \cup {i}, !.got = i],
             "imap", 0, st.imap \cup {i})

alloc_inode(st) == take_inode(st, bmap_alloc(st.imap, ImapBits))

\* ffs_free_inode, and the failure the caller then returns.
free_inode(st, i) ==
    IF i \notin Inodes THEN [st EXCEPT !.got = 0]
    ELSE Put([st EXCEPT !.imap = @ \ {i}, !.got = 0], "imap", 0, st.imap \ {i})

-----------------------------------------------------------------------------
\* ffs_file_block without alloc: the block at index idx of a file, or 0.
Mapped(d, node, idx) ==
    IF idx < NDirect THEN node.direct[idx]
    ELSE IF idx - NDirect >= NPtrs \/ node.indirect = 0 THEN 0
    ELSE AsPtrs(d.data[node.indirect])[idx - NDirect]

\* The block just allocated becomes the inode's indirect block.
SetIndirect(st) == [st EXCEPT !.node.indirect = st.got]
SetDirect(st, idx) == [st EXCEPT !.node.direct[idx] = st.got]

\* The block just allocated becomes entry i of the pointers in block ib.
SetPointer(st, ib, ptrs, i) ==
    IF st.got = 0 THEN st
    ELSE Put(st, "data", ib, Ptrs([ptrs EXCEPT ![i] = st.got]))

indirect_block(st) ==
    IF st.node.indirect # 0 THEN [st EXCEPT !.got = st.node.indirect]
    ELSE SetIndirect(alloc_data_block(st))

PointedTo(st, ib, ptrs, i) ==
    IF ptrs[i] # 0 THEN [st EXCEPT !.got = ptrs[i]]
    ELSE SetPointer(alloc_data_block(st), ib, ptrs, i)

\* Entry i of the indirect block at hand, if there is one.
through_indirect(st, i) ==
    IF st.got = 0 THEN st
    ELSE PointedTo(st, st.got, AsPtrs(st.disk.data[st.got]), i)

\* ffs_file_block with alloc, on the inode at hand.
file_block(st, idx) ==
    IF idx < NDirect
    THEN IF st.node.direct[idx] # 0
         THEN [st EXCEPT !.got = st.node.direct[idx]]
         ELSE SetDirect(alloc_data_block(st), idx)
    ELSE IF idx - NDirect >= NPtrs THEN [st EXCEPT !.got = 0]
    ELSE through_indirect(indirect_block(st), idx - NDirect)

\* All blocks of an inode, in the order in which they are freed.
BlockList(d, node) ==
    SelectSeq([k \in 1..NDirect |-> node.direct[k - 1]] \o
              (IF node.indirect = 0 THEN <<>>
               ELSE [k \in 1..NPtrs |-> AsPtrs(d.data[node.indirect])[k - 1]]) \o
              <<node.indirect>>, LAMBDA b : b # 0)

FreeBlocksOf(st, node) == FoldLeft(free_data_block, st, BlockList(st.disk, node))

\* The blocks that ffs_dir_lookup visits: up to a hole or an empty block.
Visited(d, node) ==
    {k \in 0..(node.size - 1) :
        /\ \A j \in 0..k : Mapped(d, node, j) # 0
        /\ \A j \in 0..(k - 1) : d.data[Mapped(d, node, j)] # Zero}
Entries(d, i) ==
    UNION {AsDir(d.data[Mapped(d, d.inode[i], k)]) : k \in Visited(d, d.inode[i])}

\* The entries called name in block k of a directory.
Hits(d, node, k, name) ==
    IF Mapped(d, node, k) = 0 THEN {}
    ELSE {e \in AsDir(d.data[Mapped(d, node, k)]) : e[1] = name}
dir_lookup(d, node, name) ==
    LET with == {k \in Visited(d, node) : Hits(d, node, k, name) # {}}
    IN  IF with = {} THEN 0
        ELSE (CHOOSE e \in Hits(d, node, Min(with), name) : TRUE)[2]

\* ffs_path_lookup: parent is where the search ended, perhaps before the
\* last component.
path_lookup(d, path) ==
    FoldLeft(LAMBDA a, name :
                IF a.ino = 0 THEN a
                ELSE [ino |-> dir_lookup(d, d.inode[a.ino], name),
                      parent |-> a.ino],
             [ino |-> Root, parent |-> Root], path)

\* The first entry of a directory block just added.
first_entry(st, name, ino) ==
    IF st.got = 0 THEN st
    ELSE [Put(st, "data", st.got, Dir({<<name, ino>>}))
             EXCEPT !.node.size = @ + 1]

\* Whether ffs_dir_add finds room in a block.
Roomy(st, c) == IF c.t = "file" THEN st.blank ELSE Cardinality(AsDir(c)) < DirCap

\* ffs_dir_add on the inode at hand: into a block with room, else into a new
\* one.
dir_add(st, name, ino) ==
    LET At(k) == Mapped(st.disk, st.node, k)
        roomy == {k \in 0..(st.node.size - 1) :
                    At(k) # 0 /\ Roomy(st, st.disk.data[At(k)])}
        InBlock(b) == Put([st EXCEPT !.got = 1], "data", b,
                          Dir(AsDir(st.disk.data[b]) \cup {<<name, ino>>}))
    IN  IF roomy # {} THEN InBlock(At(Min(roomy)))
        ELSE first_entry(file_block(st, st.node.size), name, ino)

\* ffs_dir_remove of an entry that is there.
dir_remove(st, name) ==
    LET k == Min({j \in 0..(st.node.size - 1) :
                    Hits(st.disk, st.node, j, name) # {}})
        b == Mapped(st.disk, st.node, k)
    IN  Put(st, "data", b, Dir(AsDir(st.disk.data[b]) \
                               Hits(st.disk, st.node, k, name)))

\* After ffs_dir_add: write the parent's inode, or give ino back.
linked(st, parent, ino) ==
    IF st.got = 0 THEN free_inode(st, ino)
    ELSE [write_inode(st, parent, st.node) EXCEPT !.got = ino]

\* Entering inode ino under name in parent, the last part of a create and of
\* a mkdir: st is the outcome of writing the new inode.
LinkIn(st, parent, name, ino) ==
    IF st.got = 0 THEN free_inode(st, ino)
    ELSE linked(dir_add([st EXCEPT !.node = st.disk.inode[parent]], name, ino),
                parent, ino)

\* Faulty: the inode is written after the name.
new_file_name_first(st, parent, name) ==
    IF st.got = 0 THEN st
    ELSE write_inode(LinkIn(st, parent, name, st.got), st.got,
                     Empty("file", ops + 1))

\* The creating part of ffs_vfs_open, with an inode allocated.
new_file(st, parent, name) ==
    IF st.got = 0 THEN st
    ELSE LinkIn(write_inode(st, st.got, Empty("file", ops + 1)), parent, name,
                st.got)

\* ffs_vfs_mkdir of a name that is not there, with an inode allocated, and
\* then with the block of "." and "..".
new_dir_block(st, ino, parent, name) ==
    IF st.got = 0 THEN free_inode(st, ino)
    ELSE LinkIn(write_inode(Put(st, "data", st.got, Dir({})), ino,
                            [st.node EXCEPT !.size = 1]),
                parent, name, ino)
new_dir(st, parent, name) ==
    IF st.got = 0 THEN st
    ELSE new_dir_block(file_block([st EXCEPT !.node = Empty("dir", ops + 1)], 0),
                       st.got, parent, name)

\* The truncating part of ffs_vfs_open.
truncated(st, i) ==
    write_inode(FreeBlocksOf(st, st.disk.inode[i]), i,
                Empty("file", st.disk.inode[i].gen))

-----------------------------------------------------------------------------
Idle == log = <<>>

\* Issue the writes of st.
Issue(st, kind) ==
    /\ imap' = st.imap /\ bmap' = st.bmap
    /\ st.log # <<>> => ops < MaxOps
    /\ log' = st.log
    /\ ops' = IF st.log = <<>> THEN ops ELSE ops + 1
    /\ op' = IF st.log = <<>> THEN "idle" ELSE kind
    /\ UNCHANGED <<disk, torn>>

\* The context of inode i, or no memory for one.
OpenAs(c, i, node) ==
    \/ /\ ctx[c] = Closed
       /\ ctx' = [ctx EXCEPT ![c] = [ino |-> i, offset |-> 0, node |-> node]]
    \/ UNCHANGED ctx

\* ffs_vfs_open once the file was found or created.
OpenFound(c, trunc, st) ==
    IF trunc
    THEN /\ Issue(truncated(st, st.got),
                  IF BlockList(st.disk, st.disk.inode[st.got]) = <<>>
                  THEN "busy" ELSE "trunc")
         /\ OpenAs(c, st.got, truncated(st, st.got).disk.inode[st.got])
    ELSE /\ Issue(st, "busy")
         /\ OpenAs(c, st.got, st.disk.inode[st.got])

\* ffs_vfs_open fails: no such file and none to be created, or a directory.
OpenNothing(path, creat) ==
    LET i == path_lookup(disk, path).ino
    IN  /\ Idle
        /\ \/ i = 0 /\ ~creat
           \/ i # 0 /\ disk.inode[i].kind = "dir"
        /\ UNCHANGED vars

\* ffs_vfs_open of a file that is there.
Open(c, path, trunc) ==
    LET i == path_lookup(disk, path).ino
    IN  /\ Idle
        /\ i # 0 /\ disk.inode[i].kind = "file"
        /\ OpenFound(c, trunc, [Start EXCEPT !.got = i])
        /\ UNCHANGED outdated

\* How the blocks of inode i may look when taken for directory blocks.
Looks(i) == IF disk.inode[i].kind = "file" THEN BOOLEAN ELSE {FALSE}

\* ffs_vfs_open once the file was created, or could not be.
OpenCreated(c, trunc, st) ==
    \/ st.got # 0 /\ OpenFound(c, trunc, st)
    \/ st.got = 0 /\ Issue(st, "busy") /\ UNCHANGED ctx

\* ffs_vfs_open of a file that is to be created.
Create(c, path, trunc) ==
    LET found == path_lookup(disk, path)
    IN  /\ Idle /\ found.ino = 0
        /\ \E blank \in Looks(found.parent) :
              OpenCreated(c, trunc,
                          new_file(alloc_inode([Start EXCEPT !.blank = blank]),
                                   found.parent, Last(path)))
        /\ UNCHANGED outdated

\* One turn of the loop of ffs_vfs_write: st has the block to write to.
Written(a, st) ==
    IF st.got = 0 THEN [a EXCEPT !.st = st, !.stop = TRUE]
    ELSE [a EXCEPT !.st = Put(st, "data", st.got, FileData(st.node.gen)), !.done = @ + 1]

\* The end of ffs_vfs_write: the context's copy of the inode is written back.
WriteEnd(c, st, off) ==
    LET node == [st.node EXCEPT !.size = IF off > @ THEN off ELSE @]
    IN  /\ Issue(write_inode(st, ctx[c].ino, node), "busy")
        /\ ctx' = [ctx EXCEPT ![c].node = node, ![c].offset = off]

\* The file changed or went since the context copied its inode: it was opened
\* a second time, unlinked, or had an entry made in it.
Outdated(x) == x.node # disk.inode[x.ino] \/ x.ino \notin imap

\* ffs_vfs_write of n blocks: the loop ends early when no block is left.
Write(c, n) ==
    LET x == ctx[c]
        OneBlock(a, k) ==
            IF a.stop THEN a
            ELSE Written(a, file_block(a.st, x.offset + a.done))
        run == FoldLeft(OneBlock,
                        [st |-> [Start EXCEPT !.node = x.node], done |-> 0,
                         stop |-> FALSE],
                        [k \in 1..n |-> k])
    IN  /\ Idle /\ x # Closed /\ x.offset + n <= MaxOff
        /\ WriteEnd(c, run.st, x.offset + run.done)
        /\ outdated' = (outdated \/ Outdated(x))

\* ffs_vfs_seek; ffs_vfs_read moves the offset as well.
Seek(c, off) ==
    /\ Idle /\ ctx[c] # Closed
    /\ ctx' = [ctx EXCEPT ![c].offset = off]
    /\ UNCHANGED <<disk, imap, bmap, log, op, torn, outdated, ops>>

\* ffs_vfs_close
Close(c) ==
    /\ Idle /\ ctx[c] # Closed
    /\ ctx' = [ctx EXCEPT ![c] = Closed]
    /\ UNCHANGED <<disk, imap, bmap, log, op, torn, outdated, ops>>

Mkdir(path) ==
    LET found == path_lookup(disk, path)
    IN  /\ Idle /\ found.ino = 0
        /\ \E blank \in Looks(found.parent) :
              Issue(new_dir(alloc_inode([Start EXCEPT !.blank = blank]),
                            found.parent, Last(path)), "busy")
        /\ UNCHANGED <<ctx, outdated>>

\* Faulty: the blocks and the inode are freed before the entry goes.
unlink_entry_last(st, found, name) ==
    LET node == st.disk.inode[found.ino]
        freed == free_inode(FreeBlocksOf(st, node), found.ino)
    IN  dir_remove([freed EXCEPT !.node = st.disk.inode[found.parent]], name)

\* ffs_vfs_unlink: the entry, the parent's inode, the blocks, the inode.
unlink(st, found, name) ==
    LET dir == st.disk.inode[found.parent]
        removed == write_inode(dir_remove([st EXCEPT !.node = dir], name),
                               found.parent, dir)
    IN  free_inode(FreeBlocksOf(removed, st.disk.inode[found.ino]), found.ino)

Unlink(path) ==
    LET found == path_lookup(disk, path)
    IN  /\ Idle /\ found.ino # 0
        /\ disk.inode[found.ino].kind = "file"
        /\ Issue(unlink(Start, found, Last(path)), "busy")
        /\ UNCHANGED <<ctx, outdated>>

\* One write reaches the disk.
Flush ==
    /\ log # <<>>
    /\ disk' = Applied(disk, Head(log))
    /\ log' = Tail(log)
    /\ op' = IF Tail(log) = <<>> THEN "idle"
             ELSE IF op = "trunc" THEN "freeing" ELSE op
    /\ UNCHANGED <<imap, bmap, ctx, torn, outdated, ops>>

\* The machine stops; after the restart ffs_vol_init reads the bitmaps.
Crash ==
    /\ ops < MaxOps /\ ops' = ops + 1
    /\ log' = <<>> /\ op' = "idle"
    /\ ctx' = [c \in Ctxs |-> Closed]
    /\ imap' = disk.imap /\ bmap' = disk.bmap
    /\ torn' = (torn \/ op = "freeing")
    /\ UNCHANGED <<disk, outdated>>

Next ==
    \/ \E c \in Ctxs, path \in Paths, trunc \in BOOLEAN :
          Open(c, path, trunc) \/ Create(c, path, trunc)
    \/ \E path \in Paths, creat \in BOOLEAN : OpenNothing(path, creat)
    \/ \E c \in Ctxs, n \in 1..MaxWrite : Write(c, n)
    \/ \E c \in Ctxs, off \in 0..MaxOff : Seek(c, off)
    \/ \E c \in Ctxs : Close(c)
    \/ \E path \in Paths : Mkdir(path) \/ Unlink(path)
    \/ Flush
    \/ Crash

Spec == Init /\ [][Next]_vars

-----------------------------------------------------------------------------
Node == [kind : {"none", "file", "dir"}, gen : 0..MaxOps, size : Nat,
         direct : [0..(NDirect - 1) -> Blocks \cup {0}],
         indirect : Blocks \cup {0}]

TypeOK ==
    /\ disk.imap \subseteq 1..(ImapBits - 1) /\ disk.bmap \subseteq Blocks
    /\ disk.inode \in [Inodes -> Node]
    /\ \A b \in Blocks : disk.data[b].t \in {"zero", "ptrs", "dir", "file"}
    /\ imap \subseteq 1..(ImapBits - 1) /\ bmap \subseteq Blocks
    /\ \A c \in Ctxs : /\ ctx[c].ino \in Inodes \cup {0}
                       /\ ctx[c].node \in Node
                       /\ ctx[c].offset \in 0..MaxOff
    /\ op \in {"idle", "busy", "trunc", "freeing"}
    /\ (op = "idle") <=> (log = <<>>)
    /\ torn \in BOOLEAN /\ outdated \in BOOLEAN /\ ops \in 0..MaxOps

\* The inodes that can be reached from the root over paths of two names.
Children(S) == {e[2] : e \in UNION {Entries(disk, i) : i \in S}}
Reachable == {Root} \cup Children({Root}) \cup Children(Children({Root}))

\* No crash cut a truncation short, which frees before it writes the inode,
\* and no write used an outdated copy of an inode.
Sound == ~torn /\ ~outdated

(***************************************************************************)
(* At every moment, hence after a crash at any moment, what the directory  *)
(* tree refers to is marked in the bitmaps on disk, so the next mount does *)
(* not give it away: an allocation is flushed before the first reference   *)
(* to it is, an unlink removes the references before it frees.  Only a     *)
(* crash during a truncation breaks this, or a write through a context     *)
(* that outlived the inode it copied.                                      *)
(***************************************************************************)
ReachableMarked ==
    Sound /\ op # "freeing" =>
        \A i \in Reachable :
            /\ i \in disk.imap
            /\ Range(BlockList(disk, disk.inode[i])) \subseteq disk.bmap

(***************************************************************************)
(* No block belongs to two files or twice to one, and no inode has two     *)
(* names, through any reuse of freed blocks, any crash and any entry made  *)
(* in a regular file, with the two exceptions of Sound.                    *)
(***************************************************************************)
NoSharing ==
    LET R == Reachable
        blocks == [i \in R |-> BlockList(disk, disk.inode[i])]
        names == UNION {{<<i, e>> : e \in Entries(disk, i)} : i \in R}
    IN  Sound =>
            /\ \A i \in R : IsInjective(blocks[i])
            /\ \A i, j \in R : i # j => Range(blocks[i]) \cap Range(blocks[j]) = {}
            /\ \A n, m \in names : n[2][2] = m[2][2] => n = m

(***************************************************************************)
(* A file shows zeroes, what was written to it since it was created, or    *)
(* the entries that a path through it made; a directory shows entries.  A  *)
(* reused block never shows what an earlier file wrote, not even one with  *)
(* the same inode number or name, nor when a crash cuts a write short.     *)
(***************************************************************************)
NoStaleData ==
    Sound =>
        \A i \in Reachable : \A k \in 0..(NDirect + NPtrs - 1) :
            LET node == disk.inode[i]
                b == Mapped(disk, node, k)
            IN  b # 0 => \/ disk.data[b].t \in {"dir", "zero"}
                         \/ /\ node.kind = "file"
                            /\ disk.data[b] = FileData(node.gen)

\* The names that the directories on d show, and what they lead to.
Names(d) ==
    LET In(i) == {<<i, e[1], e[2], d.inode[e[2]].kind>> : e \in Entries(d, i)}
        dirs == {e[2] : e \in {f \in Entries(d, Root) : d.inode[f[2]].kind = "dir"}}
    IN  UNION {In(i) : i \in {Root} \cup dirs}

(***************************************************************************)
(* An operation changes the names in directories by one write to the disk: *)
(* a crash leaves all of a create, a mkdir or an unlink to be seen or      *)
(* nothing of it, and a name never leads to an inode not yet written.      *)
(***************************************************************************)
NamesAtomic ==
    [][ Sound /\ log # <<>> /\ disk' # disk =>
          Names(disk') \in {Names(disk), Names(FoldLeft(Applied, disk, log))} ]_vars

(***************************************************************************)
(* Files lie inside the partition (ffs.h: total_blocks, "total blocks in   *)
(* partition").                                                            *)
(***************************************************************************)
WithinPartition == \A b \in disk.bmap : b < DataBlocks
=============================================================================
