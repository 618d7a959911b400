--------------------------------- MODULE Fs ---------------------------------
(***************************************************************************)
(* The file system of src/filesystem/fs.c: the two allocation bitmaps (in  *)
(* memory and on disk), the in-memory inode table, directory contents and  *)
(* the per-task open-file tables and working directories, driven by the    *)
(* fs_* system calls.  Tasks run cooperatively and no fs_* call yields, so *)
(* every call is one atomic step of whichever task is current.            *)
(*                                                                         *)
(* Abstractions.  A size is counted in directory-entry records (one unit = *)
(* sizeof(struct dirent) bytes); BLOCK_SIZE and MAX_FILESIZE are in the    *)
(* same unit.  The bitmaps are sets of entry numbers: Bitmap.tla shows the *)
(* byte code of get_free_entry/free_bitmap_entry implements exactly that   *)
(* (EntrySet: the smallest free entry is taken).  The data of an inode is  *)
(* the sequence of its units, kept per inode rather than per block; this   *)
(* is exact while no block is referenced by two inodes, which the passing  *)
(* runs check (BlocksExclusive).  A file's bytes are the unit Junk: a      *)
(* write's payload does not matter to the properties, only where it lands. *)
(* Undefined behaviour of the C code stops the model in state ub.          *)
(***************************************************************************)
EXTENDS Integers, Sequences, SequencesExt, FiniteSets, FiniteSetsExt, Bitwise

CONSTANTS
    Tasks,              \* the tasks making fs_* calls
    BITMAP_BITS,        \* the entries get_free_entry searches (BITMAP_ENTRIES / 8 bytes)
    MAX_INODES,         \* create_inode refuses entries from here on
    NDATA,              \* super.ndata_blks
    INODE_NDIRECT,      \* direct[] slots per inode
    BLOCK_SIZE,         \* units per data block
    MAX_FILESIZE,       \* super.max_filesize, in units
    MAX_OPEN_FILES,     \* slots of a task's filedes[]
    MAX_NLINKS,         \* bound on link counts (root's grows with every mkdir)
    OpenNames, DirNames, LinkNames, UnlinkNames,   \* path inputs per call
    Modes,              \* open modes: sums of the MODE_ bits
    WriteSizes, ReadSizes,
    Seeks,              \* lseek inputs <<offset, whence>>
    LeftFirst,          \* TRUE: the build evaluates the left operand of + first
    Reboots             \* TRUE: the machine may reboot between calls (FsInit)

ASSUME BITMAP_BITS <= MAX_INODES   \* as in fs.c: 256 bits, 512 inodes
ASSUME NDATA <= BITMAP_BITS

Bits     == 0 .. BITMAP_BITS - 1
Inodes   == Bits                    \* every inode number create_inode can return
Slots    == 0 .. INODE_NDIRECT - 1
FdSlots  == 0 .. MAX_OPEN_FILES - 1
Root     == 0                       \* super.root_inode: the first inode fs_mkfs takes

\* Error codes (fs_error.h is not in src/; only FSE_OK = 0 and their
\* negativity are used).
FSE_OK == 0
FSE_ERROR == -1
FSE_NOMOREINODES == -2
FSE_FULL == -3
FSE_INODETABLEFULL == -4
FSE_NOTEXIST == -5
FSE_INVALIDMODE == -6
FSE_INVALIDNAME == -7
FSE_DIRISFILE == -8
FSE_EOF == -9

Dot    == <<".">>
DotDot == <<".", ".">>
\* A unit of file data.  Read as a directory entry it has an empty name and
\* no inode; it is told apart from entries, never decoded.
Junk   == [name |-> <<>>, inode |-> -1]
Entry(n, i) == [name |-> n, inode |-> i]
IsEntry(u) == u # Junk

\* Open modes (spec section 6; the header is not under src/): bit masks.
MODE_UNUSED == 0
MODE_RDONLY == 1
MODE_WRONLY == 2
MODE_RDWR   == 3
MODE_CREAT  == 4
UnusedFd == [mode |-> MODE_UNUSED, idx |-> -1]

\* One in-memory inode (struct mem_inode: d_inode plus open_count, pos).
MemInode == [type: {"file", "dir"}, size: 0 .. MAX_FILESIZE, nlinks: Int,
             direct: [Slots -> {-1} \cup Bits], open_count: Int, pos: 0 .. MAX_FILESIZE]

\* The part of it kept on disk (struct disk_inode), and that part of m.
DiskInode == [type: {"file", "dir"}, size: 0 .. MAX_FILESIZE, nlinks: Int,
              direct: [Slots -> {-1} \cup Bits]]
DiskOf(m) == [type |-> m.type, size |-> m.size, nlinks |-> m.nlinks, direct |-> m.direct]

VARIABLES
    fs,         \* [imap, dmap, imapDisk, dmapDisk, inode, dinode, data, ub]: dinode
                \* is the inode table on disk; ub is "none"
                \* or the undefined behaviour the code reached
    cwd,        \* current_running->cwd per task
    filedes     \* current_running->filedes[] per task

vars == <<fs, cwd, filedes>>

Undefined(s, what) == [s EXCEPT !.ub = what]

-----------------------------------------------------------------------------
(* Bitmaps, as sets of entries (see EntrySet, Bitmap).                     *)

GetFree(set) == IF Bits \ set = {} THEN -1 ELSE Min(Bits \ set)

FreeEntry(e, set) == IF e >= BITMAP_BITS THEN set ELSE set \ {e}

LoadBitmaps(s) == [s EXCEPT !.imap = s.imapDisk, !.dmap = s.dmapDisk]

SaveBitmaps(s) == [s EXCEPT !.imapDisk = s.imap, !.dmapDisk = s.dmap]

Result(s, r) == [fs |-> s, ret |-> r]

\* save_inode: the inode's d_inode is written to its place on disk.
SaveInode(s, id) == [s EXCEPT !.dinode[id] = DiskOf(s.inode[id])]

\* Op applied to the value of e, computed once.  The C helpers run in
\* sequence and each uses the state the previous one left; binding that
\* state to a value keeps TLC from evaluating a chain of helpers again at
\* every use of its result.
Bind(e, Op(_)) == CHOOSE r \in {Op(v) : v \in {e}} : TRUE

-----------------------------------------------------------------------------
(* Inodes.                                                                  *)

\* An inode's units after its size is set to n: cut, or extended by bytes
\* nothing has written yet.
Fit(d, n) == IF n <= Len(d) THEN SubSeq(d, 1, n)
             ELSE d \o [p \in 1 .. n - Len(d) |-> Junk]

\* The else branch of resize_inode's loop: a slot no longer needed has its
\* block freed in the bitmap; direct[x] keeps the freed index.
ReleaseSlot(s, id, x) ==
    LET d == s.inode[id].direct[x]
    IN  IF d # -1 THEN [s EXCEPT !.dmap = FreeEntry(d, @)] ELSE s

RECURSIVE ResizeSlotsAlwaysAllocate(_, _, _, _)
ResizeSlotsAlwaysAllocate(s, id, newSize, x) ==
    IF x = INODE_NDIRECT
    THEN Result(SaveInode(SaveBitmaps([s EXCEPT !.inode[id].size = newSize,
                                                !.data[id] = Fit(@, newSize)]), id), FSE_OK)
    ELSE IF x < newSize \div BLOCK_SIZE + 1
         THEN LET e == GetFree(s.dmap)
              IN  Bind([s EXCEPT !.dmap = IF e = -1 THEN @ ELSE @ \cup {e},
                                 !.inode[id].direct[x] = e], LAMBDA s2 :
                  IF e = -1 \/ e >= NDATA
                  THEN Result(s2, FSE_FULL)
                  ELSE ResizeSlotsAlwaysAllocate(s2, id, newSize, x + 1))
         ELSE Bind(ReleaseSlot(s, id, x), LAMBDA s1 : ResizeSlotsAlwaysAllocate(s1, id, newSize, x + 1))

RECURSIVE ResizeSlotsNoSave(_, _, _, _)
ResizeSlotsNoSave(s, id, newSize, x) ==
    IF x = INODE_NDIRECT
    THEN Result(SaveInode([s EXCEPT !.inode[id].size = newSize, !.data[id] = Fit(@, newSize)], id), FSE_OK)
    ELSE IF x < newSize \div BLOCK_SIZE + 1
         THEN IF s.inode[id].direct[x] = -1
              THEN LET e == GetFree(s.dmap)
                   IN  Bind([s EXCEPT !.dmap = IF e = -1 THEN @ ELSE @ \cup {e},
                                      !.inode[id].direct[x] = e], LAMBDA s2 :
                       IF e = -1 \/ e >= NDATA
                       THEN Result(s2, FSE_FULL)
                       ELSE ResizeSlotsNoSave(s2, id, newSize, x + 1))
              ELSE ResizeSlotsNoSave(s, id, newSize, x + 1)
         ELSE Bind(ReleaseSlot(s, id, x), LAMBDA s1 : ResizeSlotsNoSave(s1, id, newSize, x + 1))

RECURSIVE ResizeSlotsNoSaveInode(_, _, _, _)
ResizeSlotsNoSaveInode(s, id, newSize, x) ==
    IF x = INODE_NDIRECT
    THEN Result(SaveBitmaps([s EXCEPT !.inode[id].size = newSize, !.data[id] = Fit(@, newSize)]), FSE_OK)
    ELSE IF x < newSize \div BLOCK_SIZE + 1
         THEN IF s.inode[id].direct[x] = -1
              THEN LET e == GetFree(s.dmap)
                   IN  Bind([s EXCEPT !.dmap = IF e = -1 THEN @ ELSE @ \cup {e},
                                      !.inode[id].direct[x] = e], LAMBDA s2 :
                       IF e = -1 \/ e >= NDATA
                       THEN Result(s2, FSE_FULL)
                       ELSE ResizeSlotsNoSaveInode(s2, id, newSize, x + 1))
              ELSE ResizeSlotsNoSaveInode(s, id, newSize, x + 1)
         ELSE Bind(ReleaseSlot(s, id, x), LAMBDA s1 : ResizeSlotsNoSaveInode(s1, id, newSize, x + 1))

\* resize_inode's loop from slot x: allocate missing needed slots, release
\* unneeded ones; an allocation that fails returns FSE_FULL at once,
\* leaving what was done so far in memory and nothing saved.
RECURSIVE ResizeSlots(_, _, _, _)
ResizeSlots(s, id, newSize, x) ==
    IF x = INODE_NDIRECT
    THEN Result(SaveInode(SaveBitmaps([s EXCEPT !.inode[id].size = newSize,
                                                !.data[id] = Fit(@, newSize)]), id), FSE_OK)
    ELSE IF x < newSize \div BLOCK_SIZE + 1
         THEN IF s.inode[id].direct[x] = -1
              THEN LET e == GetFree(s.dmap)
                   IN  Bind([s EXCEPT !.dmap = IF e = -1 THEN @ ELSE @ \cup {e},
                                      !.inode[id].direct[x] = e], LAMBDA s2 :
                       IF e = -1 \/ e >= NDATA
                       THEN Result(s2, FSE_FULL)
                       ELSE ResizeSlots(s2, id, newSize, x + 1))
              ELSE ResizeSlots(s, id, newSize, x + 1)
         ELSE Bind(ReleaseSlot(s, id, x), LAMBDA s1 : ResizeSlots(s1, id, newSize, x + 1))

\* resize_inode: refuse sizes past max_filesize, reload the bitmaps from
\* disk, then run the slot loop (which saves bitmaps and inode on success).
ResizeInode(s, id, newSize) ==
    IF newSize > MAX_FILESIZE
    THEN Result(s, FSE_INODETABLEFULL)
    ELSE Bind(LoadBitmaps(s), LAMBDA s1 : ResizeSlots(s1, id, newSize, 0))

FreshInode == [type |-> "file", size |-> 0, nlinks |-> 0,
               direct |-> [x \in Slots |-> -1], open_count |-> 0, pos |-> 0]

\* create_inode: take an inode bit, save the bitmaps, initialise the inode.
CreateInode(s) ==
    LET i  == GetFree(s.imap)
        s1 == [s EXCEPT !.imap = IF i = -1 THEN @ ELSE @ \cup {i}]
    IN  IF i < 0 \/ i >= MAX_INODES
        THEN Result(s1, FSE_NOMOREINODES)
        ELSE Result([SaveBitmaps(s1) EXCEPT !.inode[i] = FreshInode, !.data[i] = <<>>], i)

FreeInodeKeepsInodeBit(s, id) ==
    LET blocks == {s.inode[id].direct[x] : x \in Slots} \ {-1}
    IN  SaveBitmaps([s EXCEPT !.dmap = @ \ blocks])

FreeInodeKeepsBlocks(s, id) == SaveBitmaps([s EXCEPT !.imap = FreeEntry(id, @)])

\* free_inode: free every allocated direct block and the inode bit, then
\* save both bitmaps.  The inode's fields are left as they are.
FreeInode(s, id) ==
    LET blocks == {s.inode[id].direct[x] : x \in Slots} \ {-1}
    IN  SaveBitmaps([s EXCEPT !.dmap = @ \ blocks, !.imap = FreeEntry(id, @)])

ReduceLinksOffByOne(s, id) ==
    LET s1 == [s EXCEPT !.inode[id].nlinks = @ - 1]
    IN  IF s1.inode[id].nlinks <= 1 \/ s1.inode[id].type = "dir"
        THEN FreeInode(s1, id)
        ELSE SaveInode(s1, id)

ReduceLinksNoSave(s, id) ==
    LET s1 == [s EXCEPT !.inode[id].nlinks = @ - 1]
    IN  IF s1.inode[id].nlinks <= 0 \/ s1.inode[id].type = "dir"
        THEN FreeInode(s1, id)
        ELSE s1

\* reduce_links: one link fewer; a directory, or an inode left with no
\* link, is freed, and an inode kept is saved.
ReduceLinks(s, id) ==
    LET s1 == [s EXCEPT !.inode[id].nlinks = @ - 1]
    IN  IF s1.inode[id].nlinks <= 0 \/ s1.inode[id].type = "dir"
        THEN FreeInode(s1, id)
        ELSE SaveInode(s1, id)

-----------------------------------------------------------------------------
(* Data and directories.                                                    *)

\* db_write: resize the inode to start + Len(units) (cut at max_filesize,
\* and also when that is below the current size), then write the units
\* at start .. finish - 1.  Returns the number of units written.
DbWrite(s, id, units, start) ==
    LET finish == Min({start + Len(units), MAX_FILESIZE})
        put(d) == [p \in 1 .. Len(d) |-> IF p > start /\ p <= finish
                                          THEN units[p - start] ELSE d[p]]
    IN  Bind(ResizeInode(s, id, finish), LAMBDA r :
        IF r.ret # FSE_OK THEN r
        ELSE Result([r.fs EXCEPT !.data[id] = put(@)], finish - start))

\* db_read of a whole directory: its entries up to its size.
DirEntries(s, dir) == SubSeq(s.data[dir], 1, s.inode[dir].size)

\* strncmp(entry->name, name, strlen(name)) == 0: name is a prefix of the
\* entry's name.  File data read as an entry matches no name.
NameMatches(u, name) == IsEntry(u) /\ IsPrefix(name, u.name)

\* name2inode_f: the inode of the first entry of dir that matches, or -1.
Name2InodeF(s, dir, name) ==
    LET es == DirEntries(s, dir)
        k  == SelectInSeq(es, LAMBDA u : NameMatches(u, name))
    IN  IF k = 0 THEN -1 ELSE es[k].inode

Slash == "/"

\* name2inode_r: split the name at its first "/", look the part before it
\* up in dir as name2inode_f does, and resolve the rest from the entry
\* found; an empty name is dir itself, a name without "/" is looked up.
\* An empty part (a leading "/") matches dir's first record, its ".".
RECURSIVE Name2InodeR(_, _, _)
Name2InodeR(s, dir, name) ==
    LET i == SelectInSeq(name, LAMBDA ch : ch = Slash)
    IN  IF name = <<>> THEN dir
        ELSE IF i = 0 THEN Name2InodeF(s, dir, name)
        ELSE LET next == Name2InodeF(s, dir, SubSeq(name, 1, i - 1))
             IN  IF next < 0 THEN -1
                 ELSE Name2InodeR(s, next, SubSeq(name, i + 1, Len(name)))

CreateDirectoryEntryNoLink(s, dir, ino, name) ==
    Bind(ResizeInode(s, dir, s.inode[dir].size + 1), LAMBDA r :
    IF r.ret # FSE_OK THEN r
    ELSE Bind(DbWrite(r.fs, dir, <<Entry(name, ino)>>, r.fs.inode[dir].size - 1), LAMBDA w :
         IF w.ret < 0 THEN w
         ELSE Result(SaveInode(w.fs, ino), FSE_OK)))

\* create_directory_entry: grow dir by one record, write the entry into
\* the last record, then count the link on the target and save it.
CreateDirectoryEntry(s, dir, ino, name) ==
    Bind(ResizeInode(s, dir, s.inode[dir].size + 1), LAMBDA r :
    IF r.ret # FSE_OK THEN r
    ELSE Bind(DbWrite(r.fs, dir, <<Entry(name, ino)>>, r.fs.inode[dir].size - 1), LAMBDA w :
         IF w.ret < 0 THEN w
         ELSE Result(SaveInode([w.fs EXCEPT !.inode[ino].nlinks = @ + 1], ino), FSE_OK)))

\* The second half of remove_directory_entry: drop the first entry naming
\* id (reducing id's links when it is met), shrink dir by one record and
\* write the remaining entries back from offset 0.
DropEntry(s, dir, id) ==
    LET es == DirEntries(s, dir)
        k  == SelectInSeq(es, LAMBDA u : IsEntry(u) /\ u.inode = id)
    IN  IF k = 0 THEN Undefined(s, "newBuffer overrun in remove_directory_entry")
        ELSE Bind(ReduceLinks(s, id), LAMBDA s1 :
             Bind(ResizeInode(s1, dir, s1.inode[dir].size - 1), LAMBDA r :
             DbWrite(r.fs, dir, RemoveAt(es, k), 0).fs))

\* remove_directory_entry: a directory is emptied first, recursively, of
\* every entry that names neither dir nor itself (its "." and ".."), in
\* the order read before the loop; then its entry is dropped from dir.
RECURSIVE RemoveDirectoryEntry(_, _, _)
RemoveDirectoryEntry(s, dir, id) ==
    LET es    == DirEntries(s, id)
        inner == FoldLeft(LAMBDA acc, u : RemoveDirectoryEntry(acc, id, u.inode), s,
                          SelectSeq(es, LAMBDA u : u.inode \notin {dir, id}))
    IN  IF s.inode[id].type # "dir" THEN DropEntry(s, dir, id)
        ELSE IF \E p \in DOMAIN es : ~IsEntry(es[p])
        THEN Undefined(s, "file data read as a directory entry")
        ELSE DropEntry(inner, dir, id)

CreateDirectoryRightFirst(s, parent) ==
    Bind(CreateInode(s), LAMBDA c :
    LET dir == c.ret
        par == IF parent = -1 THEN dir ELSE parent
        self(t) == CreateDirectoryEntry(t, dir, dir, Dot)
        up(t)   == CreateDirectoryEntry(t, dir, par, DotDot)
    IN  IF dir < 0 THEN Result(c.fs, FSE_NOMOREINODES)
        ELSE Bind([c.fs EXCEPT !.inode[dir].type = "dir"], LAMBDA s1 :
             Bind(up(s1), LAMBDA e1 :
             Bind(self(e1.fs), LAMBDA e2 :
             IF e1.ret + e2.ret # FSE_OK THEN Result(FreeInode(e2.fs, dir), FSE_FULL)
             ELSE Result(SaveInode(e2.fs, dir), dir)))))

\* create_directory: a new inode typed dir with "." and ".." (the operands
\* of + are two calls; the build picks their order); if either fails the
\* inode is freed.
CreateDirectory(s, parent) ==
    Bind(CreateInode(s), LAMBDA c :
    LET dir == c.ret
        par == IF parent = -1 THEN dir ELSE parent
        self(t) == CreateDirectoryEntry(t, dir, dir, Dot)
        up(t)   == CreateDirectoryEntry(t, dir, par, DotDot)
    IN  IF dir < 0 THEN Result(c.fs, FSE_NOMOREINODES)
        ELSE Bind([c.fs EXCEPT !.inode[dir].type = "dir"], LAMBDA s1 :
             Bind(IF LeftFirst THEN self(s1) ELSE up(s1), LAMBDA e1 :
             Bind(IF LeftFirst THEN up(e1.fs) ELSE self(e1.fs), LAMBDA e2 :
             IF e1.ret + e2.ret # FSE_OK THEN Result(FreeInode(e2.fs, dir), FSE_FULL)
             ELSE Result(SaveInode(e2.fs, dir), dir)))))

CreateFileNoInodeCheck(s, dir, name) ==
    Bind(CreateInode(s), LAMBDA c :
    Bind(CreateDirectoryEntry(c.fs, dir, c.ret, name), LAMBDA e :
    IF e.ret # FSE_OK THEN Result(FreeInode(e.fs, c.ret), e.ret)
    ELSE Result(SaveBitmaps(SaveInode(e.fs, c.ret)), c.ret)))

\* create_file: a new inode with an entry in dir, freed again if the
\* entry cannot be made.
CreateFile(s, dir, name) ==
    Bind(CreateInode(s), LAMBDA c :
    IF c.ret < 0 THEN c
    ELSE Bind(CreateDirectoryEntry(c.fs, dir, c.ret, name), LAMBDA e :
         IF e.ret # FSE_OK THEN Result(FreeInode(e.fs, c.ret), e.ret)
         ELSE Result(SaveBitmaps(SaveInode(e.fs, c.ret)), c.ret)))

-----------------------------------------------------------------------------
(* Mount and format.                                                        *)

ZeroInode == [FreshInode EXCEPT !.direct = [x \in Slots |-> 0]]

\* The static arrays before fs_init: zero bitmaps and zeroed inodes.
ZeroFs == [imap |-> {}, dmap |-> {}, imapDisk |-> {}, dmapDisk |-> {},
           inode |-> [i \in Inodes |-> ZeroInode],
           dinode |-> [i \in Inodes |-> DiskOf(ZeroInode)],
           data |-> [i \in Inodes |-> <<>>], ub |-> "none"]

\* fs_mkfs: zero and save both bitmaps, then create the root directory,
\* whose parent is itself.
FsMkfs(s) == CreateDirectory(SaveBitmaps([s EXCEPT !.imap = {}, !.dmap = {}]), -1).fs

\* load_inode: read the inode from disk (open_count and pos are zeroed),
\* then refuse it when its size passes max_filesize or a block it needs
\* is not marked used.  The loop steps x by BLOCK_SIZE but indexes
\* direct[x] with it, so every step after the first reads past direct[]
\* (BLOCK_SIZE >= INODE_NDIRECT); a check that fails before that returns.
LoadInode(s, id) ==
    LET d    == s.dinode[id]
        s1   == [s EXCEPT !.inode[id] = [type |-> d.type, size |-> d.size, nlinks |-> d.nlinks,
                                         direct |-> d.direct, open_count |-> 0, pos |-> 0]]
        bad(x) == d.direct[x] < 0 \/ d.direct[x] \notin s.dmap
        stops  == {x \in {k * BLOCK_SIZE : k \in 0 .. (d.size - 1) \div BLOCK_SIZE} :
                      x >= INODE_NDIRECT \/ bad(x)}
    IN  IF d.size > MAX_FILESIZE THEN Result(s1, FSE_ERROR)
        ELSE IF stops = {} THEN Result(s1, FSE_OK)
        ELSE IF Min(stops) >= INODE_NDIRECT
        THEN Result(Undefined(s1, "load_inode reads direct[] past its end"), FSE_ERROR)
        ELSE Result(s1, FSE_ERROR)

\* The load path of fs_init, on a disk fs_mkfs formatted (its superblock
\* is valid): load_bitmaps, then load_inode for every inode whose bit is
\* set, in increasing order, and free_inode (which saves the bitmaps) for
\* each one refused.  s is the state after a reboot: memory zeroed, the
\* disk as the last call left it.
MountDisk(s) ==
    FoldLeft(LAMBDA acc, x :
                 IF acc.ub # "none" THEN acc
                 ELSE Bind(LoadInode(acc, x), LAMBDA r :
                      IF r.ret = FSE_OK THEN r.fs ELSE FreeInode(r.fs, x)),
             LoadBitmaps(s), SetToSortSeq(s.imapDisk, <))

-----------------------------------------------------------------------------
(* System calls of the current task t.                                      *)

\* The `cwd <= 0` fix-up several calls start with.
CwdOf(t) == IF cwd[t] <= 0 THEN Root ELSE cwd[t]

\* name2inode: a path resolved from the task's cwd, "/" first or not.
Name2Inode(t, name) == Name2InodeR(fs, cwd[t], name)

\* fs_lseek on the open-file slot f.  Past the size, a mode with the
\* RDONLY bit (MODE_RDWR has it) gets FSE_EOF; any other mode extends with
\* resize_inode(id, offset), returning FSE_FULL when it succeeds and
\* moving pos with FSE_OK when it fails.
Lseek(s, f, offset, whence) ==
    LET id   == f.idx
        pos  == offset + CASE whence = "SET" -> 0
                           [] whence = "CUR" -> s.inode[id].pos
                           [] whence = "END" -> s.inode[id].size
        move(t) == [t EXCEPT !.inode[id].pos = pos]
    IN  IF f.mode = MODE_UNUSED THEN Result(s, FSE_INVALIDMODE)
        ELSE IF pos <= s.inode[id].size THEN Result(move(s), FSE_OK)
        ELSE IF (f.mode & MODE_RDONLY) > 0 THEN Result(s, FSE_EOF)
        ELSE IF pos > MAX_FILESIZE THEN Result(s, FSE_FULL)
        ELSE Bind(ResizeInode(s, id, offset), LAMBDA r :
             IF r.ret = FSE_OK THEN Result(r.fs, FSE_FULL)
             ELSE Result(move(r.fs), FSE_OK))

\* fs_open: the first unused slot; a name starting with "/" opens cwd
\* itself, any other is looked up in cwd, and created there with
\* MODE_CREAT.  With no unused slot the loop ends at
\* x = MAX_OPEN_FILES and the code writes filedes[x] and inodes[-1].
FsOpen(t, name, mode) ==
    LET c    == CwdOf(t)
        free == {x \in FdSlots : filedes[t][x].mode = MODE_UNUSED}
        x    == Min(free)
        old  == IF name # <<>> /\ name[1] = Slash THEN c ELSE Name2InodeF(fs, c, name)
    IN  /\ cwd' = [cwd EXCEPT ![t] = c]
        /\ IF free = {}
           THEN fs' = Undefined(fs, "fs_open past the end of filedes[]") /\ UNCHANGED filedes
           ELSE \E res \in {IF old >= 0 THEN Result(fs, old)
                             ELSE IF (mode & MODE_CREAT) # 0 THEN CreateFile(fs, c, name)
                             ELSE Result(fs, FSE_NOTEXIST)} :
                LET i == res.ret
                IN  IF i < 0
                    THEN fs' = res.fs /\ UNCHANGED filedes
                    ELSE /\ filedes' = [filedes EXCEPT ![t][x] = [mode |-> mode, idx |-> i]]
                         /\ fs' = [res.fs EXCEPT !.inode[i].pos = 0, !.inode[i].open_count = @ + 1]

FsCloseNoDecrement(t, fd) ==
    LET f == filedes[t][fd]
    IN  /\ f.mode # MODE_UNUSED
        /\ fs' = [fs EXCEPT !.inode[f.idx].pos = 0]
        /\ filedes' = [filedes EXCEPT ![t][fd] = UnusedFd]
        /\ UNCHANGED cwd

\* fs_close: an unused slot is left alone.
FsClose(t, fd) ==
    LET f == filedes[t][fd]
    IN  /\ f.mode # MODE_UNUSED
        /\ fs' = [fs EXCEPT !.inode[f.idx].pos = 0, !.inode[f.idx].open_count = @ - 1]
        /\ filedes' = [filedes EXCEPT ![t][fd] = UnusedFd]
        /\ UNCHANGED cwd

\* fs_read: refused unless the mode has a bit of RDONLY | RDWR (so a
\* write-only descriptor, 2 & 3 # 0, reads too); db_read reads up to the
\* size, then pos advances by what was read.
FsRead(t, fd, n) ==
    LET f    == filedes[t][fd]
        ino  == fs.inode[f.idx]
        read == Max({0, Min({ino.pos + n, ino.size}) - ino.pos})
    IN  /\ (f.mode & (MODE_RDONLY | MODE_RDWR)) # 0
        /\ fs' = Lseek(fs, f, read, "CUR").fs
        /\ UNCHANGED <<cwd, filedes>>

\* fs_write: refused unless the mode has a bit of WRONLY | RDWR (so a
\* read-only descriptor, 1 & 3 # 0, writes too); db_write at pos, then
\* pos advances by what was written.
FsWrite(t, fd, n) ==
    LET f == filedes[t][fd]
    IN  /\ (f.mode & (MODE_WRONLY | MODE_RDWR)) # 0
        /\ \E w \in {DbWrite(fs, f.idx, [p \in 1 .. n |-> Junk], fs.inode[f.idx].pos)} :
               fs' = IF w.ret < 0 THEN w.fs ELSE Lseek(w.fs, f, w.ret, "CUR").fs
        /\ UNCHANGED <<cwd, filedes>>

FsLseek(t, fd, offset, whence) ==
    /\ filedes[t][fd].mode # MODE_UNUSED
    /\ fs' = Lseek(fs, filedes[t][fd], offset, whence).fs
    /\ UNCHANGED <<cwd, filedes>>

\* fs_mkdir: a directory whose ".." is cwd, entered in cwd under name; if
\* the entry cannot be made the new inode is freed.
FsMkdir(t, name) ==
    LET c == CwdOf(t)
    IN  /\ fs.inode[c].nlinks < MAX_NLINKS
        /\ cwd' = [cwd EXCEPT ![t] = c]
        /\ \E d \in {CreateDirectory(fs, c)} :
               IF d.ret < 0 THEN fs' = d.fs
               ELSE \E e \in {CreateDirectoryEntry(d.fs, c, d.ret, name)} :
                        fs' = IF e.ret # FSE_OK THEN FreeInode(e.fs, d.ret) ELSE e.fs
        /\ UNCHANGED filedes

\* fs_chdir: a path that resolves to a directory becomes cwd.
FsChdir(t, name) ==
    LET id == Name2Inode(t, name)
    IN  /\ id >= 0
        /\ fs.inode[id].type = "dir"
        /\ cwd' = [cwd EXCEPT ![t] = id]
        /\ UNCHANGED <<fs, filedes>>

\* fs_rmdir: a path with a "/" after its first character is split at the
\* last one into the parent's path and the name removed; any other path
\* is a name removed from cwd.  A name that is a prefix of "." or ".." is
\* refused; the parent and the path must resolve to directories.
FsRmdir(t, path) ==
    LET slashes == {p \in 2 .. Len(path) : path[p] = Slash}
        last    == Max(slashes \cup {0})
        remove  == IF last = 0 THEN path ELSE SubSeq(path, last + 1, Len(path))
        parent  == IF last = 0 THEN cwd[t] ELSE Name2Inode(t, SubSeq(path, 1, last - 1))
        id      == Name2Inode(t, path)
    IN  /\ ~IsPrefix(remove, Dot) /\ ~IsPrefix(remove, DotDot)
        /\ id >= 0 /\ parent >= 0
        /\ fs.inode[parent].type = "dir" /\ fs.inode[id].type = "dir"
        /\ fs' = RemoveDirectoryEntry(fs, parent, id)
        /\ UNCHANGED <<cwd, filedes>>

\* fs_link: a new entry in cwd for an existing file (not a directory),
\* found by its path.
FsLink(t, linkname, filename) ==
    LET id == Name2Inode(t, filename)
        c  == CwdOf(t)
    IN  /\ id >= 0
        /\ fs.inode[id].type # "dir"
        /\ fs.inode[id].nlinks < MAX_NLINKS
        /\ cwd' = [cwd EXCEPT ![t] = c]
        /\ fs' = CreateDirectoryEntry(fs, c, id, linkname).fs
        /\ UNCHANGED filedes

\* fs_unlink: remove the entry the name resolves to in cwd.
FsUnlink(t, name) ==
    LET c  == CwdOf(t)
        id == Name2InodeF(fs, c, name)
    IN  /\ id >= 0
        /\ cwd' = [cwd EXCEPT ![t] = c]
        /\ fs' = RemoveDirectoryEntry(fs, c, id)
        /\ UNCHANGED filedes

-----------------------------------------------------------------------------

\* fs_init on a disk without a file system formats it; every task starts
\* with cwd 0 and no open file.
Init ==
    /\ fs = FsMkfs(ZeroFs)
    /\ cwd = [t \in Tasks |-> 0]
    /\ filedes = [t \in Tasks |-> [x \in FdSlots |-> UnusedFd]]

\* A reboot: the kernel's statics start zeroed, every task has cwd 0 and
\* no open file, and fs_init mounts the disk the calls left.  Data blocks
\* are written through by db_write, so an inode's units are what its
\* blocks hold, up to the size saved on disk.
Rebooted(s) == [ZeroFs EXCEPT !.imapDisk = s.imapDisk, !.dmapDisk = s.dmapDisk,
                             !.dinode = s.dinode,
                             !.data = [i \in Inodes |-> IF i \in s.imapDisk
                                         THEN Fit(s.data[i], s.dinode[i].size) ELSE <<>>]]

FsInit ==
    /\ fs' = MountDisk(Rebooted(fs))
    /\ cwd' = [t \in Tasks |-> 0]
    /\ filedes' = [t \in Tasks |-> [x \in FdSlots |-> UnusedFd]]

Next ==
    /\ fs.ub = "none"
    /\ \/ \E t \in Tasks :
           \/ \E n \in OpenNames, m \in Modes : FsOpen(t, n, m)
           \/ \E fd \in FdSlots : FsClose(t, fd)
           \/ \E fd \in FdSlots, n \in ReadSizes : FsRead(t, fd, n)
           \/ \E fd \in FdSlots, n \in WriteSizes : FsWrite(t, fd, n)
           \/ \E fd \in FdSlots, sk \in Seeks : FsLseek(t, fd, sk[1], sk[2])
           \/ \E n \in DirNames : FsMkdir(t, n) \/ FsChdir(t, n) \/ FsRmdir(t, n)
           \/ \E l \in LinkNames, n \in OpenNames : FsLink(t, l, n)
           \/ \E n \in UnlinkNames : FsUnlink(t, n)
       \/ Reboots /\ FsInit

Spec == Init /\ [][Next]_vars

-----------------------------------------------------------------------------
(* Properties.  An inode is live when its bit is set in the in-memory      *)
(* inode bitmap.                                                            *)

TypeOK ==
    /\ fs \in [imap: SUBSET Bits, dmap: SUBSET Bits, imapDisk: SUBSET Bits,
               dmapDisk: SUBSET Bits, inode: [Inodes -> MemInode], dinode: [Inodes -> DiskInode],
               data: [Inodes -> Seq([name: Seq(STRING), inode: Inodes] \cup {Junk})],
               ub: STRING]
    /\ cwd \in [Tasks -> Inodes]
    /\ filedes \in [Tasks -> [FdSlots -> [mode: 0 .. 7, idx: {-1} \cup Inodes]]]

Live == fs.imap
LiveDirs == {d \in Live : fs.inode[d].type = "dir"}
Refs(i) == {<<i, x>> : x \in {y \in Slots : fs.inode[i].direct[y] # -1}}
Block(r) == fs.inode[r[1]].direct[r[2]]
LiveRefs == UNION {Refs(i) : i \in Live}

\* Spec invariant 7: every block a live inode's direct[] names is marked
\* used, in the bitmap in memory and on disk.
BlocksAllocated == \A r \in LiveRefs : Block(r) \in fs.dmap \cap fs.dmapDisk

\* Every block index a live inode's direct[] holds is a data block:
\* below ndata_blks, so idx2blk maps it into the data area.
DirectIndicesValid == \A r \in LiveRefs : Block(r) < NDATA

\* Between calls the bitmaps in memory equal the ones on disk: every call
\* that changes a bitmap saves it, so the next load_bitmaps (at the start
\* of every resize_inode) loses nothing.
BitmapsSaved == fs.imap = fs.imapDisk /\ fs.dmap = fs.dmapDisk

\* No data block is named by two direct[] slots of live inodes, and no
\* block is marked used unless a live inode names it: resize_inode's
\* release of unneeded slots and free_inode return exactly what was taken.
BlocksExclusive ==
    /\ \A r1, r2 \in LiveRefs : r1 # r2 => Block(r1) # Block(r2)
    /\ fs.dmapDisk \subseteq {Block(r) : r \in LiveRefs}

\* Entries naming inode i in live directories.
EntriesNaming(i) == {<<d, p>> \in LiveDirs \X (1 .. MAX_FILESIZE) :
                        p <= fs.inode[d].size /\ fs.data[d][p].inode = i}

\* A live file's nlinks is the number of directory entries naming it:
\* create_directory_entry counts each entry made and remove_directory_entry
\* each one dropped, also when rmdir empties a directory recursively.
LinkCountsExact == \A i \in Live : fs.inode[i].type = "file" => fs.inode[i].nlinks = Cardinality(EntriesNaming(i))

\* Every entry of a live directory names a live inode: reduce_links frees
\* nothing a live directory still lists.
NoDanglingEntries == \A d \in LiveDirs : \A p \in 1 .. fs.inode[d].size :
                        IsEntry(fs.data[d][p]) => fs.data[d][p].inode \in Live

\* Spec invariant 8: every live directory holds only entries, "." first
\* naming itself and ".." second naming a live directory that lists it
\* (the root's ".." names the root).
DirectoriesWellFormed == \A d \in LiveDirs :
    LET es == DirEntries(fs, d)
        up == es[2].inode
    IN  /\ Len(es) >= 2 /\ \A p \in DOMAIN es : IsEntry(es[p])
        /\ es[1] = Entry(Dot, d)
        /\ es[2].name = DotDot
        /\ \/ d = Root /\ up = Root
           \/ d # Root /\ up \in LiveDirs
              /\ \E p \in 3 .. fs.inode[up].size : fs.data[up][p].inode = d

\* No inode a task still holds is free: its working directory is a live
\* directory and every open-file slot names a live inode.  Otherwise calls
\* make entries in, or read and write through, an inode number that
\* create_inode hands out again (unlink and rmdir free by link count only).
InodesInUseLive ==
    \A t \in Tasks :
        /\ CwdOf(t) \in LiveDirs
        /\ \A x \in FdSlots : filedes[t][x].mode # MODE_UNUSED => filedes[t][x].idx \in Live

\* A live inode's open_count is the number of open-file slots naming it:
\* fs_open counts every slot it fills, fs_close every slot it clears.
OpenCountExact == \A i \in Live :
    fs.inode[i].open_count = Cardinality({<<t, x>> \in Tasks \X FdSlots :
                                 filedes[t][x].mode # MODE_UNUSED /\ filedes[t][x].idx = i})

\* name2inode_f finds the entry whose name is the one asked for: in every
\* live directory, looking up any name the calls use gives the first entry
\* named exactly that, or -1 when there is none.
ExactLookup(d, n) ==
    LET es == DirEntries(fs, d)
        k  == SelectInSeq(es, LAMBDA u : IsEntry(u) /\ u.name = n)
    IN  IF k = 0 THEN -1 ELSE es[k].inode

NameLookupExact == \A d \in LiveDirs, n \in OpenNames \cup DirNames \cup LinkNames \cup UnlinkNames :
                       Name2InodeF(fs, d, n) = ExactLookup(d, n)

\* Spec, open-file table: lseek past the size in a writable mode, up to
\* max_filesize, grows the file to the new position and moves pos there.
LseekExtends ==
    [][\A t \in Tasks, fd \in FdSlots, sk \in Seeks :
         LET f   == filedes[t][fd]
             pos == sk[1] + CASE sk[2] = "SET" -> 0
                              [] sk[2] = "CUR" -> fs.inode[f.idx].pos
                              [] sk[2] = "END" -> fs.inode[f.idx].size
         IN  /\ FsLseek(t, fd, sk[1], sk[2])
             /\ (f.mode & MODE_RDONLY) = 0
             /\ fs.inode[f.idx].size < pos /\ pos <= MAX_FILESIZE
             => fs'.inode[f.idx].pos = pos /\ fs'.inode[f.idx].size >= pos]_vars

\* A write never makes a file shorter: writing at pos overwrites or
\* extends, it does not cut off what lies past the written range.
WriteNeverShrinks ==
    [][\A t \in Tasks, fd \in FdSlots, n \in WriteSizes :
         FsWrite(t, fd, n) => fs'.inode[filedes[t][fd].idx].size >= fs.inode[filedes[t][fd].idx].size]_vars

\* After every call, a reboot would lose nothing: fs_init mounts the bitmaps and,
\* for every live inode, the type, size, link count, direct[] and data it
\* had, and refuses none of them.  This holds only if every call saves
\* each inode it changes (save_inode in resize_inode, reduce_links,
\* create_directory_entry, create_directory and create_file) and leaves
\* nothing load_inode's checks reject.
RemountRestores ==
    \E m \in {MountDisk(Rebooted(fs))} :
        /\ m.ub = "none"
        /\ m.imap = fs.imap /\ m.dmap = fs.dmap
        /\ \A i \in fs.imap : DiskOf(m.inode[i]) = DiskOf(fs.inode[i]) /\ m.data[i] = fs.data[i]

\* No call reaches undefined behaviour.
NoUndefinedBehaviour == fs.ub = "none"
=============================================================================
