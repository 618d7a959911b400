\* Namespace calls of one task: mkdir, chdir, rmdir, link, unlink, and
\* open/close creating files.  Four inodes (the root and three more), a
\* block of 5 records holds any directory (at most 4 records: ".", ".."
\* and two entries), so no directory ever needs a second block.
CONSTANTS
    t1 = t1
    t2 = t2
    Tasks = {t1}
    BITMAP_BITS = 4
    MAX_INODES = 512
    NDATA = 4
    INODE_NDIRECT = 2
    BLOCK_SIZE = 5
    MAX_FILESIZE = 4
    MAX_OPEN_FILES = 1
    MAX_NLINKS = 4
    OpenNames <- FileNames
    DirNames <- DirNamesB
    LinkNames <- LinkNamesC
    UnlinkNames <- UnlinkNamesABC
    Modes <- CreateRdwr
    WriteSizes = {}
    ReadSizes = {}
    Seeks <- NoSeeks
    LeftFirst = TRUE
    Reboots = FALSE

SPECIFICATION Spec

INVARIANTS
    TypeOK
    BlocksAllocated
    BlocksExclusive
    LinkCountsExact
    NoDanglingEntries
    DirectoriesWellFormed
    RemountRestores


\* Nothing forces a call; a state with the table full, or after undefined
\* behaviour, has no successor.
CHECK_DEADLOCK FALSE
