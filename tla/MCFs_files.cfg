\* File calls of one task: open (read-write or write-only creating, or
\* read-only), close, read, write, lseek and unlink, on two names.  Three
\* inodes (the root and two files), two open-file slots; a block of 5 records holds any file, so
\* no file ever needs a second block.
CONSTANTS
    t1 = t1
    t2 = t2
    Tasks = {t1}
    BITMAP_BITS = 3
    MAX_INODES = 512
    NDATA = 3
    INODE_NDIRECT = 2
    BLOCK_SIZE = 5
    MAX_FILESIZE = 4
    MAX_OPEN_FILES = 2
    MAX_NLINKS = 3
    OpenNames <- FileNamesAC
    DirNames <- NoNames
    LinkNames <- NoNames
    UnlinkNames <- NoNames
    Modes <- OpenModes
    WriteSizes = {1, 2}
    ReadSizes = {1, 2}
    Seeks <- SeekPastEnd
    LeftFirst = TRUE
    Reboots = TRUE

SPECIFICATION Spec

INVARIANTS
    BlocksExclusive
    OpenCountExact
    RemountRestores

\* Nothing forces a call; a state with the table full, or after undefined
\* behaviour, has no successor.
CHECK_DEADLOCK FALSE
