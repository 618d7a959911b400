\* Blocks of 2 units: a file grown into its second block and then cut back by a write at a rewound position.
CONSTANTS
    t1 = t1
    t2 = t2
    Tasks = {t1}
    BITMAP_BITS = 4
    MAX_INODES = 512
    NDATA = 4
    INODE_NDIRECT = 2
    BLOCK_SIZE = 2
    MAX_FILESIZE = 4
    MAX_OPEN_FILES = 1
    MAX_NLINKS = 3
    OpenNames <-FileNames
    DirNames <-NoNames
    LinkNames <-NoNames
    UnlinkNames <-NoNames
    Modes <-CreateRdwr
    WriteSizes = {1, 2}
    ReadSizes = {}
    Seeks <-Rewind
    LeftFirst = TRUE
    Reboots = TRUE

SPECIFICATION Spec

INVARIANT
    BlocksAllocated

CHECK_DEADLOCK FALSE
