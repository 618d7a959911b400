\* unlink of "." in the root, the task's working directory; no other call.
CONSTANTS
    t1 = t1
    t2 = t2
    Tasks = {t1}
    BITMAP_BITS = 3
    MAX_INODES = 512
    NDATA = 3
    INODE_NDIRECT = 2
    BLOCK_SIZE = 5
    MAX_FILESIZE = 4
    MAX_OPEN_FILES = 1
    MAX_NLINKS = 3
    OpenNames <-NoNames
    DirNames <-NoNames
    LinkNames <-NoNames
    UnlinkNames <-UnlinkNamesDot
    Modes <-CreateRdwr
    WriteSizes = {}
    ReadSizes = {}
    Seeks <-NoSeeks
    LeftFirst = TRUE
    Reboots = TRUE

SPECIFICATION Spec

INVARIANT
    InodesInUseLive

CHECK_DEADLOCK FALSE
