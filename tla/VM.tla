-------------------------------- MODULE VM --------------------------------
(***************************************************************************)
(* Demand paging of the user processes: memory.c, which the repository    *)
(* keeps concatenated into src/boot/bootblock.s.                           *)
(*                                                                         *)
(* memoryblocks[] describes the PAGEABLE_PAGES physical frames (owner,     *)
(* virtual page, pinned).  Boot (init_memory, then setup_page_table for    *)
(* every process) hands out pinned frames in order: page directories,      *)
(* page tables and the two stack pages.  A process's image pages start     *)
(* not present; page_fault_handler, under memory_lock, takes a frame from  *)
(* get_memory (the next unallocated frame, or a random unpinned victim     *)
(* whose PTE is cleared and whose contents are written back to its         *)
(* owner's image if dirty), reads the page's sectors from the image and    *)
(* maps it.                                                                *)
(*                                                                         *)
(* Data is abstracted to one value per disk sector: a frame holds          *)
(* SECTORS_PER_PAGE values and the disk DiskSize.  A process touches only  *)
(* the sectors of its own image (pcb->swap_size).  The x86 MMU's part is   *)
(* an access: on a present page a read does nothing and a write stores the *)
(* value and sets the PTE's dirty bit; on an absent page it faults, and    *)
(* the instruction is retried when the handler returns.  `expected` is a   *)
(* history variable: the last value each process wrote to each sector.     *)
(*                                                                         *)
(* Tasks run on the cooperative scheduler of Scheduler.tla; memory_lock is *)
(* a thread.c lock and the handler's error paths call exit().              *)
(***************************************************************************)
EXTENDS Integers, Sequences, SequencesExt, FiniteSets

CONSTANTS
    TaskSeq,            \* the processes, in PCB-table order
    PAGEABLE_PAGES,     \* physical frames described by memoryblocks[]
    N_KERNEL_PTS,       \* kernel page tables built by init_memory
    SECTORS_PER_PAGE,
    SwapLoc,            \* pcb->swap_loc: first disk sector of each image
    SwapSize,           \* pcb->swap_size: sectors of each image
    DiskSize,           \* sectors on the disk
    Vals                \* sector contents; 0 is what bzero leaves

MemLock == "memory_lock"
Threads == {}           \* kernel threads share the kernel's directory and never fault
Queues  == {MemLock}
INSTANCE Thread

Procs  == Tasks
Frames == 1 .. PAGEABLE_PAGES
Slots  == 0 .. SECTORS_PER_PAGE - 1

\* setup_page_table: nrOfPages and nrOfTables of a process image.
NrOfPages(p)  == (SwapSize[p] + SECTORS_PER_PAGE - 1) \div SECTORS_PER_PAGE
NrOfTables(p) == NrOfPages(p) \div 1024 + 1
Pages(p)      == 0 .. NrOfPages(p) - 1
Sectors(p)    == 0 .. SwapSize[p] - 1

ASSUME /\ 0 \in Vals
       /\ \A p \in Procs : SwapLoc[p] + SwapSize[p] <= DiskSize

(* A frame descriptor.  vaddr is the image page it holds; the pinned      *)
(* frames boot hands out hold a directory, a table or a stack page, which  *)
(* `use` names (their vaddr plays no part here and is left 0), and an      *)
(* unallocated descriptor is the zeroed static struct.                     *)
MemBlock  == [owner : Procs \cup {"kernel", "none"},
              vaddr : UNION {Pages(p) : p \in Procs} \cup {0},
              use : {"image", "dir", "table", "stack", "none"},
              pinned : BOOLEAN]
Unused    == [owner |-> "none", vaddr |-> 0, use |-> "none", pinned |-> FALSE]

\* A page-table entry of an image page: Present, Dirty and the frame.
Pte    == [present : BOOLEAN, dirty : BOOLEAN, frame : 0 .. PAGEABLE_PAGES]
NoPte  == [present |-> FALSE, dirty |-> FALSE, frame |-> 0]

\* What an instruction of a process does to memory.  fault_addr == 0 and a
\* protection fault (error_code & PE_P) are the handler's two error paths.
Accesses(p) ==
    [kind : {"read"}, sector : Sectors(p), val : {0}]
      \cup [kind : {"write"}, sector : Sectors(p), val : Vals]
      \cup [kind : {"null", "denied"}, sector : {0}, val : {0}]
NoAccess == [kind |-> "none", sector |-> 0, val |-> 0]

VARIABLES
    kern,           \* scheduler state (Scheduler.tla)
    lockStatus,     \* memory_lock.status
    memoryblocks,   \* the frame descriptors
    allocated,      \* frames handed out so far
    pte,            \* the PTE of every image page of every process
    mem,            \* frame contents, sector by sector
    disk,           \* the disk, sector by sector
    pending,        \* the access each process retries after a fault
    handed,         \* the process blocked in lock_acquire(&memory_lock) and handed it
    expected        \* history: the last value each process wrote per sector

vars == <<kern, lockStatus, memoryblocks, allocated, pte, mem, disk, pending, handed, expected>>

TypeOK ==
    /\ kern \in KernRec
    /\ lockStatus \in [Queues -> LockStatus]
    /\ memoryblocks \in [Frames -> MemBlock]
    /\ allocated \in 0 .. PAGEABLE_PAGES
    /\ \A p \in Procs : pte[p] \in [Pages(p) -> Pte]
    /\ mem \in [Frames -> [Slots -> Vals]]
    /\ disk \in [0 .. DiskSize - 1 -> Vals]
    /\ \A p \in Procs : pending[p] \in Accesses(p) \cup {NoAccess}
    /\ handed \in [Procs -> BOOLEAN]
    /\ \A p \in Procs : expected[p] \in [Sectors(p) -> Vals]

-----------------------------------------------------------------------------
(* Boot: init_memory allocates the kernel's directory and its N_KERNEL_PTS *)
(* tables; setup_page_table then gives each process a directory, a stack   *)
(* table, two stack pages and nrOfTables code tables, all pinned, and      *)
(* leaves its image pages not present.  Each get_memory call at boot takes *)
(* the next frame in order.                                                *)
SetupRequests(p) ==
    <<[owner |-> p, use |-> "dir"], [owner |-> "kernel", use |-> "table"],
      [owner |-> p, use |-> "stack"], [owner |-> p, use |-> "stack"]>>
      \o [i \in 1 .. NrOfTables(p) |-> [owner |-> "kernel", use |-> "table"]]

BootRequests ==
    <<[owner |-> "kernel", use |-> "dir"]>>
      \o [i \in 1 .. N_KERNEL_PTS |-> [owner |-> "kernel", use |-> "table"]]
      \o FlattenSeq([i \in 1 .. Len(TaskSeq) |-> SetupRequests(TaskSeq[i])])

\* Boot never runs out of frames (it would exit() before any task runs).
ASSUME Len(BootRequests) < PAGEABLE_PAGES

InitMemory ==
    [f \in Frames |-> IF f <= Len(BootRequests)
                      THEN [owner |-> BootRequests[f].owner, vaddr |-> 0,
                            use |-> BootRequests[f].use, pinned |-> TRUE]
                      ELSE Unused]

Init ==
    /\ kern = KernInit
    /\ lockStatus = [q \in Queues |-> "UNLOCKED"]
    /\ memoryblocks = InitMemory
    /\ allocated = Len(BootRequests)
    /\ pte = [p \in Procs |-> [v \in Pages(p) |-> NoPte]]
    /\ mem = [f \in Frames |-> [j \in Slots |-> 0]]
    /\ disk = [s \in 0 .. DiskSize - 1 |-> 0]
    /\ pending = [p \in Procs |-> NoAccess]
    /\ handed = [p \in Procs |-> FALSE]
    /\ expected = [p \in Procs |-> [s \in Sectors(p) |-> 0]]

Me == kern.current

-----------------------------------------------------------------------------
(* Mutant: get_entry_and_location without the clamp, always moving a whole *)
(* page of sectors.                                                        *)
GetEntryAndLocationNoClamp(p, v) ==
    [location |-> SwapLoc[p] + v * SECTORS_PER_PAGE, sectors |-> SECTORS_PER_PAGE]

(* get_entry_and_location(vaddr, pcb): the image sector of page v and the  *)
(* number of sectors to move, clamped at the end of the image.             *)
GetEntryAndLocation(p, v) ==
    LET aligned == v * SECTORS_PER_PAGE
    IN  [location |-> SwapLoc[p] + aligned,
         sectors  |-> IF SECTORS_PER_PAGE + aligned > SwapSize[p]
                      THEN SwapSize[p] - aligned ELSE SECTORS_PER_PAGE]

\* scsi_write(location, n, frame): the frame's first n sectors to the disk.
ScsiWrite(d, loc, n, data) ==
    [s \in DOMAIN d |-> IF loc <= s /\ s < loc + n THEN data[s - loc] ELSE d[s]]

\* bzero(frame) in get_memory, then scsi_read(location, n, frame).
ScsiRead(d, loc, n) == [j \in Slots |-> IF j < n THEN d[loc + j] ELSE 0]

\* Mutant: get_memory testing `allocated <= PAGEABLE_PAGES`.
FreshAtMost == allocated <= PAGEABLE_PAGES

\* get_memory's test for a frame never handed out yet.
Fresh == allocated < PAGEABLE_PAGES

(* The frames get_memory can return: the next unallocated one while        *)
(* allocated < PAGEABLE_PAGES, else any unpinned one (rand() % counter).   *)
Candidates ==
    IF Fresh THEN {allocated + 1}
    ELSE {f \in Frames : ~memoryblocks[f].pinned}

(* get_memory(pinned, v, pcb of p) returning frame i: a fresh frame is     *)
(* counted; a victim's PTE is cleared (update_entry with no flags) and, if *)
(* it was dirty, the frame is written back to its owner's image.  The      *)
(* frame is then recorded for p and zeroed.  The result is the memory      *)
(* state after the call.                                                   *)
GetMemory(pinned, v, p, i) ==
    LET b     == memoryblocks[i]
        fresh == Fresh
        loc   == GetEntryAndLocation(b.owner, b.vaddr)
        dirty == ~fresh /\ pte[b.owner][b.vaddr].dirty
    IN  [blocks    |-> [memoryblocks EXCEPT ![i] = [owner |-> p, vaddr |-> v, use |-> "image",
                                                    pinned |-> pinned]],
         allocated |-> IF fresh THEN allocated + 1 ELSE allocated,
         pte       |-> IF fresh THEN pte ELSE [pte EXCEPT ![b.owner][b.vaddr] = NoPte],
         disk      |-> IF dirty THEN ScsiWrite(disk, loc.location, loc.sectors, mem[i])
                       ELSE disk,
         mem       |-> [mem EXCEPT ![i] = [j \in Slots |-> 0]]]

(* Mutant: an error path that calls exit() without releasing memory_lock. *)
ReleaseAndExitNoRelease ==
    /\ kern' = Exit(kern)
    /\ lockStatus' = [lockStatus EXCEPT ![MemLock] = "LOCKED"]
    /\ pending' = [pending EXCEPT ![Me] = NoAccess]
    /\ handed' = [handed EXCEPT ![Me] = FALSE]
    /\ UNCHANGED <<memoryblocks, allocated, pte, mem, disk, expected>>

\* lock_release(&memory_lock) followed by exit(), the handler's error exits.
ReleaseAndExit ==
    LET r == LockReleaseOp(kern, [lockStatus EXCEPT ![MemLock] = "LOCKED"], MemLock)
    IN  /\ kern' = Exit(r.k)
        /\ lockStatus' = r.ls
        /\ pending' = [pending EXCEPT ![Me] = NoAccess]
        /\ handed' = [handed EXCEPT ![Me] = FALSE]
        /\ UNCHANGED <<memoryblocks, allocated, pte, mem, disk, expected>>

(* The rest of page_fault_handler once memory_lock is held.  A null or a   *)
(* protection fault exits the process.  Otherwise get_memory either finds  *)
(* no unpinned frame (it releases the lock and exits the process) or       *)
(* returns frame i, into which the page's sectors are read; the PTE is     *)
(* mapped present and the lock released.  The instruction is retried.      *)
HandlerBody(a) ==
    LET p  == Me
        v  == a.sector \div SECTORS_PER_PAGE
        el == GetEntryAndLocation(p, v)
        r  == LockReleaseOp(kern, [lockStatus EXCEPT ![MemLock] = "LOCKED"], MemLock)
    IN  \/ /\ a.kind \in {"null", "denied"}
           /\ ReleaseAndExit
        \/ /\ a.kind \in {"read", "write"}
           /\ IF Candidates = {} THEN ReleaseAndExit
              ELSE \E i \in Candidates :
                     LET g == GetMemory(FALSE, v, p, i)
                     IN  /\ memoryblocks' = g.blocks
                         /\ allocated' = g.allocated
                         /\ disk' = g.disk
                         /\ mem' = [g.mem EXCEPT ![i] = ScsiRead(g.disk, el.location, el.sectors)]
                         /\ pte' = [g.pte EXCEPT ![p][v] =
                                      [present |-> TRUE, dirty |-> FALSE, frame |-> i]]
                         /\ kern' = r.k
                         /\ lockStatus' = r.ls
                         /\ pending' = [pending EXCEPT ![p] = a]
                         /\ handed' = [handed EXCEPT ![p] = FALSE]
                         /\ UNCHANGED expected

(* page_fault_handler() for access a of the running process:               *)
(* lock_acquire(&memory_lock) and the body; if the lock is held the        *)
(* process blocks, and the body runs once lock_release hands it the lock.  *)
PageFault(a) ==
    IF handed[Me] \/ lockStatus[MemLock] = "UNLOCKED"
    THEN HandlerBody(a)
    ELSE /\ kern' = LockAcquireHelperOp(kern, lockStatus, MemLock).k
         /\ pending' = [pending EXCEPT ![Me] = a]
         /\ handed' = [handed EXCEPT ![Me] = TRUE]
         /\ UNCHANGED <<lockStatus, memoryblocks, allocated, pte, mem, disk, expected>>

(* The MMU executing access a on a present page: a read changes nothing, a *)
(* write stores its value and sets the PTE's dirty bit.                    *)
Touch(a) ==
    LET p == Me
        v == a.sector \div SECTORS_PER_PAGE
        e == pte[p][v]
    IN  /\ a.kind \in {"read", "write"}
        /\ e.present
        /\ IF a.kind = "write"
           THEN /\ mem' = [mem EXCEPT ![e.frame][a.sector % SECTORS_PER_PAGE] = a.val]
                /\ pte' = [pte EXCEPT ![p][v].dirty = TRUE]
                /\ expected' = [expected EXCEPT ![p][a.sector] = a.val]
           ELSE UNCHANGED <<mem, pte, expected>>
        /\ pending' = [pending EXCEPT ![p] = NoAccess]
        /\ UNCHANGED <<kern, lockStatus, memoryblocks, allocated, disk, handed>>

(* The running process executes an instruction, or retries the one that   *)
(* faulted: a bad address or an absent page traps to the handler.          *)
Instruction ==
    \E a \in Accesses(Me) :
        /\ pending[Me] \in {NoAccess, a}
        /\ \/ Touch(a)
           \/ /\ a.kind \in {"null", "denied"} \/ ~pte[Me][a.sector \div SECTORS_PER_PAGE].present
              /\ PageFault(a)

DoYield ==
    /\ pending[Me] = NoAccess
    /\ kern' = Yield(kern)
    /\ UNCHANGED <<lockStatus, memoryblocks, allocated, pte, mem, disk, pending, handed, expected>>

DoExit ==
    /\ pending[Me] = NoAccess
    /\ kern' = Exit(kern)
    /\ UNCHANGED <<lockStatus, memoryblocks, allocated, pte, mem, disk, pending, handed, expected>>

Next == Running(kern) /\ (Instruction \/ DoYield \/ DoExit)

Spec == Init /\ [][Next]_vars

-----------------------------------------------------------------------------
(***************************************************************************)
(*                              Properties                                 *)
(***************************************************************************)

(* What process p reads at sector s of its image: the frame its PTE maps   *)
(* if present, else the image on disk, which a fault would read in.        *)
View(p, s) ==
    LET e == pte[p][s \div SECTORS_PER_PAGE]
    IN  IF e.present THEN mem[e.frame][s % SECTORS_PER_PAGE]
        ELSE disk[SwapLoc[p] + s]

(* Paging is invisible: every process reads back, at every sector of its   *)
(* image, the last value it wrote there, whatever get_memory evicted in    *)
(* between.  This rests on get_memory clearing the victim's PTE, writing a *)
(* dirty victim back to the sectors get_entry_and_location computes from   *)
(* the victim owner's swap_loc and swap_size (clamped so it never spills   *)
(* into the next image), and the handler reading the page in after that.   *)
MemoryCoherent ==
    \A p \in Procs : \A s \in Sectors(p) : View(p, s) = expected[p][s]

(* memory_lock is free, with nobody waiting, whenever no fault is being    *)
(* served: every path out of page_fault_handler and get_memory, the exit() *)
(* paths for null, protection and out-of-frames faults included, releases  *)
(* the lock first.  A path that did not would leave every later fault      *)
(* blocked on the lock forever.                                            *)
MemoryLockFreeBetweenFaults ==
    lockStatus[MemLock] = "UNLOCKED" /\ kern.waitq[MemLock] = <<>>

====
