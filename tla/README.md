# TLA+ models of kernel_samples

TLA+ models of the teaching kernel in `src/`, checked with TLC. The kernel runs on one CPU
and schedules tasks cooperatively: a task runs until it calls `yield`, `exit` or `block`.
Kernel code runs between `enter_critical()` and `leave_critical()`. The models therefore treat
each kernel call as one atomic step of `current_running`, the task that made it.
The step ends at the call's scheduling point, where `scheduler_entry` saves the task's context.

## 1. Inventory

| Part | Source | State | Operations | Interacts with |
|---|---|---|---|---|
| Scheduler | `src/scheduler/scheduler.c` | PCB `state`; the doubly linked ready ring through `next`/`previous`; `current_running` | `yield`, `scheduler`, `dispatch`, `exit`, `block(q)`, `unblock(q)` | every blocking primitive; `entry.S` |
| Context switch | `src/scheduler/entry.S` | saved registers, flags, FPU state per PCB | `scheduler_entry`, `kernel_entry`, `start_process`, `start_thread` | scheduler |
| Sync primitives | `src/sync/thread.c` | lock `status` + wait list; condition wait list; semaphore `counter` + list; barrier `counter`, `reach` + list | lock init/acquire/release; condition init/wait/signal/broadcast; semaphore init/up/down; barrier init/wait | scheduler (`block`/`unblock`) |
| Mailboxes | `src/mailbox/mbox.c` | `Q[MAX_MBOX]`: `used`, `count`, `head`, `tail`, byte `buffer`, lock `l`, conditions `moreSpace`, `moreData` | `mbox_init`, `open`, `close`, `stat`, `send`, `recv` | lock and conditions of thread.c |
| Virtual memory | `memory.c`, concatenated into `src/boot/bootblock.s` (lines ~100-438) | `memoryblocks[]` frames (owner PCB copy, vaddr, paddr, pinned); per-process page directory and tables; `allocated`; `memory_lock` | `init_memory`, `setup_page_table`, `get_memory` (allocate or evict at random, with write-back if dirty), `page_fault_handler` | locks, scheduler (`exit`), disk |
| File system | `src/filesystem/fs.c` lines 1-926 | super block, inode and data-block bitmaps, inode table, directories, per-task `filedes[]`, `cwd` | `fs_mkfs`, `fs_init`, `open`, `close`, `read`, `write`, `lseek`, `mkdir`, `chdir`, `rmdir`, `link`, `unlink`, `stat` | block device (not in src) |
| Image builder | `createimage`, concatenated into `src/filesystem/fs.c` (lines ~928-1141) | the image file; `os_size` in the boot block | `main`, `parse_file` | boot loader |
| Boot loader | `src/boot/bootblock.s` lines 1-~98 | real-mode registers | BIOS reads of `os_size` sectors, then a jump to the kernel | image builder |

Outside `src/`: `kernel.c` (the PCB table and boot), `interrupt.c` (critical sections), and the block/USB driver.

### Behaviours that make it hard

- A blocked call is finished later, by a different step. `condition_wait` releases its lock, blocks, and re-acquires when woken. `lock_release` hands the lock over with the status still LOCKED.
- Wake-up order. `unblock` takes the queue head and links it in before `current_running`.
- Boundaries. A semaphore counter below zero; a barrier counter reaching `reach`; a mailbox buffer exactly full (`head == tail`); messages wrapping past the end of the buffer.
- `mbox_close` resets a mailbox while other tasks wait on it. It re-runs `lock_init` on the lock it holds.
- The last ready task blocking, or the last task exiting.
- Paging. A random victim is chosen while `memory_lock` is held across disk I/O; a dirty page is written back; the task exits when no frame is free.
- The file system. Allocation can fail part way through; bitmaps are written before inodes, so a crash in between leaves them inconsistent; the file descriptor table can fill up.

## 2. Modules

| Module | Models | State (VARIABLES) | Actions |
|---|---|---|---|
| `Scheduler` | scheduler.c | none: pure operators over the kernel record `[state, ring, current, waitq, halted]` | `Dispatch`, `Scheduler`, `Yield`, `Exit`, `Block`, `Unblock`, `UnblockAll` |
| `Thread` | thread.c locks and conditions | none: operators over a kernel record and lock statuses | `LockAcquireHelperOp`, `LockReleaseOp`, `CondWaitOp`, `CondSignalOp`, `CondBroadcastOp` |
| `Sync` | the thread.c API driven by tasks | `kern`, `lockStatus`, `semCounter`, `barCounter`, `pc` (the rest of a call after `condition_wait`), `holding` (history: locks each task is inside) | one action per API call, plus `CondResume`, `DoYield`, `DoExit` |
| `Mbox` | mbox.c on top of Thread | `kern`, `lockStatus`, `mb` (the `Q[]` array, buffer cell by cell), `pc`, `inflight` (history: messages not yet received) | `MboxOpen`, `MboxClose`, `MboxStat`, `MboxSend`, `MboxRecv`, `MboxResume`, `DoYield`, `DoExit` |
| `VM` | memory.c (in `bootblock.s`) on top of Thread and Scheduler | `kern`, `lockStatus`, `memoryblocks`, `allocated`, `pte` (present, dirty, frame per image page), `mem` (frame contents per sector), `disk`, `pending` (the access being retried), `handed`, `expected` (history: last value written per sector) | `Instruction` (a read or write, which faults on an absent page and runs `PageFault`: `HandlerBody` with `GetMemory` and `ReleaseAndExit`), `DoYield`, `DoExit` |
| `FifoLock` | what a thread.c lock promises: at most one owner and a FIFO of waiters; release passes the lock to the oldest waiter | `owner`, `waiting` | `Acquire(t, l)`, `Enqueue(t, l)`, `Release(l)` |
| `EntrySet` | what a bitmap promises: a set of used entries, allocation takes the smallest free one | `used` | `Allocate`, `Release(e)` |
| `Bitmap` | fs.c `get_free_entry`, `free_bitmap_entry`, `check_bit`, byte by byte over the `BITMAP_ENTRIES/8` bytes that hold entries | `bitmap` (byte array) | `GetFree`, `FreeEntry(e)` |
| `Fs` | fs.c: bitmaps, inodes, directories, per-task `filedes[]` and `cwd`, the `fs_*` calls | `fs` (`imap`, `dmap` and their disk copies `imapDisk`, `dmapDisk`; `inode` and its disk copy `dinode`; `data`; `ub`), `cwd`, `filedes` | `FsOpen`, `FsClose`, `FsRead`, `FsWrite`, `FsLseek`, `FsMkdir`, `FsChdir`, `FsRmdir`, `FsLink`, `FsUnlink`, `FsInit` (a reboot) |
| `MCSync`, `MCMbox`, `MCVM`, `MCBitmap`, `MCFs` | TLC instances | — | — |

How the code maps onto the model:

- The ready ring is a sequence that starts at `current_running`. Inserting "before current" is `Append`. Unlinking the current task is `Tail`.
- A wait queue is a sequence: `block` appends to it and `unblock` takes its head.
- A call that blocks stores what remains of it in `pc[t]`. When `t` is `current_running` again, it runs that remainder: `CondResume` in Sync and `MboxResume` in Mbox.
- `Next == Running(kern) /\ (...)`. Nothing moves after the machine halts (the `while(1)` after the last exit). It also stops when the ring is empty after the last ready task blocked; the code carries on from there (see finding 2), and the model does not follow it.
- `CHECK_DEADLOCK FALSE` is set in every cfg. The code really can stop: it halts after the last exit, and every task can be blocked.
- `VM`: boot (`init_memory`, `setup_page_table`) is `Init`. An access to an absent page runs the whole
  fault handler in one step: `memory_lock` is acquired, `get_memory` picks the next fresh frame or a
  random unpinned victim (its PTE cleared, written back if dirty), the page is read in, and the lock
  is released; the error paths release the lock and `exit()`.
- `Fs`: the C helpers (`resize_inode`, `create_inode`, `db_write`, `create_directory_entry`,
  `remove_directory_entry`, ...) are pure operators from a state to `[fs, ret]`, composed in the
  order the code calls them, so one `fs_*` call is one action with everything it changes. `Bind`
  gives each intermediate state a name that TLC evaluates once.
  - A size is counted in directory-entry records; `BLOCK_SIZE` and `MAX_FILESIZE` are in that unit.
  - The bitmaps are sets of entry numbers; the `bitmap` run shows that the byte code implements
    exactly that (`Bitmap` refines `EntrySet`).
  - Data is kept per inode (`data[i]`, a sequence of records), not per block. File bytes are the
    record `Junk`. This is exact while no block is named twice, which `BlocksExclusive` checks in the
    passing runs.
  - `resize_inode` reloads the bitmaps from disk first and saves them only on success, so memory
    and disk copies are both state.
  - Undefined behaviour (writing `filedes[MAX_OPEN_FILES]`, reading file data as directory entries)
    sets `fs.ub`, and nothing happens after it.
  - Open modes are the bit masks of spec section 6 (`RDONLY=1`, `WRONLY=2`, `RDWR=3`, `CREAT=4`), tested
    with `&` as the code tests them: `fs_read` accepts any mode with a bit of `RDONLY|RDWR`, so a
    write-only descriptor reads, `fs_write` any mode with a bit of `WRONLY|RDWR`, so a read-only one
    writes, and `fs_lseek` treats every mode with the `RDONLY` bit, `RDWR` included, as read-only.
  - Names are character sequences; `strncmp(entry, name, strlen(name))` is `IsPrefix(name, entry)`.
  - `create_directory(...)` adds two calls whose order C leaves open: `LeftFirst` picks the build's order.
  - `save_inode` (`SaveInode`) copies an inode's disk part into `dinode` exactly where the code
    calls it: at the end of a successful `resize_inode`, in `reduce_links` when the inode is kept,
    on the target of `create_directory_entry`, and at the end of `create_directory` and `create_file`.
  - `FsInit` is a reboot between two calls: memory starts as the zeroed statics (`Rebooted`), every
    task has `cwd` 0 and no open file, and `MountDisk` runs `fs_init`'s load path on the disk
    `fs_mkfs` formatted: `load_bitmaps`, then `load_inode` for every set inode bit in increasing
    order, and `free_inode` of each refused one. `load_inode` steps through `direct[]` by
    `BLOCK_SIZE`, so any inode larger than one block makes it read past the array; that is
    undefined behaviour. Data blocks are written through by `db_write`, so an inode's data after the
    reboot is what its blocks held, up to the size on disk. The constant `Reboots` lets a run
    leave the reboot step out of `Next`.
  - Paths: `Name2InodeR` splits at the first `/` as `name2inode_r` does (an empty first part
    matches the directory's first entry, so a leading `/` resolves from `cwd`). `chdir`, `link`'s
    target and `rmdir` resolve paths; `rmdir` splits at the last `/` after the first character.
    `fs_open` of a name starting with `/` opens `cwd` itself.
- `LockAcquire` requires that the caller does not already hold the lock. thread.c locks are not reentrant; re-acquiring deadlocks the caller, and no caller in `src/` does it.

## 3. Runs

| Run | cfg | Checks | Result |
|---|---|---|---|
| `sync` | `MCSync.cfg` | TypeOK, OneListPerTask, LockSafety, SemaphoreNoOverdraw, BarrierCohort, FifoWaitQueues (action property), RingTasksRun (liveness, under `FairSpec`), LockRefinement (refinement of `FifoLock`) | pass, 32,118 states |
| `sem_waiters` | `MCSync_SemaphoreWaitersMatchCounter.cfg` | SemaphoreWaitersMatchCounter | violation, finding 1 |
| `dispatch_ready` | `MCSync_DispatchedTaskReady.cfg` | DispatchedTaskReady | violation, finding 2 |
| `mbox` | `MCMbox.cfg` | TypeOK, MboxOneListPerTask, BufferEncodesInflight, MboxLockFreeBetweenCalls, NoLostWakeup | pass, ~293k states, ~2 min with coverage |
| `vm` | `MCVM.cfg` | TypeOK, MemoryCoherent, MemoryLockFreeBetweenFaults | pass, ~126k states |
| `bitmap` | `MCBitmap.cfg` | TypeOK, GetFreeRoundTrip, AllocatorRefinement (refinement of `EntrySet`) | pass, 65,536 states (every bitmap of 16 entries) |
| `fs_namespace` | `MCFs.cfg` | TypeOK, BlocksAllocated, BlocksExclusive, LinkCountsExact, NoDanglingEntries, DirectoriesWellFormed, RemountRestores | pass, ~288k states, ~2.7 min |
| `fs_files` | `MCFs_files.cfg` | BlocksExclusive, OpenCountExact, RemountRestores | pass, 60,367 states, reboots included |
| `fs_shrink_stale_direct` | `MCFs_BlocksAllocated.cfg` | BlocksAllocated | violation, finding 3 |
| `fs_lseek_extend` | `MCFs_LseekExtends.cfg` | LseekExtends (action property) | violation, finding 4 |
| `fs_open_table_full` | `MCFs_NoUndefinedBehaviour.cfg` | NoUndefinedBehaviour | violation, finding 5 |
| `fs_inode_in_use` | `MCFs_InodesInUseLive.cfg` | InodesInUseLive | violation, finding 6 |

What the properties say:

- `OneListPerTask` / `MboxOneListPerTask` (spec §3):
  - every ready or not-yet-started task is in the ring exactly once and on no wait queue;
  - every blocked task is on exactly one wait queue and not in the ring;
  - exited tasks are on no list;
  - the ring starts at `current_running`.
- `LockSafety`:
  - at most one task is inside each lock;
  - LOCKED holds exactly when some task is inside;
  - waiters imply LOCKED;
  - the task inside is not queued on that lock.

  This is what the hand-off in `lock_release` and the release-then-block order of `condition_wait` must keep.
- `SemaphoreNoOverdraw`: the waiters on a semaphore are never fewer than the counter's debt (`-counter`).
- `BarrierCohort`: the waiters on a barrier equal its counter, and the counter stays below `reach`.
- `RingTasksRun`: every task in the ready ring is eventually `current_running`. It checks that `scheduler()` (advance along `next`), `block()`/`exit()` (unlink the current task) and `unblock()` (link before `current_running`) together never skip a ready task.
- `LockRefinement`: the locks implement `FifoLock`. The mapping takes the owner from the tasks
  inside the lock (the history `holding`; two tasks inside map to no abstract state) and the
  waiters from the lock's wait queue. So `lock_acquire` takes a free lock or queues at the tail,
  `lock_release` hands the lock to the oldest waiter without freeing it, and `condition_wait` is a
  release and, after `block()` returns, an acquire. A `lock_release` that set `UNLOCKED` before
  handing off would let a later task take the lock beside the woken one.
- `FifoWaitQueues`: every step changes a wait queue by removing a prefix and appending tasks that were not on it. So tasks are woken in the order they blocked.
- `BufferEncodesInflight` (spec invariant 5):
  - reading from `tail` gives exactly the encodings (header and payload) of the messages sent and not yet received, in order;
  - `count` is their number;
  - `head` is just past them;
  - `space_available` is `BUFFER_SIZE` minus their bytes.

  This holds across wrap-around and the exactly-full buffer.
- `NoLostWakeup`: a task still waiting on `moreSpace` holds a message whose record does not fit
  in the space now available, and a task waiting on `moreData` sees no message. Senders wait with
  different needs, so a `recv` that woke only one of them (`condition_signal`) would strand another
  whose record now fits.
- `MboxLockFreeBetweenCalls`: no mailbox lock is held, or waited for, between calls. This is what makes `mbox_close`'s `lock_init` harmless.
- `MemoryCoherent`: every process reads back, at every sector of its image, the last value it wrote,
  across random evictions, dirty write-backs and the clamped write-back of a partial last page.
- `MemoryLockFreeBetweenFaults`: `memory_lock` is free, with no waiter, between faults; every
  handler path, the `exit()` ones included, releases it.
- `AllocatorRefinement`: every behaviour of the byte-level bitmap, seen through the set of bits
  `check_bit` reports, is a behaviour of `EntrySet`: `get_free_entry` takes exactly the smallest free
  entry (MSB first within a byte), and `free_bitmap_entry` clears exactly one.
- `GetFreeRoundTrip`: `get_free_entry` returns -1 exactly when the bitmap is full, and freeing what
  it returned restores the bitmap.
- `BlocksAllocated` (spec invariant 7): every block a live inode's `direct[]` names is marked used
  in memory and on disk.
- `BlocksExclusive`: no block is named by two slots, and every block marked used on disk is named.
  This is also what makes keeping data per inode exact.
- `BitmapsSaved` (stated, in no run): between calls the bitmaps in memory equal the ones on disk.
  `RemountRestores` implies it: a remount loads the disk bitmaps and must give back the ones in
  memory. A `resize_inode` that skips `save_bitmaps` breaks both.
- `LinkCountsExact`: a live file's `nlinks` is the number of directory entries naming it, through
  links, unlinks and recursive rmdir.
- `NoDanglingEntries`: every entry of a live directory names a live inode.
- `DirectoriesWellFormed` (spec invariant 8): "." first naming itself, ".." second naming a live
  parent that lists it (the root's names the root), and no file data in a directory.
- `RemountRestores`: after every call, a reboot would lose nothing: `fs_init` mounts the same
  bitmaps and, for every live inode, the same type, size, link count, `direct[]` and data, and
  refuses none. It fails if any call changes a live inode without `save_inode`, or leaves an inode
  that `load_inode`'s checks reject, or one big enough for its stride to read past `direct[]`.
- `OpenCountExact`: `open_count` is the number of open-file slots naming the inode.
- `LseekExtends` (spec, open-file table): an lseek past the size in a writable mode, up to
  `max_filesize`, moves `pos` there and grows the file.
- `InodesInUseLive`: every task's `cwd` is a live directory and every open slot names a live inode.
- `NoUndefinedBehaviour`: no call reaches undefined behaviour.

Bounds:

- **MCSync:** 3 tasks (one a thread), 2 locks, 1 condition, 1 semaphore (initially 0, counter capped at 2), 1 barrier with `reach = 2`. Three tasks are enough to have two waiters queued behind a third task, which FIFO order and the semaphore finding need. The second lock lets a task hold one lock while it waits on the condition with the other, or queues for it, so the refinement covers nested locking.
- **MCMbox:** 3 tasks, 1 mailbox of 4 bytes, a 1-byte header, payloads of 0-2 bytes, 1 payload identity, at most 1 open. A 3-byte message followed by a 2-byte one wraps. Two 2-byte messages fill the buffer exactly.
- **MCVM:** 2 processes with 3-sector images over 2-sector pages, stored back to back, so each
  image's second page is partial and its write-back is clamped at the next image. 2 pageable
  frames remain after boot, so every third fault evicts.
- **MCBitmap:** 16 entries (2 bytes). Every bitmap is reached, so the byte boundary, the full
  bitmap and `free_bitmap_entry(BITMAP_ENTRIES)` all occur.
- **MCFs (namespace):** 1 task; 4 inodes and 4 data blocks; blocks of 5 records, so no directory
  needs a second block; names `a` (file), `b` and `..` (directories), `c` (link); link counts up to 4
  (`MAX_NLINKS`, a model bound guarding mkdir and link). Four inodes fill the inode bitmap: the
  root, a directory inside a directory, and a file.
- **MCFs (files):** 1 task, 2 files, 2 open-file slots, opens in `RDWR|CREAT`, `WRONLY|CREAT` and `RDONLY`, writes and reads of 1-2 records, lseek to 0
  and to the end + 1, files up to 4 records in one block, and reboots at any point between calls.
- The namespace run sets `Reboots = FALSE` to stay within time: `RemountRestores` still mounts the
  disk of every state it reaches, and shows that the mounted state equals the state before the
  reboot, apart from `open_count`, `pos`, `cwd` and the descriptor tables, which the reboot resets.
  The files run takes the reboot steps themselves.
- Names in the namespace run have no `/`. With the path `b/b` added, the run grows past 880k
  states and every property still holds. With `../b`, TLC finds `rmdir` removing the task's own
  `cwd` (the `InodesInUseLive` class, hazard at `fs.c:674`).
- The passing runs keep every file in one block. A file of two blocks reaches the bugs of findings 3
  and 7, which break the invariants of every state after them; the violation runs use blocks of 2
  records for that.

Every property of a passing run has a mutant in `PROJECT.json`: a plausible bug in the mapped code under which TLC finds the property violated.

Fairness. Only the `sync` run assumes any, through `FairSpec` in `Sync.tla`:
- weak fairness of `Next`: the CPU always executes `current_running`, so a task that can take a step eventually takes it;
- weak fairness of `YieldStep`, the running task's `yield()`.

The kernel never preempts. A task leaves the CPU only by yielding, blocking or exiting. The second assumption is the client contract of a cooperative kernel, not something the code enforces. A client that loops without yielding starves the others, and the model does not check that case. All other runs check safety only.

## 4. Findings

1. **`semaphore_up` strands waiters** (`thread.c:102`). A waiter is woken only when the counter is ≥ 0 after the increment. After k blocked downs, the first k−1 ups wake nobody, and the k-th wakes one. Spec §8 and scenario 6 expect all k to be released.
2. **Last ready task blocking** (`scheduler.c:33`). Its `next` is itself, so `current_running` stays on the BLOCKED task and `dispatch()` returns into it. Its links have been zeroed, so the next scheduling point dereferences null.
3. **A shrink keeps the freed block in `direct[]`** (`fs.c:128`). `resize_inode` frees the block of a
   slot no longer needed but leaves its index. The inode names a free block, and a later grow skips
   the slot because it is not -1. A write at a rewound position (which shrinks, finding 7) is enough.
4. **`fs_lseek` inverts the resize test** (`fs.c:620`). `!resize_inode(id, offset)` is true when the
   resize succeeds (FSE_OK = 0): the call returns FSE_FULL and `pos` stays. A failed resize moves
   `pos`. The size it resizes to is `offset`, not the new position. The resize is reached only by a
   mode without the `RDONLY` bit (`fs.c:611`); `RDWR` (3) has it, so a read-write descriptor gets
   FSE_EOF past the end and never extends. The run opens the file write-only.
5. **`fs_open` with a full descriptor table** (`fs.c:498`). The loop ends with `x = MAX_OPEN_FILES` and
   `i = -1`; the code then writes `filedes[MAX_OPEN_FILES]` and `inodes[-1]`.
6. **A freed inode stays in use** (`fs.c:722`). `fs_unlink(".")` is not refused: the directory's own
   entry is dropped and `reduce_links` frees it, and the task keeps it as `cwd`. In the root this frees
   inode 0. The same property is broken by `rmdir` of another task's `cwd` (`fs.c:692`) and by
   unlinking an open file (`fs.c:174`).

Seen while modelling, with no run of their own (see the hazards in `PROJECT.json`):

7. `db_write` resizes the file to `start + size` (`fs.c:239`), so a write in the middle truncates the
   file (`WriteNeverShrinks` fails).
8. A `resize_inode` that fails on its second slot returns without `save_bitmaps` (`fs.c:123`): the
   first block is marked in memory only, and the next `load_bitmaps` forgets it while `direct[]`
   keeps it (`BitmapsSaved` fails with blocks of 2 records).
9. `get_free_entry` may return an entry at or past `ndata_blks`; it is stored in `direct[]` before the
   test (`fs.c:121`) (`DirectIndicesValid` fails when `NDATA < BITMAP_BITS`).
10. Name lookup matches prefixes (`fs.c:879`): `a` finds `ab` (`NameLookupExact` fails).
11. `fs_open("/a")` opens `cwd`, a directory, in the caller's mode (`fs.c:497`, flagged in spec §9).
    A one-record write then truncates the directory to that record and overwrites "." with file
    bytes (`DirectoriesWellFormed` fails with the files bounds and the name `/a`).
12. `load_inode` indexes `direct[]` with the byte offset `x` (`fs.c:100`). At every boot, each inode
    larger than one block makes `fs_init` read past `direct[]`, and what it reads decides whether a
    valid inode is freed. With blocks of 2 records, `RemountRestores` fails at the first reboot,
    because the two-entry root directory is already that large.

Found by reading the code, and not modelled (hazards in `PROJECT.json` with a note):

13. `fs_lseek` has no lower bound (`fs.c:625`). A negative position is stored, and the next
    `db_write` then truncates the file to `start_pos + size`. Both `db_read` and `db_write` pass a
    negative offset into a block.
14. `exit()` releases nothing (`scheduler.c:62`). A task killed by a task-fatal error while inside a
    lock leaves that lock `LOCKED`, and every later `lock_acquire` on it blocks forever.
15. `identity_map` indexes one table per 1024 pages from `addr` (`bootblock.s:334`). A device range
    that crosses a 4 MB boundary wraps the index to 0 and maps its upper pages into the lower table.
16. `idx2blk` puts data block 0 at `SUPER_BLOCK_START + 34` (`fs.c:866`). spec.md's on-disk layout puts it at
    `+ 35`, past the superblock, both bitmaps and the 32 inode blocks. So data block 0 shares a disk
    block with inodes 496-511. This is unreachable: `get_free_entry` searches only 256 bits, so no
    inode above 255 is ever allocated.
17. `used` counts opens per mailbox, not per task (`mbox.c:101`). A close by a task that never
    opened the mailbox drops `used` to 0, and the reset discards the messages queued for a task that
    still has it open.
18. `fs_close`, `fs_read`, `fs_write`, `fs_lseek` and `fs_stat` never check `0 <= fd < MAX_OPEN_FILES`
    (`fs.c:527`). An out-of-range descriptor reads, and in `fs_close` writes, outside `filedes[]`.

## 5. Plan (later work)

1. **Crashes inside a call.** The disk writes of one call (`save_bitmaps` before `save_inode`)
   as separate steps, with a reboot allowed between any two. spec.md makes crash safety a non-goal,
   so this would document the exposure rather than check a promise.
2. **Multi-block files** in a passing run: per-block data rather than per-inode, so the model stays
   exact when blocks are shared (after finding 3), and `db_read`/`db_write` over block boundaries.
3. **Paths in a passing run** within the time bound, with inputs that do not remove the task's own `cwd`.
4. **More liveness** under the fairness of `FairSpec` (`RingTasksRun` is done). Runs:
   - starvation-freedom of lock clients;
   - a run on spec §5's "an unblocked task runs at the next scheduling point";
   - the barrier partner that exits;
   - every page fault eventually completes (VM).

## 6. Not modelled

- `entry.S` register save layout, and interrupts.
- The timer cycle accounting in scheduler.c.
- The boot loader and the image builder (`createimage`, in fs.c). spec.md puts both out of scope.
  The boot loader is one BIOS disk read and a jump. The image builder runs on the build host and
  shares no state with the kernel. Their one contract is covered by the hazard at `bootblock.s:61`:
  `os_size` goes into the 8-bit AL.
- Text output (`scrprintf`).
- The block/USB driver, which is not in `src/`: disk writes are assignments to the disk copies.
- `fs_stat` (it changes no state), `print_debug_info` and the `bitmap_used_space` count it prints, and the byte layout of inodes and entries.
- `identity_map` and the kernel's page tables beyond the pinned frames they take.
