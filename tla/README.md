# TLA+ models of MeOS: page cache, FAT32 driver, i217 NIC rings

These modules model the parts of `src/` that carry state across calls:
- the kernel page cache;
- the FAT32 driver that runs on top of it;
- the descriptor rings of the i217 network driver.

Each was written from the source, function by function. `PROJECT.json` maps every modelled definition to the lines it translates, and lists the runs, mutants, findings and hazards.

## The system and how its parts interact

```
VFS call ──> FAT32 driver (FAT32_fs.cpp) ──> page cache (page_cache.cpp) ──> vmmngr
                 │ FAT table access, directory entries       pool + bitmap + per-gfd page lists
                 └─ block I/O shim (read/write_by_*) ──> disk
NIC: device ⇄ descriptor rings ⇄ driver (i217.cpp: callback, recv_packet, sendPacket)
```

Every FAT operation works the same way:
1. It reserves a page-cache buffer.
2. It reads sectors into the buffer.
3. It edits the buffer, writes it back and releases it.

The FAT table's scratch buffer has the key `<<root fd, GFD_FAT_SPECIAL>>`. A directory cluster is buffered under `<<fd, offset>>`.

## Inventory

| Part | Source | Module | Status |
|---|---|---|---|
| Page cache (sequential) | page_cache.cpp | `PageCache` | modelled |
| Page cache, concurrent callers | page_cache.cpp 130–178 | `PageCacheRace` | modelled |
| FAT table access | FAT32_fs.cpp 447–603 | `FatTable` | modelled |
| Short-entry cluster fields | FAT32_fs.cpp 453–456, 758–788 | `FatVolume` | partly |
| Volume operations: mount, open, create, delete, move | FAT32_fs.cpp 279–288, 606–1114 | `FatVolume` | partly |
| File contents: read, write, sync | FAT32_fs.cpp 165–276, 291–330, 476–500 | `FileIO` (with `PageCache`) | modelled |
| Block I/O shim | FAT32_fs.cpp 349–438 | `FileIO`; only "may fail" in `FatTable` and `FatVolume` | modelled |
| i217 rings | i217.cpp 98–244 | `E1000` | partly |
| Loader utilities, descriptor tables, port I/O, headers | MeOSLDR/{utility,descriptor_tables,system}.c and types.h, MeOS/*.h other than i217.h | — | not modelled |

The last row is not modelled because it is pure I/O, hardware set-up or declarations.

## Modules

### `PageCache`
- **State:**
  - `bitmap`: `alloced_bitmap`, one byte per slot.
  - `pages[g]`: the page list of each GFT entry.
  - `anon`: a history variable holding the slots that anonymous clients hold.
- **Actions:** one per public call:
  - `ReserveAnonymous`
  - `ReleaseAnonymous`
  - `ReserveBuffer`
  - `ReleaseBuffer`
  - `MakeDirty`
- **Lookups:** read-only lookups are operators: `GetFInfo`, `GetBuffer`, `IsPageDirty`, `IndexFreeBuffer`.
- **Failures:** the failure of `vmmngr_alloc_page` is one of the outcomes of `ReserveAnonymousOutcomes`.
- **List code:** the kernel's list code is not in the repository. `ListRemove` and `ListRemoveFront` model the two call sites in `page_cache_release_buffer`. `ListRemove` takes `list_remove(list, prev)` as unlinking `prev`'s successor, which is the reading the call site depends on.

### `PageCacheRace`
This module runs `page_cache_reserve_anonymous` and `page_cache_release_anonymous` in several threads.

The source has its `critlock` calls commented out, so the call is split at each access to the shared bitmap:
- `Find`: the scan;
- `Reserve`: `index_reserve`;
- `VmAlloc`: success, or failure followed by `index_release`.

No lock is modelled, because the code takes none. The serialisation that spec section 5 requires is the fix, and a model of the fix would not describe this program.

### `FatTable`
This module holds the FAT region as one function: FAT #1, then FAT #2. Each of these is an operator that returns the set of its outcomes:
- `FindNextCluster`
- `MarkCluster`
- `ReserveFirstCluster` (a `RECURSIVE` scan)

Each one keeps the code's sector arithmetic. `EntriesPerSector` and `SectorsPerBuffer` are constants: the code uses 128 and 8.

`BufferWord` returns an unknown value for a word read past the 4 KiB buffer or past the FAT region.

`Failed(x)` adds the outcome of a failed reservation or transfer when `IoFail` is TRUE.

### `FatVolume`
This module composes `FatTable` (`Fat == INSTANCE FatTable`) with the root directory cluster and the VFS nodes.

**State:**
- `disk`
- `dirent`: each slot's first-byte mark, name and first cluster;
- `node[f]`: `exists`, `slot` (the metadata index) and `layout`;
- `cached`: the page-cache buffers held across calls.

**Init** is `fat_fs_mount` of a constant image. **Actions**, each one whole driver call:
- `Open`, which includes `load_file_layout`;
- `CreateNode`, which includes `find_empty_entry`, `reserve_first_cluster` and `initialize_node_cluster`;
- `DeleteNode`, which includes the chain-freeing loop;
- `MoveNode`, within the root directory;
- `Remount`, a reboot followed by `fat_fs_mount`.

**Directory entries:** an entry keeps the first cluster as the code stores it, a 16-bit low word and a 16-bit high word:
- `CreateNode` writes it through `ShortEntryFor` (`create_short_entry_from_node`);
- mount decodes it through `GetEntryDataCluster`.

The properties read an entry's cluster in the FAT32 layout (`FirstCluster`). With the model's few clusters the high word is 0 and the reader's missing shift (line 455) is invisible. It bites from cluster 65536 on: `GetEntryDataCluster(ShortEntryFor(f, 65536)) = 1`.

**How the model abstracts the code:**
- The pool's depletion is `Avail(k)`.
- The fall-through return of `initialize_node_cluster` is a nondeterministic choice over `InitNodeResults`.

### `FileIO`
This module models `fat_fs_read`, `fat_fs_write` and `fat_fs_sync` on one open file. It composes `PageCache` (`Cache == INSTANCE PageCache WITH Gfds <- {Fd}, ...`) and shares its `bitmap` and `pages` variables.

**State:**
- `mem`: the contents of each pool buffer;
- `disk`: the contents of each sector;
- `user`: the caller's destination buffer;
- the running call: `pc`, `op` and the arguments, plus `cur`, `pg` and `done`, which are the code's `current_pg`, `pg` and `read`;
- `result`: what the last call returned.

**Data:** a unit is one sector, so `PageSize` stands for both the code's 4096 bytes and its 8 sectors. Sector `s` initially holds `s`, and byte `i` of the caller's source holds `100 + i`. Data copied to the wrong place is therefore visible.

**Actions:** a read or a write is split into the steps the code takes:
- `ReadBegin`/`WriteBegin`: the first page and the partial chunk;
- `ReadPage`/`WritePage`: one iteration of the intermediate-page loop;
- `LoopExit`: `if (read == count)`;
- `ReadLast`/`WriteLast`: the last page.

Every step goes through `fat_fs_read_to_cache`:
- `ReadToCache` is a hit, or a miss that reserves a buffer and fills it (`CacheFill`);
- `ReadToCacheFails` is a full cache, or a failed `read_by_page`. In the second case the reservation is applied and then `page_cache_release_buffer(fd, page)` runs on the resulting cache (`ReleaseAfterReserve`, through `PageCache`'s `RemovePage`). The release is computed, not assumed.

`Sync` is one step. The recursive `SyncFrom` skips pages that have no buffer and stops at the first failed write.

**The shim:** it keeps each function's lba arithmetic. `ReadByPage` goes through `DataClusterLba`. `WriteByPage` passes the cluster number as the lba, as the code does.

Only one call runs at a time. The kernel has preemptive threads (`process.h`) and the VFS takes no lock, so two calls on one file can interleave, for example both missing a page at line 479. That interleaving is not modelled, and it is listed as a hazard.

### `E1000`
**Driver actions:** each driver function is split where the device can act between its accesses to the ring:
- `Callback`: the interrupt handler reads and clears ICR. On RXT0 it runs `RecvPacket`, which notes the buffer at `rx_cur`, advances `rx_cur` and writes RDT (lines 165–173).
- `RecvHandOn`: the rest of `e1000_recv_packet`, which reads the packet through the noted buffer (175–189). By then the descriptor already belongs to the device again.
- `SendFill`: fills descriptor `tx_cur` (150–153).
- `SendTail`: advances `tx_cur` and writes TDT (154–156).
- `SendReturn`: the end of the busy wait.
- `Init`: `e1000_start`, that is `rx_init` and `tx_init`.

`sent` is a history variable that keeps the first `MaxSends + 1` transmissions. That is enough to show a duplicate, and it keeps the state space finite while the device loops over the ring.

**The device:** the device is the environment. `DeviceReceive` and `DeviceTransmit` follow the 8254x ring rules:
- the device owns the descriptors from head up to, but not including, tail;
- it stops when head equals tail;
- it drops an arriving packet, with an RXO cause, when it owns no descriptor.

## Runs

| Run | Kind | Checks | Shows |
|---|---|---|---|
| pagecache | pass | TypeOK, BufferOwnership | each slot's bitmap byte matches exactly one holder |
| pagecache_race | violation | ExclusiveReservation | with `critlock` commented out, two threads get the same buffer |
| fat_small | pass | FilesOwnDisjointChains, NoLeakedCluster, DirectoryWellFormed | all three hold in one-sector geometry without I/O faults |
| fat_faults | pass | TypeOK | every failure path of create, delete, move and remount stays within the types and the pool. The deeper properties do not hold under faults: see fat_moveretry, and lines 752 and 1084 |
| fat_crosslink | violation | FilesOwnDisjointChains | reserve_first_cluster returns an unmarked cluster (line 563) |
| fat_moveretry | violation | FilesOwnDisjointChains | a move fails after marking its source (982 or 972) and keeps its stale slot. A create reuses the slot, the retried move copies the other file's entry, and deleting that file leaves the copy live on a freed cluster |
| nic | pass | TypeOK | ring indices, the handler and the send path stay in range over every interleaving of the device with the split driver steps |
| nic_rxstall | violation | RxDelivered | a packet stored under an interrupt that already delivered one is never delivered if no more traffic comes (line 203) |
| nic_txhang | violation | SendReturns | `tx_init` sets TDT past the ring (line 136), so the device passes descriptor 0 before the first send. The send then writes tail 1 = head, DD never comes, and the busy wait at 158 spins forever |
| fileio | pass | TypeOK, CacheBuffersOwned | with a depleted pool and device failures, the release by page after a failed read frees exactly the buffer just reserved, at every step of a call |
| fileio_transfer | violation | TransferCorrect | a two-page read copies its second page one page too far: junk is left right after the first chunk, and data is written past `count` (line 202; the write loop at 260 is the same) |
| fileio_sync | violation | DiskOutsideFileIntact | sync writes a page at lba = cluster number, over the FAT region (line 437) |

### Defects without a run of their own

At most twelve runs are kept, so these defects are listed as hazards in `PROJECT.json` rather than as violation runs:

| Source line | Defect |
|---|---|
| FAT32_fs.cpp:524 | `find_next_cluster` reads word `c` of the loaded sector, not `c % 128` |
| FAT32_fs.cpp:752 | a failed read appends 0 to the layout |
| FAT32_fs.cpp:897 and 1106 | `find_empty_entry` skips the last slot, and `create_node` then leaks the (fd, 0) buffer |
| FAT32_fs.cpp:1084 | a failed directory write leaks the reserved cluster |
| FAT32_fs.cpp:982 | a move with no free slot loses the entry and returns VFS_OK (reached by fat_moveretry as its failed first move) |
| FAT32_fs.cpp:807 | the '..' entry masks its high word with 0x00FF |
| FAT32_fs.cpp:115 | `generate_short_name` drops the extension of a name with an 8-character base |
| FAT32_fs.cpp:152 | `validate_83_name` reads one element past `bad_values` |
| i217.cpp:173 | `tail = rx_cur` leaves the device no descriptor once the driver catches up |
| i217.cpp:173 | RDT is written before the packet is read. With 4 packets, TLC finds the handler handing on packet 4 in place of packet 1 |
| i217.cpp:156 | the descriptor is filled before TDT is written. TLC finds packet 1 transmitted twice; the root cause is line 136, the nic_txhang finding |
| FAT32_fs.cpp:455 | `get_entry_data_cluster` omits the `<< 16` of the high word |
| FAT32_fs.cpp:466 | `fat_node_write` writes through the buffer of a directory page that every caller has released |
| MeOSLDR/utility.c:103 | `%b` formats up to 33 characters into `buffer[20]` |

Every property of a passing run has a mutant in `PROJECT.json`: a plausible bug in a mapped definition, under which TLC finds that property violated.

## Bounds and why they are enough

### PageCache
- `NumBuffers = 4`, with the last buffer holding the bitmap.
- Two gfds and two pages.

This is enough for two records of the same page (reserve_buffer appends duplicates), a release of a non-head record, and a depleted pool.

### PageCacheRace
Three slots and two threads. Two threads are enough to collide on one slot.

### FatVolume
The base geometry has:
- 8 entries per sector, 2 sectors per buffer and 1 FAT sector: 8 clusters;
- a root directory of 4 slots;
- 3 cache buffers;
- layouts of at most 3 clusters.

The base image holds `a` at `<<3,4>>`, so a chain of more than one cluster exists from the start.

Other runs change these bounds:
- **Crosslink:** it uses 2 entries per sector and 4 FAT sectors, so the scan moves on to the second buffer of the FAT. In the code, that happens once the first 128 FAT entries are in use. The small geometry keeps the structure of the bug: 4 entries per buffer, with the scan stepping by sectors of 2 entries.
- **Faults run:** it uses two files and 3 slots. It checks only TypeOK, and three files with 4 slots did not finish within 30 minutes.
- **Move-retry run:** it uses three files and 4 slots under faults. That is the smallest instance in which a failed move, a create into the marked slot and a delete can all happen. TLC finds the violation in a few seconds.

`fat_small` keeps one FAT sector and never fails. In that geometry `find_next_cluster`'s word index (524) is always the right one, and a free slot exists for every move. No property about layouts is therefore claimed. The layout and move defects appear as findings or hazards.

### FileIO
- A two-page file at clusters 2 and 3.
- `cluster_lba = 4` and 8 sectors, so the FAT region (sectors 0–3) is on the disk.
- Pages of 2 units and 3 pool buffers, one of which holds the bitmap.

The pass run uses starts {0, 1, 3} and counts {1, 3, 4, 5}. This covers three shapes of transfer:
- a partial first page;
- a count of two or more pages, which enters the intermediate loop;
- a transfer whose last page lies past the layout.

The two usable buffers hold the whole layout. A transfer that reaches the page past the layout therefore finds the pool depleted part-way through the call. `TransferCorrect` holds for every transfer shorter than two pages (checked with counts 1–3 from every start). The defect needs a count of at least two pages.

### E1000
- Rings of 3 descriptors.
- 3 arriving packets and 2 sends.

This is enough for the device to pass the transmit ring's empty descriptors and for two packets to share one interrupt. Three packets cannot wrap the receive ring onto a buffer being parsed; with 4 they do (see the hazard at 173).

## Fairness

### E1000
`Spec` has weak fairness on five actions:
- `Callback`: a pending cause raises an interrupt, which is serviced;
- `RecvHandOn`: the handler runs to its end;
- `DeviceTransmit`: the device works its queue while head differs from tail;
- `SendTail`: a started send reaches its tail write;
- `SendReturn`: the spinning CPU reads DD once it is set.

Arrivals are not fair, because traffic comes from the wire.

`MC_E1000.cfg` sets `CHECK_DEADLOCK FALSE`: once the bounded traffic is done, the system really does stop in a quiet state.

### FileIO
No fairness is assumed, because no FileIO run states a liveness property. The read and write loops are counted `for` loops in which every step advances or returns, so their termination holds by their shape.

## What is not modelled

- `fat_node_write` and `fat_fs_ioctl`. Modelling them needs `FatVolume` to key its cache buffers by page, as `FileIO` does, instead of counting them.
- Short-name generation and validation, which are formatting.
- A file growing past its layout: the code has a TODO at line 289 and fails the transfer instead.
- Subdirectory creation: `initialize_directory` appears only through its '..' encoding.
- Directories longer than one cluster.
- The second FAT copy's synchronisation: the driver never writes FAT #2.
- PCI, EEPROM and MMIO access in the NIC driver.
- The double `vmmngr_get_phys_addr` translation of a buffer address, first at lines 423/437 and again at 359/379. The model treats it as the identity on the data path, and no property depends on it.
- A refinement of `PageCacheRace` onto `PageCache`. It holds only under a whole-call lock that the code does not take, so it would describe spec section 5's fix rather than the program.
- Everything in src/MeOSLDR:
  - port I/O, interrupt generation and descriptor loading are instructions with no state a model could check;
  - the conversion helpers (`uitoa`, `atoui`, `memset`) and the gate encoders are pure functions a bounded check could cover. They are left out because each run of this project goes to a defect or a property of the stateful components. Their defects are listed as hazards.

## Next steps

- Model multi-cluster directories, so that `find_empty_entry`'s layout loop and `read_directory`'s chain walk are exercised.
- Compose `FileIO` with `FatVolume`, so that a file's layout comes from `Open` instead of a constant.
- Compose `FatVolume` with `PageCache` as a refinement of `cached`, instead of a counter.
