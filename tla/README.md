# A formal model of the 1541 Ultimate-II firmware

The 1541 Ultimate is a cartridge for the Commodore 64. An FPGA holds the
hardware it emulates (disk drives, tape, cartridge, command interface); a soft
CPU inside it runs firmware in C++ on FreeRTOS (`src/trunk/software`), with FAT,
D64, T64 and ISO file systems, USB, a network stack and a menu. This directory
holds TLA+ models of the parts where hardware, interrupts and tasks meet, the
TLC runs that check them, and TLAPS proofs.

Paths below are relative to `src/trunk/`.

## 1. Inventory

| Component | State | Operations | Interacts by | What is hard | What makes it correct |
|---|---|---|---|---|---|
| Command interface registers (`fpga/io/command_interface`) | state, handshake flags, interrupt mask, pointers and lengths of three buffers | C64: control, command, data, status; Ultimate: handshake, lengths, mask | shared registers, one interrupt line | two bus masters, flags set by one and cleared by the other | one open command, answers belong to it, nothing of an older one readable |
| Command interface server (`software/io/command_interface`) | queue, target, reply | interrupt routine, `run_task`, `copy_result` | queue, calls of targets | interrupt against task, abort against reply, C64 against both | every flag is served once; every push is answered; abort ends in idle |
| Dos target (`software/filemanager/dos.cc`) | open file, path, directory list, `dos_state` | about 25 commands, `get_more_data`, `abort` | file manager, drive subsystems | long sequences of legal commands; errors half way | status tells what happened; no file lost; listing ends |
| 1541 drive (`software/drive/c1541.cc`, `fpga/1541`) | mounted file, disk state, dirty flags, `write_skip` | `poll`, mount, remove, unlink, blank, swap, reset, save | registers, subsystem mutex, file manager, user interface | the drive writes while the firmware saves | what the drive writes gets into the image it belongs to |
| Subsystems (`software/infra/subsys.h`) | one mutex each | `execute`, `lock` | calls from one subsystem into another | time-outs, nested commands | mutual exclusion, no cycle |
| File manager (`software/filemanager`) | tree, mount points, open files, observers | open, close, stat, delete, rename, `invalidate` | called by all tasks; sends events | media that disappear, nested file systems | no use of what was deleted; observers hear of every change |
| File systems (`software/filesystem`) | sector cache, allocation map, chains | open, read, write, seek, sync | partitions, block devices | allocation, chains with loops, write-back of the cache | a file reads what was written |
| Tape recorder (`software/io/tape`) | ring of blocks, counters, file | interrupt, `poll`, `flush`, `start`, `stop` | interrupt, task, command | three parties on the same ring, write errors | no block lost or written twice; stop terminates |
| IEC device (`software/io/iec`) | channels, prefetch pointers | open, talk, listen, close, UltiCopy | hardware FIFO, queues between tasks | prefetch against acknowledge | bytes in order, last byte marked |
| USB (`software/io/usb`) | devices, slots, event and cleanup queues, packet blocks | attach, detach, transfers | interrupt, tasks, network task | unplugging at any time | no slot or block lost, no use after removal |
| Network (`software/io/network`, `software/network`) | packet buffers, sockets | receive, free, link up and down; FTP, socket DMA | interrupt, lwIP thread | buffers that circulate between hardware and stack | every buffer comes back |
| User interface, config, file types, C64 control | menus, settings, frozen machine | - | commands to subsystems | mostly sequential | - |

FreeRTOS, lwIP, FatFs, lodepng, the board support packages and the assembler
are third-party code; `src/branches` holds older copies of the tree.

Every hazard we know of is in `PROJECT.json` under `hazards`, at the line where
it bites, with the properties that would catch it or the reason why none does. Where the
code does go wrong, a property of a passing run cannot hold without leaving the case out; the
note of such a hazard says what leaves it out, and section 3 with which constants the
property fails.

## 2. The modules

| Module | Models | Kind |
|---|---|---|
| `CommandProtocol` | `command_protocol.vhd`: the register block, one operator per bus access | component |
| `CommandInterface` | C64 program, interrupt routine, `run_task`, `copy_result`, targets; properties | composition |
| `UciProtocol` | what a C64 program is promised | abstract specification |
| `MCCommandInterface` | small instances of it | for TLC |
| `CommandInterfaceProofs` | types, interrupts, queue, replies of a patient C64, refinement of `UciProtocol` | proofs |
| `C1541Drive` | one drive, its image files, `poll` and `executeCommand`; properties | component |
| `MCC1541Drive` | small instances of it | for TLC |
| `C1541DriveProofs` | types, open files, image contents, write-back | proofs |
| `PacketBuffers` | receive filter, ring of buffers, driver of the RMII interface, glue to the stack; properties | composition |
| `BufferCycle` | the way of a packet buffer, packets in order | abstract specification |
| `MCPacketBuffers` | small instance of it | for TLC |
| `PacketBuffersProofs` | types, conservation of buffers and pbufs, refinement of `BufferCycle` | proofs |
| `IecTalk` | channels, task, FIFOs and bus processor of the IEC device, host; properties | composition |
| `ByteStream` | what a reading host is promised | abstract specification |
| `MCIecTalk` | small instances of it | for TLC |
| `IecTalkProofs` | types, closed files | proofs |
| `IecStreamProofs` | refinement of `ByteStream` | proofs |
| `D64Geometry` | track and sector against sector number | functions |
| `FileSystemD64` | window, directory lookup, read, write, seek, allocation; properties | component |
| `FileStore` | what the user of open files is promised | abstract specification |
| `MCFileSystemD64` | a small disk image, whole and damaged; geometry over bounded inputs | for TLC |
| `FileSystemD64Proofs` | types, errors with a reason, refinement of `FileStore`; the functions of `D64Geometry` are inverse to each other | proofs |
| `Dos` | the DOS target of the command interface; properties | component |
| `MCDos` | small files and directories for it | for TLC |
| `DosProofs` | types, transfers, whole replies, lost objects | proofs |
| `TapeRecorder` | FIFO, ring of blocks, interrupt, polling task, commands, file; properties | component |
| `TapeRecorderProofs` | types, closed recordings | proofs |

### 2.1 Command interface

Registers keep their names from the VHDL source: `state`, `handshake_in` (as the
set of its bits), `irq_mask`, the three pointers. One step of the model is one
bus access, together with the code around it that touches data of one party
only. When both sides access the block in the same clock, the assignments of the
Ultimate's side come last in the process and win; that is the interleaving "C64
first", so a single order of accesses covers it.

| Action | Code |
|---|---|
| `C64_WriteControl`, `C64_WriteCommand`, `C64_ReadResponse`, `C64_ReadStatus` | slot side of `p_control`; disabled while `freeze` stops the C64 |
| `ISR_ReadStatus`, `ISR_MaskAndSend` | `command_interface_irq`: the status byte is read, then the mask; then the mask is set and the new flags are sent |
| `Receive`, `Abort`, `AbortUnmask`, `More`, `AcceptData`, `AcceptUnmask`, `LengthL`, `LengthH`, `AcceptCommand`, `NewUnmask` | the three blocks of `run_task`, access by access |
| `CopyLenH` ... `CopyValidate` | `copy_result` |
| `NullCommand` | the null command, five accesses |

`pc` is the next access of the task; the routine interrupts the task, so the
task does not step while `isr # "off"`. `item` holds the flags of the received
byte whose block is not done; `BlockFor` is the order of the three `if`s.
Targets are abstract: `parse_command` chooses how many further parts there will
be, `get_more_data` gives the next one and says whether it is the last. This is
the protocol of `Dos::get_more_data` for READ_DATA; the mutant `PartShortRead`
is the off-by-one it avoids.

`written`, `sent` and `taken` are history variables: what the C64 has written,
the command that is open, the parts it has accepted. No guard but those of the
C64 program reads them.

The C64 is any program in the run `uci_any`. `Rules = {"patient", "sized"}`
describes the program that the documentation shows: it looks at the status
register first, and its commands have between one byte and the size of the
buffer less one.

Abstraction of the data: the command buffer is its first byte (the target is
taken from it) and the pointer; contents of replies are "part k of the reply to
command c"; `ByteBase` stands for 256, so that a length has a high byte in small
instances. The memory copies of `copy_result` are one step with the first length
register: the C64 can read the buffers only when the lengths allow it, and they
are 0 until then.

Not modelled: `enabled` and the slot base (written once at start), the menu item
and `executeCommand` (compiled for DEVELOPER only), the saturation of the
response pointer that makes the last byte of an 896-byte reply unending.

### 2.2 Drive and write-back

| Action | Code |
|---|---|
| `SwitchMotor`, `StepHead`, `WriteTrack` | the drive under its own ROM: motor, stepper, and the marks of `drive_registers.vhd` in every clock of a write |
| `Lock`, `Test`, `ReadFlag`, `ReadMotor`, `ReadTrack`, `ClearFlag`, `WriteBack` | `run` and `poll`, register access by register access |
| `Execute` | `SubsysCommand::execute`, the mutex |
| `Open`, `Ask`, `Mount`, `Close`, `Eject`, `Load`, `Insert`, `Unlink`, `Swap`, `Reset` | the cases of `executeCommand` and the functions they call |
| `DrivePower` | `IecInterface::start_warp` (without the mutex) and `effectuate_settings` (with it) |
| `TakeMedia` | `FileManager::invalidate`, as far as the drive's file goes |

A track is the disk it belongs to and a version number; version `Torn` is a copy
taken while the drive was writing. `WriteBack` copies what is on the track. If
the drive wrote between `ClearFlag` and `WriteBack`, the file may have the old
version, the new one, a mixture, or what was there before (a D64 track that does
not decode is not written): `Outcomes`. A write that fails leaves the file alone;
`failed` is a history variable, the tracks of the disk for which that was so.

D64 and G64 disks differ in the format only and are both `"linked"`. A load that
fails is modelled for `GcrImage::load`, which leaves the track addresses alone;
a failing read of a D64 is not. `check_if_save_needed` saves to another file
when the user says yes, so for the image it is the question alone; a command
without user interface ends in `"crashed"`.

The sensor is a rule of the drive's ROM: `write_prot_n` is not connected to the
write logic of `floppy_stream.vhd`, so a program in the drive may ignore it. The
model takes the ROM's side. The drive is configured as powered, so a reset turns
it on. A command that does not get the mutex in 1000 ticks does nothing, which
is a stutter here. Commands that mount without looking at the result of `fopen`
(`MENU_1541_MOUNT`, used by one file type) and the settings (ROM, RAM, address)
are not modelled.

### 2.3 Packet buffers

The Ethernet receiver writes each packet into one of 64 buffers. Their numbers go
round: ring of free buffers, filter, ring of received packets, register of the CPU,
queue, task, network stack, and back by `RMII_FREE_PUT`. Free and received numbers
are in one memory of 256 entries with four pointers.

| Action | Code |
|---|---|
| `Insert`, `PushUsed`, `Allocate`, `PopUsed` | the branches of state idle of `free_queue.vhd` with the states they lead to; the guards are the priorities |
| `PacketBegins`, `PacketEnds` | `eth_filter.vhd` from idle to pushing; a packet is dropped for overflow, CRC or address |
| `RxInterrupt` | `rx_interrupt_handler` |
| `Start`, `PollLink`, `ReceivePacket`, `Input`, `Offer`, `Reject` | `rmiiTask`, `input_packet`, `NetworkLWIP::input` |
| `FreeBuffer`, `FreePbuf` | `lwip_free_callback`, in the threads of the stack |

`FreePut` is the write of the register `sw_id`. There is one such register and no
handshake in the software: a second put before the ring has taken the first would
overwrite it. The ring takes it within five clocks and the next put is further off
than that (a bus access, and a mutex or the loop between), so the guard `~sw_insert`
is what the timing gives; the model does not show that the timing is so. `FREE_RESET`
comes at a clean start only. A filter without a buffer drops the packet, which is a
step back to idle. Not modelled: a driver without network stack (it puts every buffer
back at once), transmission, the contents and sizes of packets.

### 2.4 Talking on the IEC bus

| Action | Code |
|---|---|
| `Handle` | one entry of the FIFO to the software in `IecInterface::poll`, with the method of the channel it calls |
| `Transmit`, `ReadTxStatus`, `Put` | the loop that fills the FIFO to the bus, access by access |
| `read_block`, `read_dir_entry`, `open_file`, `reset_prefetch`, `prefetch_data`, `pop_data`, `PushName`, `PushByte`, `PushEnd`, `PushCommand` | the methods of `IecChannel` |
| `BusByte`, `BusError`, `Drain` | TRANSMIT, TX_BYTE and the idle loop of the microcode |
| `Attention` | the edge of ATN in `iec_processor.vhd`: FIFO emptied and held empty until released |
| `HostOpen`, `HostTalk`, `HostWrite`, `HostClose`, `HostUntalk`, `HostTimeout` | what the microcode reports of a host that does this |

Byte `i` of a file is the number `i`, so that the host's view can be compared with
the file. What the host says under one ATN is one step: the software sees it as a
sequence of entries in any case, and the FIFO to the bus is held empty meanwhile.

The host is a patient one: it asserts ATN in a talk only when it has heard a byte; it
closes what it wrote before it opens again; it does not talk to a closed channel
(which would send what is left in the buffer), and reads no empty file (256 bytes of
the buffer's past would come). It may open several files, also one after the other on
one channel (`MaxOpens` counts them all); `sent` is about the last one it wrote.
`Interrupts = "far"` keeps ATN away from the end of
the file: more bytes are to come than the FIFO holds, and a time-out happens before
the last block. `"any"` lifts that; see `iec_get`. Not modelled: failing writes, the
printer, the command channel, UltiCopy. CLOSE of a channel that was read leaves the
`File` open until the next OPEN.

### 2.5 Files in a D64

All files and directories of an image share one sector buffer, the window.

| Action | Code |
|---|---|
| `StartOpen`, `NextSector`, `OpenCopy` | `file_open` over `DirInD64::read`, `FileInD64::open` |
| `StartRead`, `ReadCopy` | `FileInD64::read` |
| `StartWrite`, `WriteCopy` | `FileInD64::write`, `get_next_free_sector` |
| `StartSeek`, `SeekCopy` | `FileInD64::seek`, `visit` |
| `Move`, `MoveError` | `move_window`, and its errors |
| `Close`, `Return` | `file_close`; the return of a request |

A request goes sector by sector: bring it into view, then use it. Nothing is locked
between the two. Sectors are named by position; that positions and the numbers of
the medium stand for each other is the subject of `D64Geometry`: `GeometryChecked`
compares the two functions over all numbers and positions of images of nine sizes,
and two theorems of `FileSystemD64Proofs` do so for every size.

The code's weaknesses are kept, and named here because they shape the model: `dirty`
is never cleared, `sync` does nothing and the allocation map is never written back;
`visited` is not reset by a seek, so that reading again, or a seek of 254 bytes and
more, fails with FR_INT_ERR (the start of a file counts as visited from its opening, so
that `SeekCopy`, the way on to the next sector, is reached in a D64 only, where the seek
begins at another track, and not in the runs); a seek in a D64 (mode 0) adds the track to the one
before, because `get_track_sector` adds to its argument; a seek past the end of a file
of one sector is taken, and the next read goes past the sector (`Seeks = "inside"`
keeps away from it); a handle at track 0 that
writes takes its sector from the head of the BAM sector, which is read as the map of
track 0; after a file was extended, `bytes_left` can be negative, which as an
unsigned number is large. A failed open leaves its caller a deleted object
(filesystem_d64.cc:342-349).

Left out: images whose last sector says it ends before its first byte (`D64Assumption`
asks for 1 at least); the map of D81 images, which the code does not understand; tracks
above 35 in allocation; the index of a directory beyond its sector (`idx` is kept
modulo). A write refused at once with FR_DISK_FULL changes nothing and is no action. A
read that fails half way may leave a bad buffer under the old number: `Fails` may
contain `"torn"`, but no run has it, as the next write-back then destroys a sector,
which no promise survives. A handle whose request failed is only closed.

### 2.6 The DOS target

One action per command that changes the target, `More` for `get_more_data`, `Abort`.
`DataPart` and `DirectoryPart` are the two cases of `get_more_data`. Bytes of a file
are `<<name, position>>` and entries of a directory `<<directory, number>>`, so that a
reply can be compared with what was asked for. Media fail at any time: `Read` gives
less than there is together with an error, seeks, writes and OPEN_DIR are refused.

| Action | Code |
|---|---|
| `OpenFile`, `CloseFile`, `FileSeek`, `ReadData`, `WriteData`, `LoadReu` | the commands of these names; SAVE_REU is `WriteData` from another memory |
| `ChangeDir`, `CopyHomePath`, `OpenDir`, `ReadDir` | the commands of these names; `ChangeTo` is `Dos::cd` |
| `More`, `Abort` | `get_more_data`, `abort` |
| `Other` | commands that leave the target alone: IDENTIFY, ECHO, GET_PATH, information, names, mounts |

The caller is the server task of `CommandInterface` under a patient C64: commands come
when no reply is open. `claim` is what the reply has to be, if anything is promised.

What the model keeps of the code: OPEN_FILE tests the pointer and not the result, and
overwrites the pointer of an open file (`LostByReopening` counts what is lost);
CHANGE_DIR fills the list but not `dir_entries`, and empties it when it fails; a READ_DIR
past the end of the list answers with an error as its last part and stays in its
state, from which the next command takes it; COPY_HOME_PATH falls through to GET_PATH
and says 00,OK in any case.

### 2.7 Tape recorder

| Action | Code |
|---|---|
| `Sample` | the encoder and the FIFO of `c2n_record.vhd` |
| `Irq` | `irq` and `cache_block`; the line is level-triggered by the fill of the FIFO |
| `Loop`, `WriteBlock` | the loop over `write_block`, of `flush` and of `poll`; between the two the write is under way |
| `Drain`, `WriteTail`, `WriteLength`, `Close` | the rest of `flush` |
| `Poll`, `StopClosed` | one round of `poll`; `stop` with an overflow, which calls `flush` and closes the file a second time |
| `Finish`, `FileIsSet`, `request_file`, `Start` | the cases of `executeCommand`; the mutex of the subsystem allows one command at a time, `poll` does not take it |

`held` is the write a task is in: the file and the block it was given. `poll` runs
`flush` only in `stop`, which is `stopping`. `accidents` collects what has gone
wrong in a recording: the FIFO was full (`lost`), a block was put over one that was
not written (`overrun`), a block came after `flush` had looked at the ring for the last
time (`raced`), a write failed (`failed`), both tasks were in the file or the recording
began before the last one was over (`overlap`). The code can meet every one of them,
and the property says that there are no others.

Left out: the value that the encoder produces when it is turned off, the user
interface, `isValid` (nothing ever invalidates a file, see below), and what closing
does in detail (`Close` is one step). A call through a null pointer or to a closed
file does nothing or ends the system.

## 3. The runs

Bounds: each is the smallest value at which every action fires and every
interesting case is reached; the violations below are found within them, which
shows that they do not hide the cases.

| Run | Instance | Shows |
|---|---|---|
| `uci_any` | one command, buffers of 2/1/1 bytes, 6 control values (several bits in one write included), queue of 4, 1 further part | `TypeOK`, `MaskedIffOwned`, `QueueNeverFull`; `FlagsServed` under fairness |
| `uci_patient` | two commands of the same target, buffers of 3/3/2, replies of length 0 and 2, status 0 and 1, up to 2 further parts | the six state invariants below and `ImplementsProtocol` |
| `drive_writeback` | 2 tracks, 2 images of which one is read-only, 2 writes per track; mount, mount_ro, mount_ul, remove, unlink, blank | `NothingForgotten`, `WritableHasFile`; `Converges` under fairness |
| `drive_any` | the same with 1 write, and swap, reset, UltiCopy, removed media and failing writes | `MarksKept`, `NoCrossWrite`, `OpenIsMounted` |
| `net_buffers` | 3 buffers in a ring of 4, queue of 3, 3 pbufs, one returning thread | `Conservation`, `PbufsConserved`, `ImplementsCycle`; `NeverStarved` under fairness |
| `iec_talk` | 2 channels, 2 openings, blocks of 3, FIFO of 2; files of one full block and of two blocks and a byte, a listing, a written file of up to 4 bytes, a missing one; reads may fail | `ClosedFileComplete`, `ImplementsStream`; `TalkEnds` under fairness |
| `d64_files` | a D71 with two sound files, one of them full or empty, a chain that loops or leads nowhere and a name whose start is no sector; directory sound or looping; sectors of 2 cells, 2 handles, 4 requests of 1 or 3 cells, seeks up to the end, media errors | `ErrorsHaveReason`, `ImplementsFiles`; `RequestsReturn` under fairness |
| `dos_any` | parts of 2 bytes; files of 1 and 4, growing; directories of 0, 1 and 3; 5 commands | `ReplyIsWhole`, `NoStrayTransfer`, `LostByReopening`; `RepliesEnd` under fairness |
| `tape_record` | blocks of 2 samples, FIFO of 4, ring of 2 blocks, 6 samples in a recording, 2 commands, failing writes | `ClosedFileIsWhole`; `FinishReturns` under fairness |

Why the bounds are enough. Three flags make at most three queue items, so a
queue of 4 is never full and one of 16 cannot be either (this is proved for every
depth above 3). A length needs two values of the high byte, for which buffers of
2 bytes and `ByteBase = 2` do. Two tracks give a track under the head and one
that is not, and a scan that is between them; two images give a disk that goes
and one that comes; two writes give a write during the copy of an earlier one. Three
buffers in a ring of four let the pointers wrap, the ring fill and a dropped packet
keep its buffer while others go round; the proof covers the rest. A block of three
bytes has a first, an inner and a last byte, a FIFO of two holds bytes across a block
boundary, and a file of seven ends in a third block. Two cells per sector and requests
of three cross a sector boundary, and a second file moves the window in between.
Five commands are open, a read of several parts, a change in between, and another read.
Six samples fill the FIFO and lose one, or make three blocks, which go round a ring of
two and over a block that was not written; two commands are a recording and its end, or
a second recording after an overflow ended the first.

`d64_files` and `dos_any` stop when their requests or commands are used up, and the
recorder may crash, hence `CHECK_DEADLOCK FALSE`. In `d64_files` a file that gets another sector is given up
(`Lossy`); `d64_extend` shows why.

`uci_any` has `CHECK_DEADLOCK FALSE`: a C64 that sets bit 7 with a push outside
the idle state is stopped and no flag is raised, so nothing can happen any more
but a reset of the machine. A patient program never does this, and there
`FrozenOnlyWhenBusy` holds and deadlock is checked.

Properties of `uci_patient`: `BusyHasServer` (state busy has a flag set or a block
at work), `DataAnswersCommand` (data is shown only for an open command),
`WholeCommand` (the target gets the bytes and the length that were pushed),
`EmptyUntilCopied` (no rest of an older answer is readable), `FrozenOnlyWhenBusy`,
`MoreHasPart` (`get_more_data` is called only when there is a part).

`MarksKept` of `drive_any` says of the cases that break `NothingForgotten` (below) how far
the damage goes: a reset or UltiCopy may keep `poll` from looking, but the flag of a changed
track stays set, so the next scan finds it; only a write-back that fails (as all do to a
swapped disk, whose file is open for reading) clears a flag for nothing.

`ErrorsHaveReason` gives as reasons what the code of `visited` makes fail, and no more: a
seek that leaves the first sector, and a read or write of a handle that was in a later sector
before it was moved back. `FinishReturns` assumes that writes do not fail for ever
(`BlockFails`), and nothing else: full rings, lost samples, single errors and the two tasks
at work on one file do not keep `flush` from ending. `ClosedFileIsWhole` is about complete
recordings: it shows that the five accidents are the only ways to lose a sample, and that an
overflow which is not one of them is saved whole; it does not say that accidents do not happen.

### Disagreements with the documentation and the comments

Each of these runs checks one property and TLC finds it violated; `findings` in
`PROJECT.json` quotes the text that says otherwise.

| Run | Property | In short |
|---|---|---|
| `iec_get` | `ImplementsStream` | ATN while the last byte waits in the FIFO: the flushed bytes are lost for ever |
| `d64_extend` | `ImplementsFiles` | a file that grows overwrites its last sector with the new data |
| `dos_errors` | `ReadErrorsReported` | a failed READ_DATA is answered with the status of an earlier command |

Others are found with the same modules and other constants, in seconds:

| Property | Constants | In short |
|---|---|---|
| `BusyHasServer` | `Commands = {1}`, `CmdEnd = 1`, `RespEnd = StatEnd = 0`, `Controls = {{"push"}, {"accept"}}`, `Rules = {"sized"}`, `MaxMore = 2`, `QueueDepth = 16` | a C64 that does not wait for its flag to be cleared accepts a second part early; the acknowledgement of the first wipes that out, and the interface is busy for ever (command_intf.cc:106) |
| `DataAnswersCommand` | the same with `{"abort"}` in `Controls`, `Rules = {"patient"}`, `MaxMore = 1` | after an abort, accepting the answer of an empty command asks the old target, also for a patient program (command_intf.cc:95) |
| `WholeCommand` | the same with `Rules = {"patient"}`, `MaxMore = 2` | a command of 896 bytes, the documented size, arrives as 895 (command_protocol.vhd:139) |
| `NothingForgotten` | `LastTrack = 2`, `MaxWrites = 1`, `Functions = {"mount"}`, `Faults = {"write"}` | a failed write-back is not tried again (c1541.cc:560) |
| `NothingForgotten` | the same with `Functions = {"mount", "reset"}`, `Faults = {}` | a reset clears `any_dirty` and leaves the flags of the tracks: what was written since the last poll stays out of the image (c1541.cc:215) |
| `WritableHasFile` | the same with `Functions = {"mount", "swap"}`, `Faults = {}` | a swapped disk is writable, its file is not (c1541.cc:494) |
| `NoCrossWrite` | the same with `Functions = {"mount"}`, `Faults = {"load"}` | a G64 that fails to load gets the tracks of the disk before it (c1541.cc:423) |
| `ImplementsFiles` | `d64_files` with `Tasks = {t1, t2}` | the window moves between the comment "make sure the current sector is within view" (filesystem_d64.cc:595) and the use; `ErrorsHaveReason` fails too |
| `TypeOK` | `d64_files` with `Seeks = "any"` | a read after a seek past the end: the offset leaves the sector (filesystem_d64.cc:609) |
| `ImplementsFiles` | `d64_files` with `Mode = 0` | a seek in a D64 leads to another track (filesystem_d64.cc:725) |

`invalidate` walks a list of open files that nobody fills (filemanager.cc:63), so that
a removed medium is not noticed by the drive: `TakeMedia` changes nothing else.

Some weaknesses are visible in the models and no run is spent on them: a ring of the
tape recorder that is full calls `stop`, which closes a null pointer (`StopClosed`), and
its error code is overwritten by the result of the last block; a write of the recorder
that keeps failing keeps `flush` in its loop (`FinishReturns` without its hypothesis); with
a push and an abort in one queue item the task parses the aborted command after
the reset (`BlockFor` goes from the block of ABORT to that of NEW); a removal or a
mount closes the file of a disk whose tracks may still be dirty (`Close`,
`Mount`); and a mount by the command interface over unsaved changes asks by a null
user interface (`Ask`, step `"crashed"`).

## 4. Fairness

`FairSpec` of the command interface: weak fairness of the interrupt routine and
of the task. The line stays asserted until the flag is masked, and the task has
priority idle + 3 and never blocks but on its queue; the targets return. The C64
is not assumed to do anything.

`FairSpec` of the drive: weak fairness of `poll`, which runs every 50 ticks and
waits for a mutex that `Execute` may hold. Commands are not assumed to end:
`Converges` speaks of behaviours in which, from some time on, the motor is off
and no command holds the mutex.

`PacketBuffers`: the hardware is clocked (weak fairness; strong for `PopUsed`, which has
the lowest priority, but the others need hundreds of clocks for a packet); the
interrupt is level-triggered; the task waits for its queue only; the stack frees every
packet it has at some time. Nothing is assumed of the wire and of the link.

`IecTalk`: the task polls every two ticks and the bus processor runs; a host that has
said talk listens (`BusByte`), and is not assumed to do anything else.

`TapeRecorder`: a command and the polling task that are in a loop or in the file go on;
the tape, the interrupt and the next round of `poll` are not assumed to come. `flush`
ends because a recording has a last sample (`MaxSamples`), or a disk is faster than a tape, and because
writes do not fail for ever, which `FinishReturns` says as its hypothesis.

`FileSystemD64`: a task that is in the file system goes on. `Dos`: a C64 with an open
reply goes on accepting or aborts; commands need not come.

`UciProtocol` has fairness of its own (a busy interface answers, an abort is
carried out); the run checks that it follows from that of the code.

## 5. What is proved

For every value of the constants that the named assumptions of the modules admit
(`ProtocolAssumption`, `InterfaceAssumption`, `DriveAssumption`, `BufferAssumption`,
`DosAssumption`, `TalkAssumption`, `TapeAssumption`, `D64Assumption`), which are the sizes
in the code and what they are to each other:

`CommandInterfaceProofs`, for any C64 program:

* `TypeCorrect`: the types of the command interface. `TypeOK` alone is not
  inductive: `get_more_data` of `CMD_TARGET_NONE` has no type, so the invariant
  adds that the task is never at `More` without a target.
* `InterruptsOwned`: a flag is masked exactly while a queue item or the block that
  serves it owns it. Inductive with two additions: the block the task is in
  belongs to a flag of its item, and an interrupt that is taken brings at least
  one flag that is not masked.
* `QueueSuffices`: at most three items. From `InterruptsOwned`: the items are
  non-empty, pairwise disjoint sets of three flags.

For a patient C64 program (`Patient`: it writes commands and pushes only in the idle
state, accepts only data, one bit at a time, and nothing while a flag is still set):

* `BusyIsServed`, `StoppedWhileBusy` and `NothingOfLastReply`. The invariant
  (`PatientInv`, over `MaskInv`) says that there is one flag at a time and one item
  for it (`OneFlag`, `OneItem`), where it is on its way (`FlagsOnTheWay`), which
  flag and target a state has (`FlagOfState`, `TargetOfState`), and that the reply
  queues are empty in the states before a copy (`NothingLeft`).

For one that also minds the sizes (`Sized`: its commands have 1 to `CmdEnd` bytes;
section 3 shows what happens otherwise):

* `DataOfOpenCommand`, `TargetGetsWholeCommand`, `MoreOnlyWhenDue`. `SizedInv` follows a
  command from the push to the target (`CommandKept`, `LengthRead`) and its parts to the
  copy (`PartDue`, `PartCopied`).
* `ImplementsProtocolSteps`: every step is one of `UciProtocol` or a stutter. Most are
  stutters; a push, the copy of the last byte, an accept and the handshake of an abort are
  the steps of the protocol, and the invariants above give their guards.

`C1541DriveProofs`:

* `DriveTypeCorrect` and `OneFileOpen`: types, and between two commands exactly the
  mounted file is open. The invariant (`CommandInv`) says which party holds the
  mutex at which step, and counts the files of the mounted disk and of the
  command.
* `ImagesKept`: if images load, no image file ever gets a track of another disk,
  with resets, swaps, removed media and write errors all allowed. The invariant
  (`DiskInv`) ties the disk in memory and the copy that `poll` has in its hands to
  the mounted file, except in the steps of a mount before the load.
* `MarksAreKept`: if images load, a track that differs from its image file stays marked, in
  whatever order resets, UltiCopy, swaps, mounts, the drive and `poll` come; only a write-back
  that fails takes the mark. The invariant (`MarkInv`) adds to `DiskInv` that the copy `poll`
  has in its hands is the track itself, or the track is marked again.
* `NoTrackForgotten` and `WritesReachAFile`: under `Quiet` (no reset, swap,
  UltiCopy, removed media, no failing file: the cases that section 3 shows to
  break them) a written track is marked or being written back, and the mark will
  be seen; and a disk that can be written has a writable file. The invariant
  (`WriteBackInv`) says that a track differing from its image is pending, and
  that a pending track is noticed: `any_dirty` is set, a skip was counted, or the
  scan has not come to it.

`PacketBuffersProofs`:

* `TypeCorrect`, `BuffersConserved` and `PbufsAreConserved`, from
  `BufferAssumption` (fewer buffers than slots, no more than entries of the queue; 64,
  256 and 128 in the code). `Conservation` is not inductive: that a slot is not
  overwritten needs the order of the four pointers. The invariant adds `RingInv`
  (going round from `alloc_tail` come `alloc_head`, `free_tail`, `free_head`, with a gap
  of one slot exactly when the filter holds a buffer; this is what the note at
  free_queue.vhd:166 relies on), `StateInv` (which parts of the filter and the driver
  hold a buffer in which state) and splits `Conservation` into `OneKind` (one kind of
  place) and `DistinctInv` (once in it). That the ring and the queue never overflow
  are pigeonhole arguments over the distinct numbers in them (`RingHasRoom`,
  `QueueHasRoom`).
* `ReceivePathImplementsCycle`: `BufferCycle` is implemented. A step moves at most one
  buffer from its place to the next (`PlaceMoves`); that the order of the packets is kept
  is a statement on the sequence that the ring and the queue make together (`Waiting...`).

`FileSystemD64Proofs`: `FilesImplemented`, that the chains of sectors behind the one window
implement `FileStore`, a store of separate files; `TypeCorrect`; and `ErrorsOnlyForReason`.
They hold for every image (damaged ones, chains that loop or lead nowhere, and directories
that do so included), every number of files, handles and requests, every size of a sector,
with failing reads and writes. Their hypothesis `Careful` leaves out what breaks them in the
code (sections 2.5 and 3), one conjunct for each:

* one task is in the file system;
* seeks stay inside the file, and there are none in a D64;
* a read that fails leaves the buffer alone;
* a file that gets another sector is given up (`Lossy`: nothing is promised of it, or of
  the handles that are on it, any more; the others are still promised everything);
* the files of an image are separate (`SeparateFiles`): no two share a sector, none has a
  sector that counts as free, and no free sector leads to one that does not. The code has
  no defence against images where this is not so: a write into a shared sector changes two
  files.

`MCFileSystemD64` has TLC evaluate `Careful` for the instance of `d64_files`.

The proof has three parts.

* Chains. `ChainIn` follows the links by a recursive function. There is no induction
  principle the provers can use, so `RecursionExists` builds the function from its finite
  runs, with the least element of a set of numbers in the place of an induction
  (`LeastNumber`, from the library's theorem on minima of well-founded sets). `ChainIs` says
  that the chain is a path without repetitions that has ended: it cannot have more sectors
  than there are positions. `ChainRigid` says that it depends on nothing but the links.
* The invariant, `IInv`: there is an image, the one the medium had at first, for which
  `Holds(image)`. Its conjuncts are `Shape` (types), `Window` (the buffer holds the
  sector in view), `Links` (medium and window together have the links of that image, so that
  the chains are those of the image), `Fits` for each handle (it is at a sector of its
  chain, not past the end, and has visited sectors up to that one only, unless it was moved
  in) and `Calls` for the request (which sector a read or write is about to use, what part
  of the directory a search has seen: `Searched`). `TypeOK` and `ErrorsHaveReason` need all
  of it: that a read meets no sector twice is a matter of the chain, and that a failed open
  has a reason needs that every entry was looked at.
* The steps. Since the image does not change, the promise of a handle and the contents of a
  file are written with it (`Promised`, `Stored`), in terms of the record of the handle and
  of the request alone, so that it can be said what they are after a step. Requests, moves
  and the search of the directory then change nothing or one handle. A step of a read gives
  a stretch of the contents (`ReadImplemented`, from the place of each byte in its
  sector, `ContentPlaces`); one of a write lays its bytes over them (`ContentWritten`) and
  over those of no other file, because the chains are separate.

Also there, for every size: `PositionLeadsBack` and `SectorLeadsBack` of `D64Geometry`, zone
by zone with lemmas on quotients and remainders.

`DosProofs`: `TypeCorrect`, `TransfersInOrder`, `RepliesAreWhole` and
`LostOnlyByReopening` (by counting: an OPEN_FILE adds one object, a CLOSE_FILE takes one
away, everything else leaves their names alone), from `DosAssumption`. `TransferInv` (an open reply knows what it is of) is inductive by
itself. For whole replies `ReplyInv` says what has been given of an open reply: of a
read, a stretch of the file that ends at the position of the object, and that as
much is left as was asked for, capped by what is ahead in the file (`ReadingInv`); of
a fresh listing, the first `current_index` entries (`ListingInv`); with the object
(`ObjectInv`) and the list (`ListInv`) they speak of. The step is that a stretch
followed by the next one is a stretch (`StretchesJoin`).

`IecTalkProofs`: `TypeCorrect` and `ClosedFilesAreComplete`, from `TalkAssumption` (a block
has two bytes at least: the first is used by the name). The host runs ahead of the task by
what is in the FIFO, so the invariant speaks of the state the channel is going to be in:
`ViewInv` says that for each channel the entries of the FIFO, applied one after the other
to what the task has now (`View`), lead to what the host believes (`HostView`), and that
each of them may come when its turn is (`Allowed`: no OPEN of a file that is being written,
no byte but the next one, no report of a byte that was taken). The effect of one entry is
`Does`, and `HandleStep` shows that the code does just that to the channel; a host step
appends entries and moves the end of the path (`LeadsAppend`), the task takes the first one
and moves its start (`LeadsTail`). With it go `ReadingInv` (position, size and last byte of
a file that is read, without which a pointer might leave its buffer) and `ContentInv` (file
and buffer together are the bytes so far).

`IecStreamProofs`: `StreamImplemented`, that a channel which is read implements `ByteStream`,
for every size of buffer and FIFOs, any number of channels and openings, with read errors,
timeouts and other channels in between. Its hypothesis `PatientHost` has two parts.
`Interrupts = "far"` confines ATN and timeouts to talks that are far from the end of the
file; without it the property is false, which is the finding of run `iec_get`.
`FilesHaveBytes` leaves out files of length 0: `read_block` makes the channel of such a file
"complete" at once, and `prefetch_data` then offers the buffer, which is of no file.
The invariant, `StreamInv`, has four parts:

* `ReaderInv`: the buffer of a channel that is read holds the block that `block` stands for,
  and `last_byte` is known exactly when the end of the file is in it;
* `CourseInv`: for each channel, the entries of the FIFO lead from what the task has now to
  what the host believes, position in the file included (`Turn`, as `Does` above);
* `HostInv`: the end was signalled exactly when all has been taken; a "ready" is the last
  entry there is;
* `PhaseInv`, the heart of it. `Streaming`: the FIFO to the bus is open, and entry i of it is
  the byte the host takes as number i (`GoodEntry`), the reports under way are what the
  pointer is behind the host, and the prefetch pointer is where the FIFO ends. `Flushing`:
  ATN has emptied the FIFO and the task does not know yet; the reports of bytes taken come
  before the entry of ATN. `Settled`: the task has heard ATN, and no channel has prefetched
  a byte that the host does not have (`Fresh`).

That an interruption is far from the end is used in one place: in `Flushing`, the task still
has `talking` set, or all was taken, so that hearing ATN makes the channel `Fresh`.

`TapeRecorderProofs`: `TypeCorrect` and `ClosedFilesAreWhole`, from `TapeAssumption`. The
first needs that the position is never beyond the end of the file (`WithinFile`). For the
second, `RecordingInv` says that, unless an accident happened, the file so far, the blocks
of the ring in order and the FIFO together are the samples taken, in each of the steps of
`flush` and `stop` that may be under way; and `ModeInv` which steps of the two tasks may go
together.

Model-checked only:

* the liveness properties (`FlagsServed`, `Converges`, `NeverStarved`, `TalkEnds`,
  `RequestsReturn`, `RepliesEnd`, `FinishReturns`) and the fairness half of
  `ImplementsProtocol`: liveness under fairness is out of the proof system's reach;
* `FileSystemD64` outside of `Careful`: with several tasks, with seeks past the end or in a
  D64, or without giving up files that grow, the properties are false (section 3).

What proofs have found. `ClosedFileComplete` could not be proved of an earlier version of
`IecTalk`: `sent` was reset whenever a channel was opened, also for reading, so that a second
opening made the property false of a correct file; one opening per channel in the run had
hidden it. The model now resets `sent` with the file, and the run opens twice. An attempt at
`TypeOK` of `FileSystemD64` led to the seek past the end of a file (section 3), which the
files of the instance were too full to show. The proof of `FilesImplemented` needed to be
told that free sectors lead to free sectors (`SeparateFiles`): a handle of a file that was
given up goes on along the old link of the sector it was given, and would write into another
file.

## 6. Plan

1. Done: command interface, drive write-back, packet buffers, IEC channels, D64 file
   system, DOS target, tape recorder; proofs of every state invariant the passing runs check,
   and of the refinements of `UciProtocol` (safety), `BufferCycle`, `ByteStream` and
   `FileStore`.
2. `FileManager`: mount points, invalidation, observers with bounded queues; and
   the nesting of subsystem mutexes, for cycles.
3. `Dos` composed with `CommandInterface` in place of its abstract targets.
4. USB events, slots and packet blocks.

Not modelled, and why: FAT, lwIP and FreeRTOS are third-party code; the FPGA cores are
cycle-level hardware with simulations of their own; GCR conversion, rendering of pages
and menus, descriptors of USB devices and the configuration store are sequential
conversions of data, better tested than modelled.
