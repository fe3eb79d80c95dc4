# ZenbiteOS in TLA+

Models of ZenbiteOS (a 32-bit, single-threaded, DOS-like system with a FAT
file system, a shell and desktop, an IPv4 stack and polled drivers), checked
with TLC and in part proved with TLAPS.  Definitions carry the names of the
C code where TLA+ allows; `PROJECT.json` gives, for each of them, the lines it
was translated from.

## 1. Inventory of the system

The kernel has one thread and no scheduler.  Concurrency comes from three
sides only: interrupt handlers, devices that write to memory or ports by
themselves, and the network.  Inside the thread the hard part is long
sequences of calls, early returns, and re-entrance through `net_poll`.

| Part | State | Operations | Talks to | Hard, and what makes it correct |
|---|---|---|---|---|
| FAT file API, `kernel/fs/fat.c` | FAT, directory tables, current directory, handle table | `fs_chdir create unlink rename mkdir rmdir open close read write`, directory iterator | disk below, every command above | unlimited sequences of calls that link and free chains; stale current directory and handles; full volume in the middle of a write.  No two files share a cluster, sizes are backed by clusters, names are unique, `..` is right, nothing leaks |
| FAT on disk, `fat.c` | one-sector FAT cache, both FATs, root image | `fat_get/set`, flush, format, mount, unmount | disk drivers | order in which FAT, entry and data reach the disk; power loss; failed transfers.  A cut costs one file at most, chains stay apart |
| Drive letters, `vfs.c mbr.c disk.c` | disk slots, partition views, mounted letters | mount all, rescan, partition calls | drivers, FAT | views are rebuilt under mounted volumes.  Partitions do not overlap, one is active, a volume has one letter |
| File commands, `builtins.c`, `install.c` | locals: two handles, a buffer | `cd mkd rmd rm cat cpr mv` ..., copy to a new disk | FAT API | early returns that must close handles; a fallback that must not remove what was not copied; a full volume |
| Installer, `install.c` | the step it is at, the letter it uses | partition, format, mount, copy, mark | everything above | any step fails, some are repeated.  Success means an installed system, and setup ends |
| Editor, `edit.c` | lines, cursor, modes, undo stack, dirty flag | keys of four modes, search, ex commands, load, save | FAT API | save removes before it writes; undo must put back what was there; "not dirty" must mean saved |
| Desktop, `desktop.c` | table of windows, order, focus, drag, text of Notes | spawn, close, minimize, raise, drag, resize, keys, save on close | mouse, keyboard, FAT API | any order of inputs.  One focus, keys go to what is seen, windows stay in reach |
| Shell, `shell.c`, `builtins.c` | line, history ring, aliases | `read_line`, alias table, expansion, scripts | keyboard, commands | what UP and DOWN recall once the ring is full |
| TCP client and `http_get`, `net.c` | one connection record, a ring of received bytes | `tcp_connect send recv close`, `tcp_input` | IP below, `http_get_once` above | loss, repetition, reordering, late segments, full ring, timeouts.  The stream is a prefix of the sent one, and every call returns |
| ARP, IP, ICMP, UDP, DNS, `net.c` | ARP cache, one UDP buffer, static packet buffers | send, input, ping, resolve | network card, TCP | `ip_send` polls while it waits for ARP and may be entered again; late answers.  A packet goes to its hop, a name gets its own answer |
| Network cards, `e1000.c ne2000.c` | descriptor or page ring | `tx`, `poll` | card by DMA | ownership of descriptors, time-outs.  Frames come whole, once and in order |
| Keyboard, `keyboard.c` | ring of 64 characters, prefix and modifier flags | `on_irq1`, `kb_trygetc`, `kb_getc` | i8042, every program | two readers of one port: the handler and the poll; sleep and wake-up; full ring |
| Mouse, `mouse.c` | three-byte packet, position | `on_irq12`, `mouse_get` | the same i8042 | one data port for two devices |
| Timer, PIC, IDT | tick count | ticks wake `hlt` and bound every wait | all | a lost wake-up |
| Disks, `ata.c ahci.c floppy.c` | registers, command lists, DMA buffer | read, write sectors | hardware | waits that are given up and answers that come later; one set of registers for two drives.  Success means those sectors |
| USB, `usb.c ehci.c` | transfer descriptors, toggles | enumeration, HID polling, mass storage | hardware | toggle and status sequence.  A key is typed once, success is the stick's |
| Clock, `rtc.c` | the chip's registers | `rtc_read`, `rtc_write` | `time`, `date`, desktop | a reading torn by an update |
| `zas.c`, `zbc.c` | sections, labels, output; scopes and flags | assemble; parse and run | FAT API, `elf.c` | two passes must agree; flags of loops, calls and blocks |
| Memory, `pmm.c kheap.c paging.c` | frame bitmap, bump pointer | allocate, free | nobody after boot | - |
| Environment, clipboard, CPU, serial | small tables | get, set | shell | limits of the tables |
| Screen, boot loader, C library, scripts | - | - | - | straight lines of code, or output |

`PROJECT.json` lists each part with what is modelled of it, and under
"hazards" everything found in the code that is hard to test, at its line.

## 2. Modules

### FatVolume - the file API on one volume

State: `fat`, `table` (every directory, and every cluster *as* a directory),
`up` (the `..` entry of each cluster), `cwd`, `handles`, and `call`, the locals
of an `fs_write` in progress.  One action per call; the last parameter is the
value the call returns, and a call that returns -1 is the second disjunct of
its action.  The kernel has one thread, so a call is one step, except
`fs_write`, whose loops allocate repeatedly and leave by `break` and `goto`:
it is `WriteEnter`, `WriteHop` (the inner `for`), `WriteChunk` (a turn of the
outer `while`) and `WriteLeave` (the `done` label).

Abstractions.  Contents of files are left out; lengths are in units,
`ClusterUnits` per cluster.  One thing in the code depends on contents: `rmdir`
removes a directory that is current, or lies above the current one, and when a
file gets its cluster `find_in_dir` takes the bytes of the file for entries.
What such a call does is the choice of the bytes (an `rm` may free the chain of
any file), so the model ends there: a call whose path leads through a cluster
that was last written by `fs_write` (`Foreign`, `Clear`) sets `astray`, may free
any chain (`Stray`), and nothing follows (`Ended`).  Every property of the volume
and of its commands is about histories that have not gone astray, and says so
by `~ astray`.  A removed directory that nobody wrote over, or whose cluster
became another directory, is modelled like any other.  The two dot entries are not in
`table`: `.` needs no state and `..` is `up`.  Of deleted entries and closed
handles only that they are deleted or closed is kept.  `load_dir` reads one
cluster, so a directory is one cluster in the model too.  The FAT has entries
past the data area (`LastEntry > LastData`): `alloc_cluster` hands those out,
and transfers to them fail; transfers inside the data area succeed.  `Next`
lets callers make every call at any time, with the discipline the callers in
the source have: directories change only when nothing is open, a file is open
once and not removed while open.  FatShell checks that discipline.

### FatShell - the commands that use it

Extends FatVolume with one variable, `cmd`: the command that runs, where it is,
and its locals.  `cd mkd rmd rm` are one call; `cat` (with the other commands
that read a file to its end), `cpr` (with the installer's `copy_file` and
`write_file`), `mv`, the editor's `save_file` and the Notes widget are
sequences of calls with each early return.  `ShSpec` implements `Spec` of
FatVolume (the abstract specification of what a caller does), which is checked
as a property with the identity as refinement mapping.  A command whose next
path leads through a directory that is none any more goes astray (`ShStray`).
`old` in `cmd` is no local of the code: it remembers the size of the file a
save removed.

### TcpClient - the connection and its caller

State: `tcp` (the `struct tcp_conn`), `app` (where `http_get_once` is and what
it got), `out` (the SYN and the highest acknowledgement sent on each port).
Peer and network need no variable: `Sendable` is the set of segments a correct
server may have sent by now, given what the client sent; it only grows, and
each of them may arrive any number of times, in any order, or never.  That is
loss, duplication, reordering and delay, also across connections.
`NetPoll` is `tcp_input` on one segment; the other actions are the steps of
the calls.  Every segment of the client carries `rcv_nxt`, which only grows,
so the last value is all a peer can use.  `snd_una`, checksums and the parsing
of the response are left out; the next hop is assumed to be in the ARP cache.
A FIN is counted each time it arrives, so `rcv_nxt` has no bound in the code;
`MaxRcv` bounds it.

### Ps2Input - keyboard and mouse

State: what the devices have still to send, the one output byte of the i8042,
the requests latched in the PIC, the ring of `keyboard.c`, the packet of
`mouse.c`, and the place of the main program in `kb_getc`.  Interrupt gates
run handlers with interrupts off, so `Irq1` is one step, and `Irq12` loops
while it keeps the CPU (the controller can fill its buffer meanwhile).
`kb_trygetc` calls `on_irq1` itself with interrupts on: there it is
`PollRead`, `PollDecode`, `PollStore`, `PollAdvance`, and interrupts come
between.  Modifiers are state of the kind of `ext_flag` and left out, a key is
a number, the character queued says which key and whether its prefix was seen
right.  Three kinds of machine: `prompt` takes a latched interrupt before the
next instruction of `kb_getc`, `polled` never delivers IRQ1 (the case the
comment at the top of `keyboard.c` names), `late` may look at the controller
between the byte and its interrupt.

### FatProofs, TcpClientProofs, Ps2InputProofs, DrivesProofs, FatDiskProofs, DevicesProofs, CardsProofs, PartsProofs

Theorems about the modules of those names, see section 4.  FatProofs is about
FatVolume and FatShell.  PartsProofs is about the parts together: it extends
DevicesProofs, which has the drivers of Devices, and CardsProofs, which has the
network cards, and takes what it says of FatDisk from FatDiskProofs; the others
stand by themselves.

### Drives - disks, partitions, letters and setup

State: the partition tables and volumes on the disks, the view slots, the
mounted letters (and those half mounted), the current letter, and the place of
the setup wizard.  One action per command (`mkpart`, `delpart`, `setactive`,
`format`, `flash`, `mount`, `unmount`, a scan, a restart) and one per step of
the wizard, whose format and file writes may fail (`Wizard`).  Space is counted
in units of 2048 sectors.  `mbr_largest_free` sorts the spans and walks a
cursor over them; `Gap` says where that cursor stands before each span (at the
furthest end among the spans before it), `Gaps` collects what the walk finds,
and `LargestFree` is the first of the longest.  The two scans are functions by
recursion, over the slots of a table (`ScanDisk`) and over the disks
(`ScanTables`), as is `do_mount_all` (`MountAll`).  Of a volume it keeps
whether the boot sector parses, whether the root can be read, and which files
setup wrote whole.

### FatDisk - the same calls, sector by sector

Create, append and remove as sequences of sector transfers through the cached
FAT sector, each of which may fail, the power going between any two.  `Files`
stand in the fixed root or in a subdirectory, chosen at the start: the first is
written from the copy in memory, the second from the disk.  `Reboot` mounts
again.  A cluster holds no data; what matters is which chain an entry leads to.

### NetStack - ARP, IP, ping, UDP, DNS

`waits` is the stack of `ip_send` calls that wait for ARP inside `net_poll`,
innermost last; `buf` is the one packet buffer they share.  `air` is what may
reach this machine: received in any order, any number of times, or never.

### E1000, Ne2000, FrameQueue, Cards - the network cards

FrameQueue is what either side promises the other: a queue that loses frames
and never repeats, reorders or damages one.  E1000 and Ne2000 model driver and
card as two processes on shared descriptors or pages; copying a frame takes two
looks, so that overwriting it meanwhile shows as `Torn`.  Each contains two
instances, `RxQueue` and `TxQueue`, `INSTANCE FrameQueue WITH` the frames
between the pointers as the queue; `RingsAreQueues` and `PagesAreQueues` say
that both directions implement it, at any pace of the card.  The waits of
`e1000_tx` and `send_pkt_raw` may run out at any time.  If one does while the card
is still reading that very frame (E1000), or still has it to send (Ne2000), the
driver overwrites it and the promise for sent frames is over: `late` of
FrameQueue, `txLate` and `sendLate` in the models.  What else a wait that ran out
overwrites in the E1000 is a descriptor the card has not begun: a full ring looks
empty to the card, and its frames are lost, not mixed.  Cards puts the two side
by side, with the sizes the theorems need.

### UsbHid, MassStorage - USB

UsbHid: the ports, enumeration, the frame list, toggles at both ends, and
reports compared with the one before.  MassStorage: a command as three stages
over UHCI or EHCI; the stick is a process of its own that may stall, answer
late, or fail.  Both controllers of the code run the same transport with
different toggles and retries.  A UHCI transfer breaks off at `BULK_MAX_TDS`
descriptors and its caller sees success; `TdMax` is that limit, a cut transfer
counts as a fault, and `StorageInStep` holds until the first fault.  After a
rollover report every key still held is typed again, as in the code: the report
kept for comparison is the rollover's.

### Floppy, Ahci, Ata - disk drivers

A driver and a controller that answers at its own pace, also after the driver
gave up waiting (`given`, `gave`).  Sectors hold who wrote what for whom, so a
misplaced or mixed write shows.  Floppy has IRQ6, whose flag nothing resets,
and the result bytes; Ahci has the assignment of command lists to ports as
`ahci_init` makes it, which stops at `SataSlots` disks; a command for a port
whose number is beyond the structures goes into the memory behind them, where
the model of that driver ends (`IssueBehind`).  Ata has two drives behind one set
of registers.

### Rtc, Prompt, Edit, Desktop

Rtc: a chip whose registers move on one after the other while `rtc_read` reads
them twice, and what `time` and `date` write back.  `rtc_write` stores the hour
without the PM flag; in 12-hour mode an hour of 0 or above 12 is none, and the
model of the clock ends there (`unset`).  Prompt: `read_line` with the
history ring and the alias table, against the list of all lines entered.
Edit: a command of the editor maps the record of its variables to the record
after it; `shown` in an undo entry is history.  Desktop: the table of windows
and the inputs of `desktop_main`; `z` is abstracted to an order.

### Zas, Zbc

Zas: two passes over every program of a few lines, the layout of the file and
the place the loader puts it; `AssembledRight` compares the words with the
place where their label ends up.  A source with a line of `%define` is never
assembled: `lex_next` begins an identifier at the percent sign and never passes
it, so `skip_line` turns for ever (`Hang`).  Zbc: `eval` with its flags beside
C's meaning written without them, and `parse_binop` beside a grammar without
climbing.  Zbc uses RECURSIVE operators and is for TLC only.

### Parts, MCParts

Parts composes fourteen modules that share no variable (drivers, FatDisk,
NetStack, Edit, Desktop, Zas, Prompt): a behaviour exercises one of them from
each of its initial states while the others rest, so that one run checks them
all.  It extends Devices, which has the drivers of disks, USB sticks, USB
keyboard and mouse, and the clock, and Cards; MCParts adds Zbc for that run.
The assumptions `DevicesSizes`, `CardsSizes` and `PartsSizes` say what the
theorems need of the constants: a drive, a port, a slot, a descriptor ring and
a disk have one place or more, a page ring two, an hour has more seconds than
the clock is moved on by, reads of the clock and of a stick are tried once at
least, a keyboard has finitely many keys and its ring has room, a FAT volume
has a cluster and a FAT sector an entry, ARP and DNS try once at least, the
gateway is on the local net, and every window that `spawn_widget` opens fits
the screen.  The interaction of components that do share state is in FatShell
(commands on the volume), Drives (wizard, letters, tables), Ps2Input (two
devices and two readers), UsbHid (all users of the frame list), and in E1000
and Ne2000 (driver and card).

## 3. Runs

| Run | Question | Properties |
|---|---|---|
| `volume_files` | files side by side, two handles | `TypeOK NoCrossLinks TablesOK SizeBacked OtherFilesKept` |
| `volume_tree` | directories, deep and relative paths, removed current directory | `NoCrossLinks DotDotOK HandleCoherent LeaksOnlyOnFailedMkdir` |
| `shell_commands` | the commands, in the root and above | `CmdOK PromptClosed CopyComplete SaveFits Spec CommandsEnd` |
| `tcp_calls` | two connections over a bad network | `TypeOK OnceInOrder NoGap Synchronized CallsReturn` |
| `ps2_keys` | keys and packets against the reader | `TypeOK KeysInOrder NoKeyLost PacketsWhole NothingOverwritten InputRead` |
| `drives_all` | storage commands, restarts and setup on disks with up to three partitions | `TypeOK OneActive InstallHonest AutoPartFree InstallEnds` |
| `parts` | fifteen drivers and programs, each by itself | `TypeOK HidOnce DriversTrue NetTrue DiskKeeps EditorTrue WindowsTrue ToolsTrue QueuesKept` |
| `shell_mv`, `tcp_ring`, `ps2_mouse`, `drives_scan`, `usb_success` | a comment of the code that the code does not keep | one each, violated |

Bounds, and why they are enough:

- `volume_files`: two names, three data clusters and one FAT entry past them,
  two entries per directory, two handles, files of up to three clusters,
  writes of one or two.  Small enough for the FAT to fill up in the middle of
  a write, for the cluster past the data area to be handed out first, in the
  middle or last, for a directory to be full, and for a freed cluster to be
  reused by the other file.  Either name may be a directory.
- `volume_tree`: two data clusters and one entry per directory, but paths
  through a name, `.` and `..`, absolute and relative: enough for a directory
  in a directory, both removed while current, and their clusters reused by a
  directory, or by a file, where the history ends with the first call that looks
  into it.  A third level only repeats the second, since every step
  of a path looks at one table.
- `shell_commands`: two names and `..`, two data clusters of two units and one
  entry past them, buffers of two units, files of up to three: reads
  that end on and off the end of a buffer, writes that cross a cluster, copies
  and saves that fit, that fill the volume exactly, and that fail in every
  place.  A directory may be entered, removed by its absolute name and its
  cluster given to a file; a command that asks for `..` there goes astray.  The
  deep paths are the business of `volume_tree`, since the discipline of a
  command does not depend on how a name is found.
- `tcp_calls`: two connections, six units in segments of up to three, a ring
  of four (three used) and a window of four: the window is one larger than
  what the ring can hold, as 4096 and 4095 are in the code.
- `ps2_keys`: three keys against a ring that holds two, keys of one byte and
  with prefix, two packets with every pattern of the bit that marks the first
  byte.
- `drives_all`: a disk of four units, blank or with a bootable partition in its
  second slot, and the medium of setup; spans that fit, touch and overlap;
  three partition slots, three views, three letters, three commands or keys.
  Enough for an automatic partition between two typed ones, a view slot that
  shifts, a letter taken and given back.
- `parts`: per part the least at which its cases meet.  Rings of three
  descriptors and five pages (a frame takes one or two), six frames: each ring
  goes round.  Two keys and a lock key, one of them pressed twice, two queued
  reports, two moves of the mouse, one bus error.  Six requests with two faults
  over three sectors in chunks of two; a UHCI transfer is cut at three
  descriptors, which a chunk of two sectors needs four of when packets are
  short.  Three hosts for an ARP cache of two, two tries, two names and ports,
  nesting of two.  Two files, four clusters, two FAT entries per sector, so two
  sectors of FAT, two failing transfers.  Three lines of two characters, two
  undo entries, three changes.  Three windows on five by five cells, six
  inputs.  Assembler sources of up to four lines, C programs of one loop with
  three statements or two nested loops, expressions of up to four operands.
  Two sectors and two calls on diskette, IDE (two drives) and SATA (three
  ports, structures for two disks, so that a disk may have a port beyond them):
  with three calls the diskette and IDE parts hold as well.  Two updates of the
  clock during a call, from before noon and before midnight, in both modes;
  `time` sets midnight, noon, a morning and an evening hour (0, 12, 9, 21).  A
  history of two lines while three are entered.

No symmetry is used where liveness is checked.  Deadlock is checked except in
the TCP runs, which stop after `MaxConns` connections, in `drives_*`, where
the wizard or the user may be done, and in `parts` and `usb_success`, where
the numbers of frames, calls and keys are bounded.

Fairness.  `LiveShSpec`: a command that has begun goes on, since nothing else
runs in the kernel.  TcpClient's `FairSpec`: the steps by which a wait ends
are taken at last, since each loop compares `pit_ticks` with a limit and the
timer runs; nothing is assumed of peer or network.  Ps2Input's `FairSpec`:
the CPU executes, takes interrupts, the timer ticks, and the controller
passes on what a device sent; nothing is assumed of when keys are typed.
Drives: the wizard goes on once it was begun (`WF` of `Wizard`), since nothing
else runs meanwhile; whether its writes succeed is left open.  The parts of
MCParts state safety alone: their waits are loops with a counter, which end by
it.

Properties worth a word:

- `NoCrossLinks` is what keeps one file from overwriting another.  It holds
  until a call looks into a removed directory that a file was written over
  (section 5).  Work in a removed directory that is free still, or has become
  another directory, is included: `dir_add_entry` and `fs_write` take only what
  the FAT calls free.
- `LeaksOnlyOnFailedMkdir`: `fs_mkdir` allocates before it knows that the
  parent has room and does not free; the property says that this is the only
  such place.  It has the hypothesis `InTree`, that nobody works in a removed
  directory, where entries are lost by design.
- `SaveFits`: saving removes the old file first and ignores the results of
  `fs_write`; a text no longer than the old one is nevertheless saved whole.
  A longer one on a full volume is cut off, and the old file is gone.
- `Synchronized`: `SynAck` takes `snd_nxt` from the segment unchecked; what
  keeps an answer to the first connection out of the second is the port.  So
  `snd_nxt` counts exactly what was sent on this connection.  `rcv_nxt` is a
  place in the peer's stream until a FIN is taken; after that each repetition
  of the FIN moves it on.
- `NoGap` asks for a stream without a gap only until more units have arrived
  than the ring holds, read or not, and until a FIN is taken.  Beyond that the
  code does lose what it acknowledges: `tcp_ring`.
- `NoKeyLost` is a property of steps: one that loses a key finds `BufSize - 1`
  characters waiting, whether the ring is full for the first time or again.
- `HidOnce`: that no key is typed more often than it was pressed holds with bus
  errors too; that none is missing, and that a mouse report counts once, only
  without.  A rollover report ends what is said of keys.
- `DriversTrue`: of a stick, until the first transfer that is given up while
  the stick still works on it or that is cut short; of a diskette, unless two
  waits were given up before; of SATA, unless one was or the disk's slot has
  not the number of its port; of IDE, but for writes the drive refuses; of the
  clock, whenever a reading succeeds.
- `QueuesKept`: in both directions until a wait of the driver runs out on a
  frame that the card is still reading or sending; received frames always.
- `WindowsTrue` has one focus, a stack without repetition, and windows in reach
  after any inputs.  That keys go to a window that is seen is exempt once a
  minimized one was opened again (`hidden`).
- `InputRead`: `kb_getc` checks and then executes `hlt` with interrupts on, so
  a key may come just before the `hlt`.  The timer is what wakes the reader.
- `InstallHonest`: setup counts failed copies and checks that files exist;
  neither is enough alone, since a short file exists and a failed copy may be
  one that does not matter.
- `DiskKeeps` has three parts: without failures a finished call leaves exactly
  the chains of its files in both FATs; a power cut damages at most the file
  of the call in progress; failing transfers never make two files share a
  cluster, unless a removal that failed left its entry behind (`orphan`),
  which is the one way the code has to get there.
- `NetTrue` exempts packets sent while another `ip_send` waited: those do go
  out with the other's content (section 5).
- `EditorTrue`: undo puts back what was there for lines changed or removed;
  the undo of joins, splits and of several lines removed at once is wrong in
  the code and exempt (`fair`), as are the changes that forget the dirty flag
  (`unmarked`).
- `AhciTrue`, `FloppyTrue`, `AtaTrue` are stated with the exact condition under
  which they hold (how many waits were given up, which disks have the command
  list of their own port); without it TLC finds the cases of section 5.
- `ToolsTrue`: of a source that is assembled (one with `%define` never is), the
  words that name labels of code are right, and those that name labels of data
  when no code was assembled before; behind code they are wrong in the code
  (section 5) and the property asks nothing of them.  A C program means what C
  says unless it is `odd`: leaves a `while` by its condition right after a
  `continue`, leaves a `for` that has a step by `break` or `return`, ends a
  function without `return`, or calls deeper than `MAX_CALL`.

## 4. What is proved

Each theorem holds for every value of the constants that the assumption of its
module allows, with no bound but those the module itself names.

| Module | Theorem | States | Run that checks it |
|---|---|---|---|
| FatProofs | `TypeCorrect`, `CrossLinkFree` | `TypeOK`, `NoCrossLinks` | `volume_files`, `volume_tree` |
| | `TablesSound` | `TablesOK` | `volume_files` |
| | `SizesBacked` | `SizeBacked` | `volume_files` |
| | `HandlesCoherent`, `DotDotSound` | `HandleCoherent`, `DotDotOK` | `volume_tree` |
| | `OthersUntouched` | the action property `OtherFilesKept` | `volume_files` |
| | `LeaksOnlyThere` | the action property `LeaksOnlyOnFailedMkdir` | `volume_tree` |
| | `CommandsImplementVolume` | `ShSpec => Spec`, the refinement | `shell_commands` |
| | `HandlesUsedOpen`, `NoHandleLost`, `CopiesComplete`, `SavesFit` | `CmdOK`, `PromptClosed`, `CopyComplete`, `SaveFits` | `shell_commands` |
| TcpClientProofs | `TcpTypes`, `TcpOnceInOrder`, `TcpNoGap`, `TcpSynchronized` | `TypeOK`, `OnceInOrder`, `NoGap`, `Synchronized` | `tcp_calls` |
| Ps2InputProofs | `Ps2Types` | `TypeOK` | `ps2_keys` |
| | `Ps2KeysInOrder`, `Ps2NoKeyLost`, `Ps2PacketsWhole`, `Ps2NothingOverwritten` | the properties of those names, on machines of kind `prompt` and `polled` | `ps2_keys` |
| DrivesProofs | `DrivesTypes`, `InstallIsHonest`, `AutoPartIsFree` | `TypeOK`, `InstallHonest`, the action property `AutoPartFree` | `drives_all` |
| | `OneActiveKept` | `OneActive`, if it holds of the tables found on the disks | `drives_all` |
| CardsProofs | `E1000Queues` | `Intel!Spec => Intel!RingsAreQueues`, the refinement, for rings of one descriptor or more | `parts` (in `QueuesKept`) |
| | `Ne2000Queues` | `Novell!Spec => Novell!PagesAreQueues`, the refinement, for two pages or more | `parts` (in `QueuesKept`) |
| FatDiskProofs | `DiskTypes`, `DiskStaysWhole` | `TypeOK`, `DiskKeeps` of FatDisk | `parts` |
| PartsProofs | `DiskKept` | `DiskKeeps`, of the volume in Parts | `parts` |
| | `NetStaysTrue` | `NetTrue` | `parts` |
| | `WindowsStayTrue` | `WindowsTrue` | `parts` |
| | `DriversStayTrue` | `DriversTrue`, with the invariants of DevicesProofs | `parts` |
| | `HidOnceKept` | `HidOnce`, with `HidInv` of DevicesProofs | `parts` |
| | `QueuesStayTrue` | `QueuesKept`, of both cards in Parts | `parts` |

`NoKeyLost` and `NothingOverwritten` are action properties too.  What FatProofs
says is about histories that have not gone astray, and each property says under
which condition it holds (section 3).

The arguments, and why the invariants are what they are:

**Chains** (`IInv == TypesOK /\ Apart`).  Every invariant of the volume is kept
as long as the history has not gone astray; FatProofs names the properties
without that condition: `Apart` of `NoCrossLinks`, `Orderly` of `TablesOK`,
`AllBacked` of `SizeBacked`, `Coherent` of `HandleCoherent`, `UpsTrue` of
`DotDotOK`, and `CmdSound`, `AllClosed`, `CopyWhole`, `SavedWhole` of the four of
FatShell.  A step that is not one of `Stray` is a step of a call in a tree whose
directories hold entries, which is what the lemmas below are about.  `Apart`
is inductive only as a whole: that `free_chain` takes nothing from another
file (`ChainIsolated`) needs that the entry's cluster heads its chain and that
chains are disjoint; that the head belongs to no other entry or handle needs
`EntriesOK` and `HandlesOK`; that `fs_write` may link a new cluster behind the
one it stands on needs `WriteOK`.  `ChainOf` is defined without recursion, as
the least set closed under links; the one argument about reachability,
`ChainPredecessor`, says that every cluster of a chain but its head has a
predecessor in it, and is proved by removing a cluster from that least set.
`FreeChainKeeps`, `RemoveKeeps`, `AllocKeeps`, `AppendKeeps` and
`SameLinksKeep` say what the changes of the FAT leave alone; then there is a
lemma for each action (`Links...`) and for its types (`Type...`).

**Tables** are sound table by table (`DirOK`): what a call adds goes into the
first free slot, under a name that `dir_find` has just not found there.

**Sizes and the tree.**  `SizeInv` says of entries, of handles and of the write
in progress that as many links as the size needs lead to clusters of the chain
(`Backed`), and that a write stands on the cluster its position says
(`OnChain`); a call keeps it because it changes no link of the chains it does
not own (`Kept`).  `cluster_after` is a recursive function, so this is induction
along the chain.  `UpsTrue` speaks of the directories that can be reached from
the root; that set is computed level by level and changes with every `mkdir`
and `rmdir`, which is hard to follow.  `TreeInv` says instead that there is a set
`S` with the root in it, closed under subdirectories, whose members have an
entry in `S` and lead back to it by `..`, and whose open files agree with their
entries (`Live`, `Owned`); each call shows how that set changes by one member.
`TreeInLive` then shows that the computed set lies in any such `S`.

**Lost clusters** (`LeakInv`: the invariants so far, with `HeadsSame` and
`IdleCall`).  A cluster is lost when it is taken and lies in the chain of no entry
of the tree and of no open handle, so the question is what else a step may take
away: a chain somebody held, or the tree itself.  Between calls an open
handle has the first cluster of its entry (`HeadsSame`), so `fs_close` forgets no
chain that is not also the entry's; and while `fs_write` is at work the handle is
open.  `HeldKept` says that a step after which every chain that was held is held
or free, and no cluster of which is linked away, can only lose clusters it took
itself; `fs_write` links those to the chain it is writing, so only
`fs_mkdir` is left.  A call that removes a directory removes no other
(`TreeLess`), and the others leave in the tree what was there (`TreeGrows`).  For
that the computed set must be closed under subdirectories although it is
computed in a fixed number of levels (`TreeClosed`): a set of clusters and the
root cannot grow more often than there are clusters, by the library's facts on
cardinalities.

**Commands** (`ShInv`).  The refinement maps each step of a command to a call
that FatVolume's `Next` allows, and that `Next` allows only what careful callers
do.  So the invariant says what each place in a command has open (`ShapeOK`),
that nothing else is (`OnlyOpen`), that a copy never writes the file it reads
(`ApartOK`), and that no file grows beyond what a caller may ask for
(`RoomOK`: what is written was read before, or was in the editor's text).

**Copies** (`CopyInv`, on top of `ShInv` and of `AllBacked`, which the refinement
hands down).  Until a write comes up short, source and destination stand at the
same place, in `fs_write` less what is still to be written, and the destination
lies in a set of clusters of the data area closed under links (`Even`, `Spare`);
so no transfer of the copy fails.  A write comes up short only when the next
cluster is missing or lies past the data area, and then `alloc_cluster` has
passed over every cluster of the data area (`AllocLeast`); a copy frees none, so
it stays so to the end.  A read returns nothing only at the size (`ReadsAll`).

**Saves** (`SaveInv`, on top of `ShInv`, of `AllBacked` and of `UsedReadable`: no
entry stands in a cluster that cannot be read).  A file of `old` units had the
clusters `0 .. Last` of a chain, all different and in the data area, since
`AllBacked` says that as many links lead on.  After `fs_unlink` they are free:
`Reserve(n)` says so without counting, by an injection from the clusters
`n .. Last` still to be written into the free ones of the data area.  An
allocation may take any free cluster, and so one of the injection's values or
none; either way an injection from `n + 1 .. Last` is left.  `Stored` is the
chain written so far, a function too.  As the write never comes to the end of
the injection before it comes to the end of the text, it is never short
(`TextStored`).  That `fs_create` and `fs_open` succeed is `EntryReady`: the
removed entry's place is free, so there is one for the new entry, and a path
leads where it led as long as the lookups on it come out the same (`ParentKept`).

**TCP** (`TcpInv`).  `OnceInOrder` and `NoGap` are not inductive, and
`Synchronized` only together with the rest.  It needs which states of the
connection a wait can meet (`Waits`) and that everything delivered lies before
`rcv_nxt` (`Behind`).  That the port of an earlier connection
is not matched is what keeps old segments out.

**Keyboard and mouse** (`PsInv`).  The properties speak of what has arrived; the
invariant also says what is on its way: which byte may follow which in the
queue of a device, in the output byte and in the locals of a polled `on_irq1`,
across all of them (`InOrder`, `MouseBytes`), and that a byte of the keyboard and
its request come and go together (`Lines`).  For `NoKeyLost`: a byte moves from its
queue to the output byte, to the locals of the poll, to the ring and to the
reader, and each step but the store leaves a key where it is or hands it to the
next place (`KeyStays`); the store puts it behind what is waiting unless the
ring is full (`RingGrows`).  The four theorems have the
hypothesis `machine # "late"`: with a CPU that looks at the controller between
the byte and its interrupt they are false, which is what `ps2_mouse` shows.

**Drives.**  The scan of the disks, of a table and the mounting of all views are
recursive functions, and that they yield views that fit their disk and letters
of disks that are there is induction (`RecursionExists`, `RecursionStays`).
`DrivesTypes` is not inductive by itself: setup formats and writes the volume
its target names, which is a volume only while the target's view is there, so
it is proved together with `WizardInv`: at each step of the wizard, that the
target is present and its letter mounted on it, and which files are whole by
then.  The last of these at `verify` is `InstallHonest`.  `OneActiveKept` has a
hypothesis on `Tables`, because a table that comes with two active partitions
keeps them until one is made active.  `AutoPartIsFree` needs that a gap meets no
span: what begins before it ends at the cursor or earlier, and what begins
later begins after its end (`GapsFree`).

**The network cards** (`RxInv`, `TxInv`, `NeRxInv`, `NeTxInv`).  Of the E1000,
the descriptors between the two pointers, taken modulo the size of the ring,
are a window; the invariants say which bits are set inside it and outside, and
that a frame the other side has looked at is still in its buffer.  A move of a
pointer is then an `Append`, a `Tail`, or, when the ring fills to the last
descriptor, the loss of all that the card had not begun.  Of the NE2000, the
pages from the one after BNRY up to CURR are whole frames one behind the other:
there is a set of pages at which they start (`NeStarts`), the header of each of
which leads to the next, whatever page the ring begins with; the queue is what
the walk along the headers finds.  The invariants of what is sent hold until a
wait ran out late (`TxSafe`, `NeTxSafe`), and late it stays (`LateStays`).

**The volume sector by sector** (`FdInv == Basic /\ Kept`).  `Basic` holds
with failing transfers too, and is about the FAT as `fat_get` shows it, the
cached sector over the first copy: every entry's cluster heads a chain and is
linked to by no other (`HeadsUsed`, `Linked`), and each place inside a call says
what the call still owes (`Doing`).  `NeverShared` follows.  `Kept` says what is
true as long as no transfer failed: the two copies differ in the sector being
flushed alone (`Synced`), and the chains lie in order (`Laid`): there is a number
for every cluster, smaller at each link, and an owner, the same at both ends of a
link.  Such numbers are a witness that chains end and do not meet, and a change
of one link changes them in a few places, while the chain itself, a recursive
function, would have to be followed anew.  A power cut takes the cache away;
what is on the disk then is `Laid` but for the file in work.

**The network stack** (`NetInv`).  `NetTrue` speaks of frames that leave and of
names that resolve.  The invariant adds how the waits in `ip_send` nest
(`Nested`): the innermost alone may still have its packet in the one buffer, and
the outermost is the call's own while the call sends; and that every query in
the buffer, every answer in the air and the datagram `udp_recv` keeps belongs to
an earlier number, or to this one and its name (`Answering`).  The proof also
corrected the model: an `ip_send` of an echo reply that ends inside another wait
returns to that wait, and leaves the state of the call alone.

**Windows** (`DtInv`).  The order lists the windows in use, each once (`Lists`);
a window is as `spawn_widget` placed it or on the screen, and one that can be
resized has room for the least size (`Sound`), which is why clamping the size
after the place never makes it smaller than that; a held window can be resized
if it is held for that (`Holding`); Welcome is never minimized.

**Drivers** (`MsInv`, `FlInv`, `AhciInv`, `IdeInv`, `RtcInv`, in DevicesProofs).
What a driver promises is about the end of a call; its invariant says what is in
the device meanwhile.

- A USB stick (`InStep`): in each of the three stages, which phase the stick is
  in, that the toggle of the queued transfer is the stick's, and that at its end
  both toggles will agree (`Queued`); that holds until a transfer is given up late
  or cut short.
- The floppy (`InTurn`): at every step of a call, what one wait that was given up
  may have left: a command still running or a result nobody read, never both a
  moving head and one of these.  The next call finds that out at its first sense
  of a seek, or at the result that is not its own; with a second wait given up it
  need not, and `FloppyTrue` does not say so.  `SoFar` has the sectors moved by then.
- AHCI: the numbers of disks run behind those of ports, so that a port's list is
  that of its own slot or of one before (`Listed`), a command that is running on a
  port without a wait given up is the one the call waits for (`Awaited`), and it
  is the call's (`Commands`).
- IDE (`Alone`): only the selected drive is ever busy, and past the first sector
  of a call not with an earlier command, although `wait_not_busy` may end early.
- The clock (`Running`): there is a moment at which the call began, the first
  reading is of times up to some second after it, the second reading of times
  from that second on; registers that agree are then all of one time.

**The USB keyboard** (`HidInv`).  `HidOnce` compares two counters at the ends of
a pipe; the invariant says where the difference is.  Without bus errors the two
toggles differ only while a report waits for `usb_kbd_trygetc` (`Toggled`), so
no report is dropped.  `Down(i)` has the keys that were held at each report the
driver has not got yet, and there is, for every key, how often it had been
pressed by then (`Rises`): it goes up at least where a key is down that was not
before, and by exactly that without bus errors, since an error can make the
controller drop a report.  The presses up to the report the driver got last
have been typed, but for those it has not yet looked at, and never more
(`Typed`).  That needs that no report is a rollover report, which two keys held
at most ensure (`KeysCounted`).
What is put into the ring is a list without repetition; that one as long as the
set of new keys has all of them is `ListsAll`, from the library's facts on
injections between finite sets.

Induction over data.  The induction theorems of the library take an operator as
parameter, and the provers cannot instantiate those.  What is needed here comes
from `WFMin`, which takes a set: every non-empty set of naturals has a least
element, so a set with 0 and closed under successor has all of them
(`LeastElement`, `Induction`).  With the set of those `n` for which a function
exists that satisfies the recursive equation up to `n`, it also gives the
functions themselves.

Only model-checked: of `parts`, the types
of all parts together, `EditorTrue` and `ToolsTrue`; and liveness
(`CommandsEnd`, `CallsReturn`, `InputRead`, `InstallEnds`), which is out of the
prover's reach together with ENABLED.  `ToolsTrue` speaks of Zbc too, whose RECURSIVE
operators the provers cannot treat.

## 5. Where the code does not do what it says

- `shell_mv`: `mv` falls back to `cpr` and `rm`; `cmd_cpr` returns 0 on its
  failures too, so the old file is removed although nothing was copied, for
  instance when the new name exists.
- `tcp_ring`: a segment that does not fit the ring is stored in part and
  acknowledged as a whole.
- `ps2_mouse`: the poll reads the keyboard's byte, the interrupt latched for
  that byte is served afterwards and reads whatever is in the buffer then,
  a byte of the mouse included.

- `drives_scan`: `do_mount_all` compares a disk only with the letter it has
  reached; a scan mounts a volume again on the next free letter, and two
  copies of its FAT and root are then written over each other.
- `usb_success`: the tag of a status wrapper is never compared, so the status
  of a command that was given up is taken for that of the next one.

Seen while modelling, without a run of their own.  Where they are in the part
that is modelled, the model has them and the properties are stated around them:

Files.  `rmdir` removes a directory that is current.  When a file gets its
cluster, relative paths take the bytes of the file for entries
(`fat.c:330-347`), and a relative `rm` frees whatever chain they name (819).
`fs_rename` accepts `.` and `..` as new names.  A removal whose second
read of the directory fails leaves an entry with a free chain (`fat.c:821`).
`flash` unmounts a volume while it may be reading a file of it
(`builtins.c:663`).

Partitions.  `mbr_largest_free` takes the start of every partition for the end
of a gap (`mbr.c:300`) and the end of the disk for the last one only.  After
`mkpart` with a start typed beyond the disk, which nothing refuses, an automatic
`mkpart` gets a span that reaches past the end of the disk, although `mbr.h:57`
promises the "Largest contiguous unallocated span on raw_disk".  It overlaps no
partition all the same.  `AutoPartFree` therefore asks for an end on the disk
only while every partition begins there.

Editor.  Undo of a join removes another line (`edit.c:413`), undo of a split
loses the tail (451-468), undo of a deletion of several lines brings back one
(760); undo, redo, undo of a changed line does nothing the second time.  `o`,
`O`, undo and redo of a line leave the text "not dirty", so `:q` forgets them.
After `:e` of a missing file the buffer has no lines and what is typed is
never saved (532-539).  Page keys leave the column beyond the end of the line.
Loading cuts long lines and files silently (268); saving removes the old file
first and ignores what the writes return (282-294).

Desktop.  Raising a minimized window gives the keys to one that is not seen
(228-235).  Flags of windows survive a restart of the desktop (2260).  ESC
leaves without saving Notes, and a shorter text keeps the tail of the longer
one in the file (341-355).  `run_files`, `run_web`, `run_terminal`,
`run_notes` and `run_settings` are reached from nowhere.

Network.  A FIN is taken whatever its sequence number, so one that overtakes
data ends the stream early (`net.c:458`); nothing is ever sent again, though
`net.c:11` says so.  A packet that waits for ARP while a ping is answered goes
out with the answer's content (249).  `ping` takes any echo reply (297).  Each
repetition of a FIN advances `rcv_nxt` again (458).
`e1000_tx` never compares TDT with TDH, so a ring filled to the last descriptor
looks empty to the card and its frames are lost.  Its wait for the transmitter
(`e1000.c:187`) and that of the NE2000 (`ne2000.c:123`) count turns, go on when
they run out, and overwrite a frame that is being read or sent.

Disks.  AHCI: command lists are handed out by slot and filled by port
(`ahci.c:342`): a disk whose slot is not its port's number runs another disk's
commands; a disk on a port whose number is beyond `AHCI_SLOT_MAX` uses memory
behind the tables (120-125); a poll that runs out reports success (205); after
one failed command the port stays stopped and all later ones fail.  Floppy:
IRQ6 and result bytes of a command that was given up are taken for those of the
next one; after two of them a call can succeed without moving its sectors.
IDE: a write the drive refuses is not noticed (`ata.c:140`).

USB.  Every device gets address 1 (`usb.c:866`); other transfers unhook the
polling of the keyboard (432); halts are never cleared.  A UHCI transfer of
more than 64 packets is cut there and called a success (417), as it happens
with a stick whose packets are small.  After a report of too many keys every key
still held is typed again (927-941), and a mouse move that is followed by a bus
error is added again.

Clock.  In 12-hour mode noon reads as 0 and midnight as 12, and `rtc_write`
writes 24-hour values without the PM flag (`rtc.c:101`).  `time` writes back
the date it read, all zero if the reading failed, and yesterday's if midnight
came in between.

Prompt.  A line recalled and edited is lost by the next UP or DOWN.  History
keeps 127 of 255 characters; alias names longer than 15 characters are stored
cut and never match.

Assembler.  A line of `%define` hangs the assembler: an identifier may begin
with a percent sign (`zas.c:143-152`) but does not contain it, so the token is
empty and `skip_line` (329-335) reads it again for ever.  Pass 1 counts `.data`
from offset 0, so a data label after code is off by the size of the code; all
labels of `.bss` share one address; `.bss` is counted in both passes.
Undefined labels are reported and the file is written all the same; labels past
128 and output past 16 KiB are dropped.

C interpreter.  `continue` in the last round of a `while` skips the rest of
the enclosing block; `for` runs its step after `break` and after `return`, and
a call in that step clears the return; `break` outside a loop ends a loop of
the caller; a function that falls off its end returns what it called last;
a declaration in an inner block assigns the outer variable.

## 6. Not modelled, and the plan

Left out, with reasons:

- `fs_format`, the FAT12 image and the directory iterator: sequences without
  a decision that depends on anything but their own input.
- `http_get`'s parsing and the page's file, tokenizing and alias expansion,
  the lexers of `zas` and `zbc`, instruction encodings: text, where a bounded
  model shows less than a table of examples.
- the scripts of the shell, a loop around its prompt; the modal applications
  of the desktop, which nothing calls.
- a handle that is open while its volume is unmounted: Drives has `flash` and
  the letters but no handles, FatVolume has the handles of one volume that
  stays mounted.
- the cursor of the mouse: `mouse_get` (`mouse.c:157`) adds USB motion with
  interrupts on and may lose one packet's motion; no state depends on it.
- exception handlers, screen, memory, environment, clipboard, serial, boot
  loader, C library and build scripts: output, straight lines, or tables with
  single calls.

What is left is to prove more of what is checked: the undo of the editor
(`EditorTrue`), which needs induction over the lines a save joins and a load
splits, and the types of the parts that no other theorem needs.
