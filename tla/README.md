# A TLA+ model of CP/M-8000 for the Commodore 900

This directory models the system in `src/`: a CP/M-68K-derived BDOS for the Z8001
that runs several programs at once on a machine with one 64 KB program area (the
*TPA* segment), one file system and one or more consoles, its BIOS, and those of
its programs whose correctness is a matter of order rather than of text: the
command processor, the file transfer, the directory conversion and the Z80 and 8086
emulators.  The modules
are translated from the C and assembly sources; TLC checks them on small
instances, and TLAPS proves part of it for every instance.

- [1. The system](#1-the-system)
- [2. The modules and the code they stand for](#2-the-modules-and-the-code-they-stand-for)
- [3. What the runs check](#3-what-the-runs-check)
- [4. What is proved](#4-what-is-proved)
- [5. What the model shows the code doing](#5-what-the-model-shows-the-code-doing)
- [6. What is not modelled](#6-what-is-not-modelled)
- [7. Plan](#7-plan)

To run everything here: `tlc -config MCProc_kernel.cfg MCProc` and so on for each
`<module>_<run>.cfg`; `tlapm ProcProofs.tla` for the proofs, and likewise
`SchedTheorems.tla`, `ProcInvariants.tla`, `XdosProofs.tla`, `DiskProofs.tla`,
`DirectoryProofs.tla`, `DialogProofs.tla` and `EmulatorProofs.tla`.

## 1. The system

A program calls the BDOS through a trap (`bdosglue.s`, `bdosmain.c`).  Inside the
BDOS nothing is preempted: the tick handler (`trap.s`, `ttick_`) calls the
dispatcher only when it interrupted a program in user mode on an empty
supervisor stack.  Control moves between processes at two kinds of point: there,
and where a call parks itself (`pwait`).  Every shared global of the BDOS is
therefore safe *between* park points and exposed *at* them; that is where this
system is hard to test, and it is what the modules cut into steps.

| component | files | state it keeps | operations | what makes it correct |
|---|---|---|---|---|
| Process kernel | `bdos/proc.c`, `proc.h`, `procasm.s` | `pd_*` per descriptor, `pcur`, `pnwait`, `pnlive`, `lkown`/`lkdep`, `pnoyld` | create, session, dispatch, wait, wake, lock, die, warm boot, attach, detach | one owner of the lock; nobody waits for what has happened; the wait counter is exact; a descriptor is built by one creator; every image is where its descriptor says |
| Page pool | `bios/pgalloc.c` | `pgown`, `pghld`, `pgpg`, `tpaphys` | allocate, free, hold, swap, restore, release | no slot lost, none given to two |
| XDOS calls | `bdos/xdos.c` | flags, queues | flag wait/set, queue make/open/delete/read/write, delay, poll, memory, consoles | no lost wake-up; queues are FIFO; a waiter is registered exactly while it waits |
| Tick | `bios/tick900.c`, `trap.s` | tick counter, quantum | count, dispatch | every ready process runs |
| Error prompts | `bdos/bdosmisc.c` | errmode, the message | ask, retry, continue, abort | an abandoned call leaves nothing behind |
| Consoles | `bdos/conbdos.c` | `kbchar[]`, columns, pager | read, write, line edit, ^S ^Q ^C | input goes to the console's owner, in the order it was typed; the screen shows the line |
| Directory and allocation | `bdos/dskutil.c`, `iosys.c`, `fileio.c`, `bdosrw.c` | per-process directory buffer with its tag, shared `alv`, `dirwgen`, R/O vector | scan, open, close, make, delete, rename, read, write, truncate | a block belongs to one file; a name is there once; nobody hands back a record that has moved |
| Sector cache | `bdos/bcb.c`, `bios/bios900.c` | set-associative buffers, dirty bits | get, put, flush, drop | reads see the last write; what was acknowledged survives a power cut |
| Directory signatures | `bdos/dskhash.c` | one byte per entry | build, test, update | never skips an entry that matches |
| Drive table | `bios/bios900.c`, `bdos/iosys.c` | DPBs, allocation pool, the drive selected last | cold start, select | drives lie apart; a transfer goes to its drive |
| Loader, split I/D | `bdos/pgmld.c`, `split*.c` | program headers, scan tables | load, rewrite | text and data end up where they run |
| Resident extensions | `bdos/rsx.c` | chain, fence | attach, remove, warm boot | the chain survives warm boots |
| BIOS | `bios/wd900.c`, `bios900.c`, `cmain.c`, `crt.s` | controller, receive ring | sector I/O, console I/O, warm boot | retries end; done is done; the ring drops nothing silently |
| KERMIT | `cmd/kermit.c`, `cpmio.c` | two ends of a transfer, windows, prefixes | send, receive | a file reported sent is there and whole; the receiver comes back |
| INITDIR | `cmd/initdir.c` | a directory record at a time | count, build, write back | no file lost, whatever write is the last |
| Z80, 8086 shims | `shim/z80exec.c`, `i86exec.c` | registers, a record of the last operation | execute | the record stands for the flags |
| | `shim/z80bdos.c`, `i86bdos.c` | batched output, copies of BDOS state | calls of the guest | calls in order, copies true |
| CCP | `ccp/ccp.c`, `ccprun.c`, `ccpgo.c`, `ccpext.c` | `struct ccpsv`, a copy with the system and one in the TPA | lines, submit files, IF/ELSE/FI, loads, ^C | each command once and in its turn, whatever programs run between |
| Other commands | `cmd/`, `app/` | — | programs on top of the BDOS | — |

How they interact: `bdosmain.c` brackets the calls that use the file system with
`LOCK`/`UNLOCK` (`plock`/`punlock`); a disk error inside such a region asks the
operator (`ext_err`), which reads a character through `getch()`, which attaches
the console and parks; `A` warm-boots out of the middle of the call.  `pcrgen()`
takes a page from the pool, swaps it in as the TPA and runs the loader under the
lock with yielding turned off.  XDOS waits, console waits and lock waits all sit
on the same wait list, and `pwscan()` polls the conditions no event announces.

The hazards of `PROJECT.json` go through this list line by line.

## 2. The modules and the code they stand for

                        modules of the system                    what TLC starts from
    Sched ───┬─ Proc ──────────────────────────────────────┬── MCProc
    PagePool ┘                                             ├── MCPlan
    WdDisk ────────────────────────────────────────────────┼── MCLive
    Kermit ────────────────────────────────────────────────┤
    Sched ──── Xdos ───(implements)─ FifoQueues ── MCXdos ─┤
    BufCache ─(implements)─ Medium ────────────────────────┼── MCDialog
    ConIn, LineEdit, KermitCoding ─────────────────────────┘
    Files ── MCFiles ─┬── MCStorage
    Drives, InitDir ──┤
    DirHash ─ MCDirHash┘
    Words ─┬─ Z80Flags ─┬─ Executors ─┬── MCPrograms
           └─ I86Flags ─┘             │
    Z80Seam, I86Seam ──── Bridges ────┤
    Ccp ──────────────────────────────┘   Ccp ──(implements)── Script

    proofs
    Proc, SchedTheorems ── ProcProofs ── ProcInvariants
    Xdos, SchedTheorems ── XdosProofs
    WdDisk, BufCache, Drives ── DiskProofs
    Files, DirHash, InitDir ── DirectoryProofs
    Kermit, ConIn, LineEdit, KermitCoding ── DialogProofs
    Bridges, Executors ── EmulatorProofs

**Sched** is the wait list and the round robin (`pblock`, `punblk`, `pwake`,
`pwscan`, `pnext`, `pnextany`).  `pd_wait`, `pd_wobj` and `pnwait` are one
record; each routine is an operator from the record before to the record after,
so that a handler that calls three of them composes three.  `pnwait` is kept as
the code keeps it, a number that is counted up and down on its own, because the
sweeps return at once when it is zero.

**PagePool** is `pgalloc.c`, operators on one record in the same style.

**Proc** is the kernel.  A step is the code between two park points or between
two changes of shared state; `at` and `ctx` say where in which call a process is.
`Claim`, `LoadBegin`, `LoadOk`, `LoadFail` are `pcrgen()` cut at its lock, with
the page swap, the inherited console and `pnoyld` as the code sets them;
`FsCall` … `FsReturn` are an arbitrary file-system call, with nested `LOCK`s;
`FsError`, `ConTake`/`ConWait`, `GetcWait`/`GetcReturn`, `Retry`, `Abort` are
`ext_err()` down to the keyboard and out again; `Exit` and `Abort` run
`warmboot()`/`procdead()` in full (`GiveBack` and then `Reload` or `Die`).
`Key` and `Deadline` are the world outside, which moves between any two steps.
`image` is a history variable: what a physical page holds, a fact the code has no
variable for, and the one every page-juggling routine is there to preserve.

What the program calls is a parameter, `Calls`, so that a run pays only for what
it asks about.  `"anyfree"` lets a program free segments it was not given; no run
turns it on (see section 5).  The theorems of section 4 about the lock, the wait list
and the consoles hold with it, those about pages exclude it.

**Xdos** is flags and queues, over the same `Sched`.  `made` numbers the queues
that have lived in a slot: the identity the code does not record.  `last` is the
message the last read delivered.  **FifoQueues** is what the queues promise.

**Files** is one drive's directory and allocation vector under several programs:
what goes on inside the locked regions that Proc only opens and closes, and in
the calls that take no lock.  Its state is the directory (`disk`), the vector
(`alv`), `hiwater`, the logged-in and read-only bits, and per process the
directory record it works on (`buf`, which is `pdirbuf` with `dirsecn`), whether
that record is current (`fresh`, which is `dirgen = dirwgen`), and the file its
program has open (`fcb`).  One action is one turn of `dirscan()`'s loop or the
code between two places where a call may park: the `LOCK`s of `seldsk()`,
`delete()`/`truncit()`/`close()`, `getaloc()` and `do_phio()`, and the prompt of
a disk error.  `Fetch`, `ReadOk`, `ReadFail`, `Unread` are `dirget()`/`dir_rd()`;
`Amend`, `Erase`, `Merge`, `EnterTruncate` edit the record in the buffer the way
`create()`/`rename()`, `delete()`, `close()` and `truncit()` do, on their own
side of the lock; `Written` is `dir_wr()` with what each caller does after it,
whether the medium took the write (`WriteOk`) or not (`WriteFail`).  A refused
write may have changed what is read afterwards: `dskwrite()` has copied the
record into the sector cache before it finds out.

A file has one directory entry and one block, which is enough for a block to be
in two files or in none.  The drive is one of this machine's fixed disks, which
have no checksum vector (`cks` is 0, `bios900.c:679`).  What programs do is a
parameter, `Casts`: who makes which calls, and who has asked for errors to be
returned (function 45).  Programs are assumed to be sensible (`Sensible`): none
erases, renames or truncates a file somebody has open, and nobody resets the
disks while a file is being written.  The BDOS enforces neither; without them
files are lost, by design of the calls (section 5).

**BufCache** is the cache and the BIOS calls on it (`bcb.c`, `bios900.c`): get,
put, flush, drop, log-out, each with any of its transfers refused, and the power
going between two calls.  **Medium** is what that promises the file system: a
record has a last write, and after a power cut a read answers it or a value
written since the last acknowledged directory write or clean flush.  `KeepsWrites`
is the refinement.

**Drives** is `drvinit()`, which lays the partition table out as drives in one
pool of allocation vectors, and the select `do_phio()` leaves out.  The table is what
the disk's own label says, of any number of slots, each with a start and a length or
empty; that no two slots share a block is an assumption on it, and what `drvinit()`
makes of it is not.

**DirHash** is the signature table with everything that keeps it or fails to:
login, scan, `dir_wr()`, drive switch, function 13, INITDIR.  `spoiled` names the
ways the code leaves signatures behind; the invariant is that nothing else hides an
entry.

**InitDir** is the command's two passes over the directory, `countdir()` and
`buildnew()`, with the power failing between any two record writes.

**WdDisk** is one sector transfer through the polled controller, with a controller
that may answer, be busy, fail or stay silent, and a tick that may not run.

**ConIn** follows typed characters from the BIOS through `kbchar[]` to the program
that takes them: `getch()` cut at its attach and its park, and the polls
(`constat()`, `conbrk()`) of other programs on the same console.  **LineEdit** is
function 10: the stored line, the cursor in it, and what the screen shows, one key
a step, on a row of `WIDTH` columns that the line, its prompt and the `^` of its control
characters fit.

**Kermit** is `kermit()` at both ends with `cpmio.c`'s control program and a line
that loses, spoils and delays packets.  **KermitCoding** is `getpkt()`/`encode()`
against `decode()`: how bytes become data fields and bytes again.  A field is a
sequence of units (a character with its prefixes), and `decode()`, a loop over it, a
recursive function of the place in it.

**Words** is machine words as numbers and sets of bits.  **Z80Flags** and
**I86Flags** run every class of instruction on two machines at once: the executor's,
which leaves a record of class, operands and result and makes flags when they are
read, and one that computes them at once.  **Z80Seam** and **I86Seam** are the
bridges from a guest to the BDOS: batched console output, and the DMA address,
count and control-block image of which both sides hold a copy.  **Executors** and
**Bridges** put the two of each kind side by side and say what both promise.

**Ccp** is the command processor.  A program is loaded over it, so it works on a copy
(`sv`) of a state the system keeps (`res`), hands that back at the end of a line and
before a load, and starts from it when it is loaded again (`ccprun`).  One action is
one turn of `main()`'s loop: the command of that turn carried out (`Flow`, `Skip`,
`dir_cmd` … `SubmitCommand`, `File`, `errhook`) and the next one found, which may read
records of the submit file (`Advance`, with `submit_cmd()`, `translate()`,
`comments()`, `dollar()` whole).  **Script** is what that promises: a line is a
sequence of commands, a submit file stands for its commands, each is carried out once
and in its turn.  `ScriptKept` is the refinement: the commands still to come are
computed from the pointers, the record in the buffer and the file as a whole.

The **MC** modules add what TLC needs.  Three of them, **MCStorage**, **MCDialog**
and **MCPrograms**, put modules side by side that share no state: `part` says which
one a behaviour is about, and the others stay where they start, so that the states
are the sum and not the product of theirs.  **MCLive** does the same for the
modules that have liveness properties, each with its own fairness.  **MCPlan** is
Proc with three plans: programs that take slots of the page pool, sessions whose
consoles are reassigned, and background programs that claim consoles and die;
in the last two process 0 creates the others, for the number of states only;
**MCProc** is Proc, and its `KernelSpec` leaves out the
actions that the calls of run `kernel` never reach (they fire in `plans`).
**MCFiles** holds the casts and the operators' answers, and the symmetry of the
file names, which no definition orders or tells apart; the kernel's scans order
processes and slots by index, so they admit none.

A definition with a suffix that stands before the one it is named after
(`punlock_flat` before `punlock`) is a broken form of it.  `PROJECT.json` pairs
each checked property with one: put in the place of the original it makes that
property fail, which shows that the property can.

## 3. What the runs check

| run | instance | states | shows |
|---|---|---|---|
| `kernel` | 3 descriptors, 3 slots, 1 console, `LOCK` nested twice, disk errors, aborts | 1.4 M | types; the wait counter is exact (`WaitCount`); whoever is in a locked region is the one live owner of the lock (`LockExcludes`); nobody sleeps on a free lock, also after an owner is given up at a prompt (`LockWaiters`); a creator that comes while another is parked in the lock does not get the other's descriptor or page (`ClaimsDisjoint`); yielding is off only in a load (`NoyldOnlyInLoad`) |
| `plans` | 3 descriptors, 3 slots, 2 consoles; either the debugger, loads and program segments, or sessions and console assignment, or background programs that attach and die | 1.8 M | every live image is on its page (`ImagesIntact`) and the segments programs asked for stay theirs (`SegmentsKept`) through everybody else's warm boots and deaths; no slot leaked (`PoolAccounted`); a console has one owner, and who sleeps on one sleeps on one that is owned by somebody alive or was kept by a program that died at home there (`ConsolesOwned`) |
| `liveness` | 3 descriptors and timed waits; one sector transfer; one file transfer | 9 k | under fairness a ready process runs (`ReadyRuns`), a delay whose deadline has passed ends (`DelayEnds`), a transfer is answered (`TransferEnds`), and never "done" before the data moved (`DoneIsMoved`), a KERMIT receiver comes back to its prompt (`ReceiverStops`) |
| `dialog` | 3 processes, 1 flag, 1 queue of depth 1 or 2; 2 cache buffers over sectors of 2 records; 3 programs on 2 consoles; a line of 3 characters; texts of up to 13 bytes; files of up to 3 blocks over a bad line | 958 k | no lost wake-up (`NoLostWakeup`); `xfwait` is the number of waiters (`OneFlagWaiter`); rings implement FIFO queues (`RingsAreFifo`); no buffer holds what is neither on the medium nor marked dirty, and no block is in two (`BuffersAgree`); the cache implements `Medium` through refusals and power cuts (`KeepsWrites`); keys arrive in the order typed (`TypedOrder`) and no reader sleeps beside a key that is its own (`NoDeafReader`); the screen shows the stored line after any sequence of editing keys (`ScreenShowsLine`); decoding undoes encoding (`RoundTrip`); no block twice, left out or out of order (`InOrder`), and a sender that reports success has delivered (`DoneIsDelivered`) |
| `storage` | 3 processes, 3 entries in records of 2, 2 blocks, 2 names; 3 partitions; 2 drives with signatures, one beyond the table; a directory of 8 entries | 2.0 M | cached records are what the disk holds (`CacheFresh`); blocks in use are taken (`BlocksTaken`), also after a delete or a close the medium refused, and in one file (`BlocksDisjoint`); a name is there once (`NamesUnique`); no directory write hands back another entry as it was before (`NoLostUpdate`); no two drives share blocks or vector bytes and a transfer goes to its drive (`DrivesApart`); only a known spoiling hides an entry (`HiddenOnlyIfSpoiled`); INITDIR keeps every file at every write (`Preserved`) |
| `programs` | 4 lines, 3 submit files in records of 4 tokens, 1 program; bytes of 4 bits with digits of 2; 4 guest calls | 55 k | commands are carried out once and in their turn (`ScriptKept`); records stand for flags, conditional jumps and decimal adjusts included (`RecordsStandForFlags`); a delay loop run to its end at once is its steps (`DelaysAreSteps`); the BDOS carries out calls in the order made (`CallsComeInOrder`); the bridges' copies are the BDOS's values (`BridgesAgree`) |
| `load_abort`, `stale_owner`, `prompt_deadlock`, `slot_reuse`, `lost_update`, `stale_signatures` | 1–3 processes | | violations, section 5 |

**Bounds.**  `NP` = 3 is the least with an owner, a waiter and a third that may
die, be created or hold the console; the scans wrap around in it, and a slot is
freed and used again while two others live.  `NSLOT` = 2 parks two images beside
the TPA and makes the pool run dry; 3 has a page to spare for a second creator or
for a program's own segment or the debugger.  With three descriptors the second of two creators at
once finds none left; that two which both find one find different ones is part of
the invariant proved in section 4, for any number.  `NCON` = 2 is needed only where
a console is reassigned, or claimed away from home.  `MaxDepth` = 2 distinguishes the
outermost `UNLOCK` from an inner one.  `DEPTH` = 2 makes the ring wrap out of
step with the count; `MaxMakes` bounds how often a slot becomes a queue: 1 where
identity does not matter, 2 for `slot_reuse`.  Two entries share a directory
record and a third does not, so that a write can disturb a neighbour, a scan
crosses records, and the high water mark lies inside the directory; two blocks
for two files, so that the disk is full when both are written.  Deadlock is
checked in every run but `liveness`, where a transfer comes to its end, and
`stale_signatures`; in `dialog`, `storage` and `programs` the parts that do end have a
step for it.

The cache has one set of two ways: sets do not touch one another, and two ways are
the least in which one buffer is taken while another is dirty.  A sector of two
records shows a write to half of it.  Bytes of four bits with digits of two keep
every boundary the flags look at (half-carry, sign, overflow, the shift by more
than the width) and allow every class of instruction to follow every other.
Records of four tokens cut commands, comments, arguments and ends of lines at every
place.  The lines and files of `programs` have a program first, in the middle and last
on a line and in a file, two open IFs, a chained file and a file named in the middle of
a line.  They keep four assumptions, which section 5 explains: a program is not followed by
an empty line, a comment or a command that its arguments leave empty; a comment has a
line of its own; IFs stay within `IFMAX`; SUBMIT's prompt is answered with the name of
a file.

`SEQNOS` = 4 is the least power of two with a window between *acknowledged* and
*not yet sent*; `NOISE` = 3 spoils a packet, its retry and an acknowledgement.
`RETRY` = 1 and `IDLES` = 1 reach the limits.  Texts end a data field in each of
its possible remainders (`6 .. 9` filling bytes) and continue with every short
combination of what `encode()` tells apart.

The `files` part of `storage` has three casts: two processes that change the same
files and get their errors back; two that change different things while a third
looks on and stops in the middle of its scan at a prompt; and one whose every
directory write may stop at a prompt while another looks on.  Two things are left
to section 5: reads are refused in the scan of a call but not in the login or in
`fexists()` (`ReadFails`), and the operator answers A only where the program does
not have part of the directory in hand (`Patient`).

**Fairness** is stated in MCLive, one set for each of its parts.

- *Kernel.*  `WF(Running)`: the one processor always executes something.
  `SF(Preempt)`: the 100 Hz tick, which keeps interrupting, finds a program in user
  mode again and again and preempts it when its quantum is spent.  Nothing is
  assumed of deadlines: `DelayEnds` is about a delay whose deadline has passed.
- *Transfer.*  `WF(Driver)`: the driver polls; it runs to its end before anything
  else can.  The controller and the tick may do nothing for ever.
- *File transfer.*  `WF(Receiver)`, `WF(Sender)`: each end goes on when it can,
  which includes its timeout, since each has a clock.  `WF(Ignored)`: what arrives
  at an end that has left is dropped.  The line may lose any packet, up to `NOISE`.

## 4. What is proved

Each theorem holds for every value of the constants: any number of processes, slots,
consoles, queues, buffers, entries, files, any set of calls and of operator's answers,
under the assumptions the modules state on their constants.  Those are mostly of two kinds.
Sizes are not zero where the code has at least one; `Nobody` is not a process
(`NobodyAssumption`, `ConInAssumption`), an erased entry's name is not a file's
(`FilesAssumption`); a file is a sequence of blocks (`KermitAssumption`); the slots of
a partition table share no block (`DrivesAssumption`); a line fits its row
(`LineAssumption`); a delay loop's count is a byte or a word and not zero
(`LoopsAssumption`, `Loops86Assumption`), the operands that a run enumerates are bytes and
words (`OperandsAssumption`, `Operands86Assumption`) and a byte is two decimal digits of
half its bits (`DigitsAssumption`, `Digits86Assumption`).  `PowersAssumption` of Words and
the powers in `CountsAssumption` are not about the code: they are the arithmetic of powers
of two, 2^(i + 1) = 2 * 2^i up to the exponents used, of which the provers know nothing,
and TLC evaluates them like the others.  A theorem
that needs more says so in its `ASSUME`, and the reason is given here: each such
hypothesis excludes something the code allows and a run or an observation of section 5
shows to break the property.

| module | theorem | what always holds | only if |
|---|---|---|---|
| ProcProofs | `TypesCorrect` | `TypeOK` | |
| | `LockIsExclusive` | `LockExcludes` | |
| ProcInvariants | `CounterIsExact` | `WaitCount` | |
| | `NoLockWakeupLost` | `LockWaiters` | |
| | `SeekersAreServed` | `SeekersHaveOwner`, half of `ConsolesOwned` | |
| | `ConsolesStayOwned` | `ConsolesOwned` | `[]CleanDescriptors`: no creation is given a descriptor whose last user died owning its home console (run `stale_owner`) |
| | `ImagesAreKept` | `ImagesIntact` | `"abort" \notin LoadAnswers` (run `load_abort`), `"anyfree" \notin Calls` (section 5, `pgfree()`) |
| | `SegmentsAreKept` | `SegmentsKept` | the same |
| | `NoSlotLeaks` | `PoolAccounted` | the same |
| | `CreationsAreApart` | `ClaimsDisjoint` | the same |
| | `YieldingComesBack` | `NoyldOnlyInLoad` | `"abort" \notin LoadAnswers` |
| XdosProofs | `RingsImplementFifo` | `RingsAreFifo`, the refinement | |
| | `NobodyMissesAWakeup` | `NoLostWakeup` | |
| | `FlagsHaveOneWaiter` | `OneFlagWaiter` | |
| DiskProofs | `ReportedDoneIsDone` | `DoneIsMoved` | |
| | `BuffersAreSound` | `BuffersAgree` | |
| | `CacheKeepsWrites` | `KeepsWrites`, the refinement | |
| | `DrivesAreApart` | `DrivesApart` | |
| DirectoryProofs | `SignaturesHideNothing` | `HiddenOnlyIfSpoiled` | |
| | `ConversionPreserves` | `Preserved` | |
| | `FilesTypes` | `TypeOK` | |
| | `CachesAreFresh` | `CacheFresh` | nobody is given up half-way (`GivenUp`, section 5) |
| | `NoUpdateIsLost` | `NoLostUpdate`, an action property | the same, `OneAsker` (run `lost_update`), `"login" \notin ReadFails` (section 5, `seldsk()`) |
| | `NamesStayUnique` | `NamesUnique` | the same, `NoReset` (section 5, resets), `"exists" \notin ReadFails` (section 5, `fexists()`) |
| | `BlocksStayTaken` | `BlocksTaken` | as `NoUpdateIsLost`, and `NoReset` |
| | `BlocksStayApart` | `BlocksDisjoint` | the same |
| DialogProofs | `ArrivesInOrder` | `InOrder` | |
| | `DoneIsReallyDelivered` | `DoneIsDelivered` | |
| | `KeysComeInOrder` | `TypedOrder` | `OwnConsoles` (section 5, *Consoles*) |
| | `NobodySleepsOnAKey` | `NoDeafReader` | the same |
| | `RowFollowsLine` | `ScreenShowsLine` | `OneStart`: one console, or all prompts end in one column (section 5, `stcol`) |
| | `TextsComeBack` | `RoundTrip` | |
| EmulatorProofs | `CallsKeepOrder` | `CallsComeInOrder` | |
| | `BridgesHoldTheBdos` | `BridgesAgree` | |
| | `DelaysLeaveNothingOut` | `DelaysAreSteps` | |
| | `RecordsMakeFlags` | `RecordsStandForFlags` | |

**The lock** (`ProcProofs`).  One inductive invariant, `IInv == TypeOK /\ LockInv`.
`LockExcludes` alone is not inductive: `LoadOk` puts the process it creates into
user mode, and if two creations could share a descriptor, or one's descriptor
could be a live process's, that would pull a process out of a region it is still
in.  So `LockInv` adds that a creation has a reserved descriptor in hand, that no
two have the same, that a descriptor that is not live is in no call, and that the
running process is live.  The types in turn need that part: `LoadOk` stores
through `job[pcur].kid`.  There is one lemma per group of actions (`Waiting`,
`Preemption`, `ConsoleQuiet`, `Segments`, `Locking`, `Claiming`, `Beginning`,
`Loading`, `Ending`), and `Inductive` joins them.  That the dispatcher's choice is a
live process, and the successor of a dying one *another* live process, is
`SchedTheorems` (`RoundRobinIn`, `RoundRobinOther`, from a least-element lemma proved
there); what each pool operator preserves is in the first lemmas of `ProcProofs`.
That the lock excludes through deaths and aborts rests on `WarmBoot` running only where
`pcur` is the one in the region, and on `Dropped`, which is `plkdrop()`.

**The wait list** (`ProcInvariants`).  `WInv` is `WaitCount` with `LockSeekers`: who waits for
the lock is at the lock, and the lock is held.  `SchedTheorems` has what each routine does
to the counter (`pblock` adds one only for a process that was not parked, `punblk` takes
one only for one that was, a sweep leaves none parked on what it wakes); the returns of
the sweeps on a counter of zero are right because the counter is exact, so the two parts
need each other.

**The consoles** (`ProcInvariants`).  `CInv` says what a hand-over depends on: a descriptor
that is not live owns its home console at most, which is what `pconrel()` leaves behind,
and who waits for a console does not own it and waits for one that is `Served`.  It
holds for every mix of sessions and background programs, the deaths of owners, heirs and
seekers included: `ConsolesGiven` is one argument for a detach, a warm boot and a death.
Only that owners are apart (`OwnersApart`) needs `CleanDescriptors`, and only at the step
where a creation makes its descriptor live.

**The pages** (`ProcInvariants`).  `PInv` says where every physical page is.  `Sound`, of the
pool: the TPA and the slots name each page once, and a free slot is not held.
`ParkInv`: live processes that are parked sit on slots of their own and those are held,
which is what keeps them through the death of whoever allocated the slot.  `GivenInv`: segments belong to who got them, once.
`JobInv`: a creation's slot is its creator's, parks nobody yet, and during the load it
carries the creator's own page while the child's is mapped.  `YieldInv`: a load is
the running process's and yielding is off exactly during it, which is why nobody else can
see the pages in that state.  `RsvdInv`: a reserved descriptor has a creator.  `ImagesIntact` and
`PoolAccounted` are parts of it as they stand.  A inside a load breaks `YieldInv` and
`RsvdInv`, and `pgfree()` of a slot that is not the caller's breaks `ParkInv`.

**Flags and queues** (`XdosProofs`).  `RInv`: a slot's two ends are inside its ring and as
far apart as its count says (`Rings`); what a parked caller carries is of the type the
resumed half uses, and only the running process is between the test of a queue and what
follows (`Calls`), without which a resumed writer could store into a ring that is gone.
A written message appears at the end of the abstract queue because the index arithmetic
modulo the depth sends equal distances from the head to equal places (`CellsDiffer`,
`PutAppends`, `GotIsTail`).  For the wake-ups, `WInv` gives every parked process a
`Reason`: it is at the call that parked it and what it waits for has not happened.  It
holds of the running process too, because `pnextany()` may resume one nobody has woken.
`FInv`: `xfwait` is set for exactly one process, parked at that flag or woken and not yet
run.

**The disk** (`DiskProofs`).  A transfer: from the first poll to the answer, a completion
byte that says "done" is this command's own (`OwnStatus`), because `Begin` overwrites what
an earlier command left.  The cache: `DInv` is `Good` (every block is in at most one buffer,
in its own set, the order of use goes round that set's buffers, a clean buffer is what the
medium has), `CurrentSound` (the BIOS's current buffer is the newest of
its set) and `Foreseen`, the link to `Medium`: what a read answers and what the medium has
of a record are both among the values a power cut may leave.  The long part is that
`bcbget()` finds or makes room in every case (`FindKeeps`) without changing what is read.
The drives: the table is built letter by letter (`TableTo`), each row inside its slot of
the partition table and its vector behind those before it, so that slots that share no
block make drives that share neither blocks nor vector bytes (`DriveInv`).  The loop of
`drvinit()` is a recursive function; that it has the values its equations say is shown from
the least number of letters at which it might not.

**The directory** (`DirectoryProofs`).  Signatures: `HInv` says a signature in use was made
of the entry as it is, or its record is in `spoiled`; for a login half done, that this is
so of the records it has passed.  INITDIR: `IDInv` describes the directory as it will be
when the record in hand is written (`Coming`): files outside the last slots stay, free
slots still in the bitmap are free, each last slot passed is an SFCB and each not yet
passed is as it was found.  The file moved out of a last slot is not in two slots, or in
none, on the disk at any write.

Files: `FTypes` is the types with the place of each call in its buffer.  `FreshInv`
extends `CacheFresh` from scans to every site at which a process parks with a record it has
not edited.  A record under a write that was refused is *pending*: other copies of it may
already be right or not yet.  It is not inductive across a program that is given up with
the edited record in its buffer (`GivenUp`), and section 5 says what then happens.  The
action property needs who else may edit: `OneAsker` says that who edits and leaves its
errors to the operator is the only one to edit, in each cast, which the casts of run
`storage` satisfy and that of `lost_update` does not.  From it `AloneInv` follows: a process
that is in the middle of an edit and not running has stopped at a prompt, or behind one
that did; and from both `EditInv`: a record in hand differs from the disk in the entry the
call is about and nowhere else.  A login that may stop at a prompt holds the lock there,
and an editor could then lose the processor at its own LOCK, hence the condition on
`ReadFails`.

Names and blocks stand on a third invariant, `LogInv`: an editor past its select works on
a drive that is logged in, and a login has the lock and the processor to itself.  A reset
breaks it for those who wait at a LOCK, so `NoReset` keeps resets out of the casts in which
an editor asks the operator; only there does anybody wait at one.  All casts of `storage`
satisfy it.  `NameInv` needs the high water mark (`BelowMark`: no name above it but the one
a make is writing), what `fexists()` has excluded up to where it stands, and that a rename
in hand has no second entry of either name; a rename goes on scanning after its write, and
from there what counts is that the old name does not come again.  `BlockInv` says of the
entry in hand, before the disk takes it (`EditedAt`), that its block is taken and in no
other entry, and that the block a delete or a truncate will free is nobody's once that
entry is written.  A file open for writing shares its block with no entry but the one its
close has in hand (`HeldApart`).

**Packets and keys** (`DialogProofs`).  `KInv` describes the file transfer from the sender's
sequence number `n`: either the receiver has not accepted that packet, and on the line to
it stale packets, `n - 1`, come before current ones, or it has, and what is on the way back
are answers to `n - 1` before answers to `n`.  No packet of an older generation follows one
of a newer (`InTurn`), whatever is lost, spoiled, or repeated by timeouts at both ends;
numbers are a circle, so this needs `SEQNOS > 2`.  To each of the two phases belongs what
the receiver has: everything before the block being sent, or that block too.  `ConInv`:
what is typed, in the BIOS, in `kbchar[]` and taken is one sequence in that order, and a
reader that sleeps owns its console and has found `kbchar[]` empty.

**The edited line** (`DialogProofs`).  `LineInv`: the row shows the line from the column in
which it started (`OnConsole`), character by character (`Follows`), and is blank behind it.
The columns of a line are strictly increasing, so that what is sent for one character
touches no other's; an insertion or a deletion leaves the part before the cursor alone,
repaints the rest and wipes what the old end has left, and a tab in the part repainted may
take fewer columns than before, which is why the end of the old line and not its length
counts.

**The coding of a file** (`DialogProofs`).  `Reads(h, x, w)` says that `decode()` makes the
bytes `w` of the characters `x`, whatever follows them.  `encode()` cuts fields only between
pieces that can be read, a run too long for its count and a pair sent as two bytes
included, so that what has arrived, what is kept for the next field, the run in hand and
the input not yet read are together the original (`CodeInv`).

**The bridges** (`EmulatorProofs`).  What the BDOS has carried out followed by what is
batched are the guest's calls from the first to the last, in order.  A bridge's copy of the
DMA address or the record count is the BDOS's value, unless the guest has written its own
cell and the next call pushes it, or has written a word across the cells (`straddled`, on
CP/M-80), or the paragraph it points into is no longer held (on CP/M-86): `SInv`, `TInv`.

**The delay loops** (`EmulatorProofs`).  `Round80` and `Round86` say what a stepped loop
has done after any number of rounds, in closed form; that its recursive function is that
form is shown from the least round that is not.  The first DCR of a loop may wrap, and it is
the one that may fold the record before it.

**The flags** (`EmulatorProofs`).  The invariant is that the flags folded from the record
are those `eager` has kept by arithmetic (`Stands`, `Stands86`), and that a record of a sum
or a difference still says what was added to what (`SumExact`, `Exact86`); without the second part
a decimal adjust could not know the digits.  The argument is in four parts.

- *A byte is the set of its bits.*  `ByteIs`, `Logical` and their neighbours turn the set
  operations of the executors into numbers.  The half-carry is read from the parity of one bit of the
  operands and the result; `CrossingSum` and `CrossingDifference` show that this parity is 1
  exactly if the low parts carried or borrowed, whatever the width, and serve the byte, the
  16-bit pairs and the words of the 8086.  Overflow is shown from the signs of the operands
  and the result.
- *Instructions.*  Each class of record keeps some flags and makes others; an instruction
  that keeps flags folds the record before it first.  There is a lemma for each instruction,
  and a loop of string instructions (`i86run()`) is shown by its least round
  that goes wrong.
- *Decimals.*  With two digits, a carry from each, and the corrections `daa()` and `adjust()`
  make, the result is the decimal sum; after a difference only on the 8086, since the Z80's
  executor is wrong there (section 5).
- *Shifts.*  `shift()` goes a bit at a time and the reference does it at once.  A rotation of
  `n` bits by `k` is a swap of the `k` high bits with the others (`Swap`), and a turn by one
  more bit is a swap with `k + 1` (`SwapStep`); turning right undoes turning left; a rotation
  through the carry is a rotation of one bit more.  The quotients of the right shifts nest, for signed numbers too.

*Only model-checked.*  Liveness and fairness (run `liveness`: `ReadyRuns`, `DelayEnds`,
`TransferEnds`, `ReceiverStops`) are out of the prover's reach.  `ScriptKept` is about
recursive operators, which it does not take.  Every other property of a passing run, 35 of
40, is a theorem.

## 5. What the model shows the code doing

Six of these are runs that expect a violation; the sources' own comments say
otherwise.

1. **`load_abort`.**  `pcrgen()` turns yielding off around the load
   (`proc.c:493`) and on again at its own exits.  `A` at a disk error inside the
   load leaves by `ext_err()`'s warm boot: `pnoyld` stays set, the child's
   descriptor stays reserved and the page swapped.  From then on `pyield()` and
   `pwait()` return at once, for everybody, although no child is mapped any more.
   The tick goes on preempting, since neither `pdisp()` nor `ttick_` looks at
   `pnoyld`, and the next `pcrgen()` that comes back clears it (`proc.c:569`).
2. **`stale_owner`.**  `procdead()` keeps the home console's bit in `pd_catt`,
   and `pcrgen()` does not clear it in a slot it reuses: the new process owns a
   console it never attached, possibly beside its real owner.
3. **`prompt_deadlock`.**  A lock owner at an error prompt may have to wait, in
   `pconatt()`, for a console whose owner waits in `plock()`.  Neither wait is
   polled.
4. **`slot_reuse`.**  A reader parked on a queue that is deleted looks at
   `q_used` when it runs again; if the slot has been made into another queue by
   then it goes on with that one.
5. **`lost_update`.**  When the medium refuses the write of a directory record,
   `rdwrt()` asks the operator, and on R writes the same buffer again without a
   look at `dirwgen`.  `create()` and `rename()` hold no lock at that point, so
   another process may have put an entry into the same record meanwhile; the retry
   takes it back, which is what the generation was made to prevent.

6. **`stale_signatures`.**  INITDIR writes directory records through the BIOS, so
   `dir_wr()` never makes their signatures again, and the login that follows takes
   the table for the drive it describes.  A file whose entry INITDIR moved is not
   found by a search on that drive until another drive has been selected.

The rest are observations, some on points the sources say nothing definite about,
others left out of the runs by an assumption that section 2 or 3 names.

*Kernel and files*

- A background program that dies while it owns its home console leaves whoever waits
  for it waiting (`pconrel()`, `proc.c:1125`), though `procdead()` calls that
  "release console ownership on every termination path" (`proc.c:925`).  `plans` has
  such deaths, and `ConsolesOwned` allows for them by name (`LeftByTheDead`): that
  every other console of the dead is passed on is what it claims.
- `pwait()` returns at once when yielding is off, so a disk error inside a load
  whose console belongs to somebody else makes `pconatt()` loop without end.
- Function 149 moves a process that is parked in `getch()` to another console,
  whose input it then takes without owning it.
- `pgfree()` refuses a slot that is free, not one that is somebody else's: a
  program that frees what it does not hold takes a live image's slot.  The runs
  have programs free what they were given.
- A flag that is set while its waiter, already woken, has not run yet stays one
  set: the second setter is told "ok" and the waiter consumes both.  And a
  latecomer that calls flag wait in that gap takes the set from the waiter, which
  goes back to sleep.
- A program given up (A) at the prompt of a directory write leaves its edited,
  never written record tagged as current, and the next program of that process
  scans it: with A among the answers at `"wask"`, `CacheFresh` fails.  So does a
  program that `error(4)` ends because the drive has become read-only.  At the prompt
  of a directory *read* the generation has already been sampled (`dskutil.c:162`), so
  that the record read before, whatever has been written to it since, counts as current.
- `seldsk()` looks at `log_dsk` before it waits for the lock.  If a login stops at
  a prompt, a second process that saw the drive logged out clears and rebuilds the
  vector again afterwards, and the blocks of files written in between and not yet
  closed are free: with `"login"` in `ReadFails`, `BlocksTaken` fails.  It fails,
  too, after a login that passed over an unreadable record.
- `fexists()` passes over an unreadable record as every scan does and answers that
  the name is not there; the make goes on and the name is there twice: with
  `"exists"` in `ReadFails`, `NamesUnique` fails.
- A reset (13, 37, 98) with a file open for writing loses that file's new blocks,
  as the comment of function 98 says of files nobody closed.  So does a reset while the
  first write to a file waits in `getaloc()` for the lock, behind a close or erase that has
  stopped at a prompt: the write gets its block in a vector that the next login rebuilds
  without it.  An erase of a file
  somebody is writing frees blocks that somebody goes on to use.
- A refused directory write leaves the old signatures although the cache holds the
  new record, and so does a login that cannot read a record, which marks the table
  valid: both are in `spoiled`.  `hashen[2]` is indexed by any drive.
- Function 50 called with SELDSK moves the BIOS's `curbase`, and the next transfer,
  whose drive is still the one `do_phio()` selected last, goes to the other one.
  `DrivesApart` leaves such transfers out (`strayed`).
- INITDIR assumes nobody else changes the directory between its two passes.
- `pconatt()` with yielding off, a free of somebody else's segment number, a
  deadline more than half the 32-bit range away, a blocking call refused although
  another process is about to become ready: real, and outside the bounds.

*Consoles*

- A program that reads the status only (function 109) and shares a console with a
  reader breaks `TypedOrder`: its `conbrk()` takes a character the other's
  `getch()` has passed over (`conbdos.c:329` and `:351`).  The run gives it a
  console of its own.
- `stcol` and the line ^W brings back are shared by all consoles
  (`conbdos.c:79-85`): two lines edited at once on two consoles disturb each other.
  `LineEdit` takes any number of consoles; the run has one.
- `conbrk()` overwrites the one character of type-ahead with the next; `xpoll()`
  asks the BIOS and does not see a character in `kbchar[]`; the ^S loop waits in
  the BIOS and stops every other process; ^C in the pager leaves its flag set.

*Command processor*

- After the load of a program in the middle of a submit file, `main()` takes the next
  command with one call of `submit_cmd()` (`ccp.c:1823`), not with the loop that
  passes over empty ones (`ccp.c:1918`).  An empty line, a comment or a command that is
  only a missing `$n` after a program therefore ends the loop: the operator is prompted
  in the middle of the file, and at its end what is left of the console line is lost.
- `comments()` skips past the end of the line, so that a command followed by a comment
  on its line is joined with the command of the next line.
- `profile_done` reaches the system with the state at the end of a line: ^C before that
  runs PROFILE.SUB again.  A ^C in a built-in command goes back to the user area of the
  last program that was started.
- An IF deeper than `IFMAX` is ignored (`ccpext.c:421`), its ELSE and FI are not, and act on
  the IF around it.
- A submit file that is the error handler gets the failing command in place of its own
  name and arguments.
- SUBMIT without a name, in a submit file, reads the answer over the record of that
  file.  If the answer names no file, `subprompt` stays set, and the next file started
  by its bare name has the answer for its arguments (`copy_cmd()`).

*File transfer*

- With attribute packets negotiated, `fileinfo()` reads the file to its end
  (`cpmio.c:271-294`) and nothing rewinds it: the file arrives empty (`ArrivesWhole` fails).
  `DoneIsDelivered` holds all the same, because the receiver ends in error on an empty
  file, as the next but one point says, and the sender never hears the end.
- `encode()` leaves room for a block check of one byte whatever was negotiated: with
  BCT 3 a field may be two longer than the other end takes (`PacketFits`).  What
  overruns a field waits in `s_remain[6]`, which a prefixed run with its NUL fills
  (`RemainFits`).
- The last flush of the output may fail, and its status is overwritten by the
  close's.  An E packet leaves the file unclosed.  An empty file is answered with a
  'Z' in the acknowledgement of the attributes, which the sender takes as an error.
  Runts, packets of fewer than four bytes, are never given back.
- A NAK of the packet after the one outstanding may be answered by another NAK up to
  the retry limit.  A sender whose receiver is gone has no limit of its own.

*Emulators*

- A CP/M-80 guest's function 49 that sets the word at 49h of the control block changes
  the native count (`scb.c:208-217`), while the bridge watches 4Ah only
  (`z80bdos.c:1102`): its copy is stale, although `z80bdos.c:20-33` says both doors
  update it.  `CopiesAgree` holds until a guest has done that (`straddled`).
- Function 9 looks for `$`, whatever function 110 made the delimiter
  (`z80bdos.c:1011-1015`).  BIOS vector 26 pulls the control block without pushing the
  guest's own writes first, which are lost (`z80bdos.c:707-717`).
- CP/M-86 function 57, and a load that frees one program and then fails, give a
  segment back while the BDOS's DMA address still points into it; `i86bdos.c:342-347`
  says that forgetting it makes it unaddressable.  `CopiesAgree86` holds while the
  paragraph is held.
- The half-carry a subtraction leaves is inverted "to make DAA work after SUB"
  (`z80exec.c:235-239`); it does not, and `DecimalSums` claims sums only.

## 6. What is not modelled

*In the parts modelled.*  Of the kernel: separate instruction/data programs
(`pspother`, `pnsplit`), the cold-boot session of `padopt()`, the quantum's length and
the arithmetic of tick deadlines (a deadline has passed or it has not), priorities
(`xdos.c` stores one and nothing reads it).  What a file-system call does is not in
Proc, where a call is a locked region that nests, meets errors and ends, but in Files.
There the processes are there from the start, the console at a prompt is to be had,
and any process that is not waiting for the lock may be switched to.  Of the files:
labels, stamps, passwords, attributes, wildcards, user numbers, several extents,
several drives, checksummed media, the wrap of the 16-bit generation counter, the
signature table (a scan of Files looks at every entry; DirHash has its own scan), the
flush that precedes a close, and the contents of blocks.  Of the cache: the search for
the least recently used buffer beyond two ways.  Of KERMIT: the command language,
screen and log, and server commands.  Of the executors: memory, registers other than
the accumulator, the decoder's tables, and the assembly copies of the C loops
(`z80runa.s` and its 8086 counterpart), which the repository's tests compare with the
C step by step.

*Not at all:* see the components in `PROJECT.json`.  Text (the file name
parser, most commands, the words of the CCP's lines) is left out because its difficulty is in data, not in the order
of steps; device registers, start-up and machine-code rewriting for the same reason.
The libraries, `app/` and the vendored packages are not part of the system's core.

## 7. Plan

Modules, in order: **Extents**, the extent, module and random-record arithmetic of
`bdosrw.c`; **Ticks**, deadlines as 32-bit differences and the quantum; **Rsx**, the chain
of resident extensions through warm boots; the loader and the split of text from data, against what runs.

Proofs: the command processor's refinement (`ScriptKept`), once Ccp and Script are written
with recursive functions.
