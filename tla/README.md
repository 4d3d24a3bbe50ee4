# Rustix OS in TLA+

TLA+ specifications of Rustix OS (AE Rustanium): its radiation-tolerant memory
and kernel core, its virtual file system, the path of input from the interrupt
handlers to the desktop, the desktop's windows and screen, and the life of the
user program between page tables and system calls. TLC checks them on small
instances; TLAPS proves, for every value of the constants, every safety property
that holds there: that the SECDED code repairs and detects what it should, the
invariants of the kernel core and that it gives its processes memory without
faults, that directories form a tree and files own their blocks and read back,
the invariants of the input queue and its locks, of the desktop's windows and of
what the screen shows, of the page tables, of the table of descriptors and of what
the file manager selects, deletes and only looks at. Paths below are relative to
the repository.

    tlc -config MCCoreMulti.cfg SystemCore      model-check
    tlapm SystemCoreProofs.tla                  check the proofs

## 1. The system

| component | state | operations | interacts with |
|---|---|---|---|
| SECDED code (`memory-subsystem/src/ecc.rs`) | none | `encode`, `decode` | every stored byte passes through it |
| frames and allocator (`allocator.rs`) | 64 frames of 64 words with a status (Healthy, Recovered(n), Quarantined); the allocation map, frame to PID | `write_byte`, `read_byte` (repairs, counts, quarantines), `allocate_page`, `deallocate_page`, `inject_bit_flip`, `relocate_and_quarantine` | shared by scrubber, dispatcher and file system, which all hold frame numbers |
| scrubber (`scrubber.rs`) | a snapshot and a report per sweep | `sweep` | reads every owned frame; relocates faulty ones without telling the holder |
| dispatcher (`scheduler/src/dispatcher.rs`) | processes: page table, step counter; event log | `spawn_process`, `execute_step`, `handle_fault`, `execute_critical_tmr` | reads, writes and relocates frames |
| TMR voter (`tmr.rs`) | none | `vote`, `execute_redundant` | called by the dispatcher |
| kernel core (`kernel-core/src/bootstrap.rs`) | all of the above, the file system, six metrics | `bootstrap`, `tick`, `inject_memory_flip` | `tick` steps each process, sweeps, calculates |
| file system (`virtual-fs/src`) | inode table: directories with entries, files with a block list and a size | `mkdir`, `create_file`, `write_file`, `read_file`, `copy_file`, `remove_node`, `rename_node` | owns frames as PID 0 |
| interrupts and input (`kernel-x86/src/interrupts.rs`, `keyboard.rs`, `mouse.rs`) | the ring buffer of 256 slots, shift state, mouse packet and position, ticks | IRQ handlers, `push_input_event`, `pop_input_event` | handlers interrupt threads and system calls |
| threads (`kernel-x86/src/scheduler.rs`, `main.rs`) | four threads, a round-robin index, spinlocks | `spawn`, `thread_yield` | the main thread runs the desktop in ring 3; the others loop and yield |
| system calls (`kernel-x86/src/syscall.rs`) | table of file descriptors, shared information page | `SYS_WAIT_EVENT`, file calls, bit-flip injection | file system, input queue, scheduler |
| user mode, paging (`usermode-x86/src`) | page tables, saved stack pointers | `execute_user_program`, mappings, system call entry | sets the interrupt flag of ring 3 and masks it at entry |
| desktop (`usermode-desktop/src`) | window stack, focus, animations, dirty rectangles, file manager, console | event loop, input handlers, compositor | the system calls |
| file manager, console, radiation simulator (`usermode-desktop/src/file_manager`, `console.rs`, `radiation.rs`) | path shown, selected row, dialog and its text; the command line | clicks, keys, commands; each opens, uses and closes descriptors | the file calls; drawn by the compositor in every frame |
| compositor (`render.rs`, `dirty.rs`, `graphics/compositor.rs`) | back buffer, framebuffer, backing stores, dirty rectangles, cursor | `draw_compositor_frame`, snapshot and restore | what the handlers marked |
| simulation dashboard (`simulation-dashboard/src/main.rs`) | the text of its screens | draws the kernel core, calls `tick` and injects flips; its shell mode makes file calls | kernel core and file system, on the same allocator |
| graphics, fonts, logger, shell, runner | what is drawn or printed | drawing and text | read the state of the others |

What is hard here, and what correctness means for each part:

* **One frame, several holders of its number.** The allocation map, a process's
  page table and an inode's block list all name a frame; relocation changes the
  map and one of the others at most. Correct: no frame has two owners, a
  process has one frame, a retired frame is never used again, and a holder is
  told. The last is false (section 5).
* **Faults between any two accesses.** One flip of a word is repaired in
  passing, two make it uncorrectable, a repaired frame ages. Correct: no wrong
  byte is ever returned as a good one; a step survives its faults; after a
  sweep memory is clean.
* **Partial failure.** Memory runs out in the middle of a relocation, a write or
  a read. Correct: nothing is lost or owned twice.
* **The name space.** Long sequences of moves, copies and removals. Correct: a
  tree, and every allocated frame in one file.
* **Interrupts on one processor.** Handlers and the code they interrupt share a
  queue and a lock; a waiting system call opens a window for interrupts and
  yields. Correct: first in, first out, no lock spun on, no input overlooked by
  a timeout, every wait returns.
* **A user program in the bootloader's tables.** Its pages are entered one by one
  among mappings that may be huge pages. Correct: all of its pages are there
  when ring 3 is entered, no mapping of the bootloader is lost, and the TLB is
  flushed before the tables are relied on.
* **Rows, descriptors and paths instead of nodes.** The file manager remembers a
  row, the kernel a path, and opening creates; listings, names and paths go
  through buffers that cut them at any byte. Correct: what was picked is what
  is deleted, looking writes nothing, every descriptor comes back. Where a
  buffer cuts, the first two are false (section 5).
* **One event at a time, animations in between.** Windows are raised, closed and
  dragged while others open or close. Correct: focus and dragging stay on
  windows the user sees; a frame, of which only parts are painted and copied,
  shows what there is. That is false where a backing store has no room, or was
  filled while part of the window was off the screen (section 5).

The file `PROJECT.json` lists these hazards at their lines.

## 2. The modules

| module | models | state and actions |
|---|---|---|
| `Secded` | the code, bit by bit | one word and the byte it stands for; write, flip of any of 16 bits, repairing read |
| `Frames` | allocator | operators from a memory value `[status, owner, cells]` to the next one; a word is `[val, noise]` |
| `Scrubber` | a whole sweep as an operator | used by `Vfs` |
| `Tmr` | voter | operators |
| `ReliableMemory` | abstract: processes whose memory has no faults | what the kernel core is to implement |
| `SystemCore` | kernel core: dispatcher, scrubber, TMR, metrics | one action per call `tick` makes |
| `Vfs` | file system with bit flips and sweeps between the calls | one action per public operation |
| `RingBuffer` | ring buffer | operators |
| `BoundedFifo` | abstract: a bounded queue | what the input queue is to implement |
| `InputPath` | interrupt handlers, `SYS_WAIT_EVENT`, threads, spinlocks | one action per handler and per step of the running thread |
| `Desktop` | windows, dock, start menu, keys, mouse, serial line, animations | one action per handler and per region that is clicked |
| `Compositor` | what is painted, cached and copied; with `Desktop`, the whole turn of the event loop | `Handle`, `Serial`, `Clock`, `Render` |
| `FileTree` | the file system as system calls see it | operators on a tree without frames |
| `Syscalls` | the table of descriptors and the file calls | operators from `[tree, fds]` to the next one and a result |
| `FileManager` | file manager and console | operators, one per handler |
| `Paging` | page tables of four levels | operators: walks, `map_page_user`, `create_user_page_mapping` |
| `Userland` | the program from its mapping to its exit: composes `Paging` and `FileManager` | one action per step of the start, per handler of the desktop, and for the drawing of a frame |
| `MC*` | constants of the runs | |
| `FramesProofs`, `SystemCoreProofs`, `SecdedProofs`, `VfsProofs`, `VfsBlocksProofs`, `InputPathProofs`, `DesktopProofs`, `UserlandProofs` | theorems | |

**Frames.** `status[f]` is 0 (Healthy), n (Recovered with n corrections) or
`Tolerance` (Quarantined). The `noise` of a word says what `decode` will find: 0
NoError, 1 Corrected, 2 Uncorrectable. That two numbers can stand for a 16-bit
word is not assumed but checked, and proved for all bytes and flips: the property
`FramesPicturesWords` of `Secded` says that every flip, write and read of a real
word does to `[val, noise]` what `Frames` says. Bounds: no third flip of one word
(`MaxNoise`).

**SystemCore.** PIDs are 1 to `NumProcs`. The variable `page[p]` is
`allocated_pages[0]`, `step[p]` is `instruction_step`. The three outcomes of
`execute_step` are three actions with disjoint guards (`StepWriteFault`,
`StepDone`, `StepReadFault`). The sweep is cut into words, with the snapshot in
`todo`. `tick` runs on one thread, so that bit flips come between two ticks. An
orbital calculation is the three runners and the vote. Bounds:
`FlipsPerTick`, `MaxTicks`.

**Vfs.** A call that fails without changing anything is a stuttering step. The
loops of `write_file` and `read_file` are recursive functions from the memory
before to the memory after. Three history variables say when a property has
something to claim: `written` (what the last write of a file was), `lossy` (a
word has become uncorrectable) and `astray` (the file system has lost track of
a frame through one of the faults of section 5, or through a failed call).
String spellings of a path are left out: a path is the sequence of its names.

**InputPath.** One processor: the thread `current` takes the steps, and a
handler is one step that may come between two of them when `flag` is on
(handlers run behind interrupt gates). Ring 3 runs with the flag on
(`usermode.rs` line 215), system calls with it off (`FMASK`, `usermode-x86`
`syscall.rs` line 99) but for the window around `thread_yield`. A spinlock
that is held by interrupted or suspended code can never be released, so a
spinning state is one where `LocksAreFree` fails. A thread's guard of
SCHEDULER outlives the switch, as in the code, where `thread_yield` releases
the lock by force. The elapsed time stops at the limit of the wait. The text of
keys, the second mouse button and the event loop's other work are left out.

**Desktop and Compositor.** Windows move along one dimension, the columns. The
desk has two cells in each: one stands for the first 380 lines of a window, the
other, the foot, for those below, which only the System Monitor has and for which
no backing store has room (`state.rs` line 34). The dock is a third row, and the
menu bar is two cells of its own. A window is
the record of `window.rs`; `stack` is the order of the array WINDOWS. A click is
cut by what it hits, with disjoint guards (`PressCard`, `PressBesideCards`,
`PressLaunchpad`, `PressDockWindow`, `PressDockGap`, `PressWindow`,
`PressBackground`). `content[w]` is a version of what a window has to show;
`cache[w]` are the pixels of its backing store, place by place in the window: a
version, or black where nothing was ever captured. A window drawn anew paints and
captures the places that are on the screen (`Painted`, `Stored`), and one restored
from its store paints those the store has (`Body`, `Hole`). A cell of the screen is
a value that says what was painted there, over what, at which progress of an
animation and, in the two windows that light up what is under the cursor, where
that was. `drawn` is what the last redraw painted, and for the properties which
columns of each window the screen cut off (`cut`) and which cells a store left
bare (`bare`). `phase` is the place in the turn of the loop: events, then the
clock, then the frame. Bounds: `MaxInputs` (events and metric updates),
`MaxRects` (rectangles before the tracker gives up, 16 in the code), `AnimTop`
and `MenuTop` (steps of an animation), and the cells the mouse is moved to
(`MouseCells`).

**Syscalls and FileManager.** A path is a sequence of components and a component
one of letters, so that both can be cut anywhere. `SysOpen` creates
what it does not find and looks at no flag, as the code does. The directory
above is made in the root, under all of its path as one name (`MakeAbove`): for
a path of three names this leaves an entry that no path leads to, a "phantom".
`IsTree` says of a table of nodes that it is one: each entry leads to a node, no
two to the same one, none to the root, and no two of a directory have one name.
A directory reads as text, a line for each entry with the slash of a directory and
the end of the line (`Lines`, `LineBytes`); a byte of it stands for itself by the
text and its place. `FirstRows` are the lines of as many bytes as were read, and
`CutLine` what is left of the last: the beginning of a name, perhaps without its
slash. `CutTo` is the writer into a buffer (`StrbufWriter`). The buffers are
`BufferLen` (1024 bytes for a listing; those of other sizes, 512 to 4096, for files
have the same bound here), `NameBuffer` (64, the name previewed) and `PathBuffer`
(256). A path that was cut after a slash makes the button Up take the slash alone
away (`EndsInSlash`). No program reads a directory twice with one descriptor. The
dialog takes 64 letters, so that names longer than `NameBuffer` are those of the
console and of phantoms.

**Paging and Userland.** A table of the third level is named by the two indices
above it, and so on; an entry has the flags present, writable, user, huge and
no-execute. `stale` says that the tables were changed and the TLB was not
flushed since. `picked` is a history variable: the node of the row the user
selected. A frame and a handler are one action each: nothing else runs in ring
3. Every call first marks the pages of its buffers, which are on the stack.
Bounds: `MaxNodes`.

## 3. The runs

| run | instance | distinct states | shows |
|---|---|---|---|
| `secded` | 46 bytes, 16 bit positions, two flips | 35 thousand | `NoSilentCorruption`, `SingleFlipIsLocated`, `FramesPicturesWords` |
| `core_single` | 5 frames of 2 words, tolerance 2, 2 processes, 1 file frame, 1 flip a tick, 6 ticks | 225 thousand | `ReliableSpec` (the refinement of `ReliableMemory`), `ProcessesResume` |
| `core_multi` | same, 2 flips a tick, 3 ticks | 253 thousand | the safety properties of the core with uncorrectable words |
| `vfs_tree` | 4 inodes, depth 2, 3 frames of 1 word, no flips | 30 thousand | `TreeIsSound`, `FilesOwnTheirBlocks` |
| `vfs_blocks` | 3 inodes, 4 frames of 2 words, 2 flips | 114 thousand | `ReadsRecover`, `FilesOwnTheirBlocks` |
| `input_path` | 2 events in the queue, 3 threads, 1 tick of waiting | 89 thousand | order, locks, timeouts, liveness |
| `desktop` | 3 windows on 4 columns, one open at the start; 5 rectangles, animations of 2 steps (the launchpad's of 1), 4 inputs | 324 thousand | seven properties of focus, dragging and screen, and `AnimationsSettle` |
| `userland` | 2 indices a level, 2 pages of program, 2 tables of the bootloader; 6 nodes, 2 descriptors, buffers of 4 bytes and, for a name, 2 | 123 thousand | page tables, descriptors, selection, deletion, reading without writing |
| `core_resume`, `vfs_oom` | as `core_multi`, as `vfs_tree` | | violations, section 5 |
| `desktop_edge` | as `desktop`, two windows open at the start | | violation, section 5 |
| `userland_cut` | as `userland`, 7 nodes and paths of 8 bytes | | violation, section 5 |

Why these bounds are enough to meet the interesting cases: five frames for two
processes and a file let memory run out after two relocations, and the
tolerance of 2 lets a frame age to quarantine within a run; pages of two words
have a first and a last word; two flips make a word uncorrectable, and undo one
another. Six ticks with one flip each let a frame age, be retired and its
process relocate, several times. In the file system, four inodes reach
directories in directories with a file; three frames run out with one or two
files; data of three bytes on pages of two leave a partial block. A queue of
two events wraps, fills and drops. The byte values of the code are linear, so
that the bytes of few and of many bits cover the combinations of bits.
Three windows are the fewest of which one is on top, one hidden and one
elsewhere, and they are the three kinds: redrawn when its metrics change, when
it is written to, and in every frame. A frame that draws after a drag marks the
metrics, the dock, the old and the new place and a window: five rectangles, so that
a drag's own are what is copied, and one more of anything makes the tracker give
up. Four inputs open, raise, drag and close, or press, drag off the screen, drag
back and let go. Two indices a
level give every address a neighbour in each table; one boot table has a huge
page where the program will be, and a mapping beside the shared page. Six nodes
leave room for phantoms. With names of one letter and of two, one the beginning of
the other, four bytes cut a listing between two rows, in a name, before a slash and
after it, and a path in its second component or after a slash; the name previewed is
cut once it is that of a phantom. In `userland_cut` paths have 8 bytes, so that what it
shows is due to the listing alone.
`core_*` runs do not check for deadlock because the bound on ticks stops them;
the others do.

What the properties mean is said beside each definition. Two are refinements:
`ReliableSpec` maps the content of a process's page and its step counter to
`ReliableMemory`, where nothing but the process's own writes changes a byte;
`InputIsFifo` maps the ring's content to `BoundedFifo` and says which abstract
action each interrupt and pop is, because a plain refinement could not tell a
dropped event from a step in which nothing arrived.

Three properties of `userland` have exceptions, each of which is a fault of the
code that section 5 tells of: trees with a phantom (`HasPhantoms`), in which a row
of the root stands for no path; a path shown that reaches the end of its buffer
(`IsFull`); and, for a deletion and a preview, a row that a buffer cuts (`RowIsCut`,
`PreviewIsCut`). `SelectedIsDeleted` says of every row, cut or not, that deleting it
deletes the item selected if it deletes anything; TLC refutes it. In the same way
`FramebufferIsCopied` excepts the cells a store left bare, and `WindowsShowContents`
the places a store has no room for and the columns that were cut off when it was
filled; without the columns it is `StoresOutliveDrags`, which TLC refutes. TLC reaches
states within and without each exception.

**Fairness.** `InputPath` and `Compositor` assume some. In `InputPath`, the running thread keeps taking
steps (weak fairness of `Running`: a processor does not stop), and the timer
interrupt is served when interrupts are on again and again (strong fairness of
`TimerIrq`: the 8259 keeps a masked interrupt pending). Keyboard and mouse are
not fair. In `Compositor`, the parts of the loop's turn follow one another: the
wait for events has a timeout of 2 ms, so that each of `Serial`, `Clock` and
`Render` is taken when the loop is there (weak fairness), and a tick passes
between two turns again and again (strong fairness of `Clock(TRUE)`), for the
timer runs whatever the desktop does. No event is fair: the user may do
nothing. `SystemCore` and `Vfs` have no liveness property: `tick` is a
straight line and the file calls run to completion.

## 4. The proofs

`SystemCoreProofs` proves, for every number of frames and processes, page size,
tolerance of at least 2, and any flips:

* `CoreInvariance`: `Spec => []CoreInv`, the inductive invariant;
* from it `TypeCorrectness`, `ProcessesAreIsolated`, `FramesAreNotShared`,
  `RelocationsLeakNothing`, `SweepsClean`;
* the action properties `QuarantineIsFinal` and `OrbitalResults`, with the
  lemma `VoteMasksOneFault`: any one wrong runner is outvoted;
* `CountOverstatesNothing`: the metric of quarantined frames, with the report a
  sweep is gathering, is at most their number, because each relocation counted
  retires a frame that was in use until then and none ever comes back.

The argument. Ownership is stated once for a memory and a page table (`Own`):
each process's frame is its own or retired, no two processes have the same
page, none owns two frames. `RelocationKeepsOwn` shows that a relocation keeps
all three whether the holder is told or not: the old frame is retired, which
also removes the owner from it, before the new one is entered. The three need
one another: without `NoFrameIsShared`, the dispatcher's swap could give a
process a frame somebody holds; without `OneFramePerProcess`, the new frame
could be a second one. `SweepLeavesMemoryClean` is not inductive: it needs
`SweepProgress` (a flipped bit in use sits in a frame the sweep will still
reach, or in the unread part of the current one) and `ScrubbedFrameIsOwned`
(or a relocation might fail without retiring the frame). TLC checks them as part of the
invariant before the proof. `FramesProofs` states what each operator of
`Frames` changes; the actions' lemmas cite these facts and never expand the
operators.

The assumptions are `FramesAssumption` and `CoreAssumption`: at least one frame
and word, frames for all processes and files at boot, a period that is not 0.

The second part of `SystemCoreProofs` adds what holds when at most one bit flips between two ticks
(`FlipsPerTick <= 1`, the assumption of both theorems and the setting of the run
`core_single`):

* `MemoryIsReliable`: `Spec => ReliableSpec`, the kernel core implements
  `ReliableMemory`. A completed step and a step whose write was refused and
  repeated on a new frame map to `Execute`; flips, repairs, sweeps and relocations
  map to stutters;
* `StepsResume`: no step fails as long as a healthy frame is left.

The argument is the inductive invariant `SingleInv`. A relocation loses no byte if
no word of the frame is uncorrectable; for that, all frames of the processes
together may hold one flipped bit (`OneNoisyWord`) and none when the next flip may
come (`CleanBeforeFlip`). The sweep sees to that only for frames that are not
quarantined. A frame that its repairs have quarantined is passed by; it is clean
all the same (`LeftClean`), for the repair that quarantined it removed the only
flipped bit, or it was quarantined before the tick and its process left it in its
turn. So no read of a process faults (`NoReadFault`), the scrubber relocates none
of their frames (`ScrubFaultOutcome`), each frame's owner knows it
(`OwnersHold`), and a process without a frame means that memory was full
(`StuckWhenFull`). With two flips between ticks each of these is false, and so
are the theorems (`core_resume`).

`SecdedProofs` proves, for all bytes, stored words and flips, `ReadsAreRightOrFault`
(a read returns the byte that was written or reports a fault), `OneFlipIsCorrected`
and `FramesPictureWords`.

The argument. A word is the set of its bits that are 1, and the code is linear: the
parity of two words' difference is the sum of their parities (`ParityXor`), so the
same holds of each check and of the syndrome. An encoded byte passes every check
and the overall parity (`EncodingPasses`), so that what `decode` concludes depends
on the flips alone (`OnlyFlipsCount`). The flips in bits 0 to 11, which the
syndrome sees, and those above, which only the parity sees, are looked at apart
(`LowPart`, `HighPart`): one flip names its own place (`SyndromeOfOne`), two never
cancel (`SyndromeOfTwo`), and `DecodeFlips` puts the cases together. The invariant
is `WordInv`: the stored word is the encoding of the byte with at most `MaxNoise`
flips, which is 2. With three the property is false: a third flip may look like a
single one.

`VfsProofs` proves `TreeStaysSound`, `Spec => []TreeIsSound`, for every number of
inodes and frames, every depth of paths, all names and contents and any flips. The
inductive invariant `TableInv` speaks of the whole inode table and not of what the
root leads to: a removed directory keeps its entries for ever and must not come to
share a node with a linked one. Every entry leads to a node other than the root
that bears its name (`EntriesLead`), no two directories lead to one node
(`OneParent`) and no two entries of a directory have one name (`NamesDiffer`).
Creating adds an entry to a node that had none (`TableGrows`), writing, reading
and removing change or take away only (`TableKeeps`), and `rename_node` takes one
entry away and adds one for the same node (`TableMoves`), which is why even the
directory that is moved below itself keeps one parent. `Resolve` and `Below` are
recursive functions; what they return is shown by induction on a set of numbers
(`SetInduction`, from the library's theorem that every set of numbers has a least
member): each step of a path stays in the table, a path is looked up in its
parent (`ResolveLast`), and each linked node but the root has a linked parent
(`LinkedHasParent`). The assumptions are `VfsAssumption` and `FramesAssumption`.

`VfsBlocksProofs` proves, under the same assumptions, `VfsTypes`,
`FilesKeepTheirBlocks` (`FilesOwnTheirBlocks`) and `FilesReadBack`
(`ReadsRecover`), from the invariant `BlocksInv`, which TLC checked first.

The argument. The two properties need one another: what a file reads is what was
written only if nobody else wrote to its frames. So `Sound` states both, for a
memory, a table and what was last written: the frames in use are exactly the blocks
of linked nodes, no frame is in two nodes or twice in one, a file is as long as its
last content, and each of its words is that content or, once a word has become
uncorrectable (`lossy`), the 0 a relocation leaves. It holds until the file system
loses track of a frame (`astray`), which the faults of section 5 make happen; the
types hold always. The loops of `write_file`, of `read_file` and of the sweep are
recursive functions; each is shown to exist and to advance by one turn
(`WriteLoopIs`, `ReadLoopIs`, `WordsLoopIs`, `SweepLoopIs`) and then has a loop
invariant (`Wrote`, `ReadSome`, `SweptFrom`), carried along by `SetInduction`.
Which nodes are linked is the smallest set closed under entries (`LinkedIs`,
`BelowIs`: a set that grows with every round would outgrow the table), and each
operation's lemma says what it does to that set (`LinkedGrows`, `LinkedShrinks`,
`LinkedMoves`).

`InputPathProofs` proves, for every size of the ring, number of threads, screen
and set of bytes the mouse may send, `InputTypes`, `QueueStaysPacked`,
`LocksStayFree`, `TimeoutsMissNothing` and `InputIsQueued`, all from the inductive
invariant `InputInv`, which TLC checked before the proof.

The argument. `head` and `tail` differ by less than the size, so that each
remainder of the ring is one wrap or none: `FollowingIs`, `DistanceIs` and
`PlaceIs` say so once, and what `Push` and `Pop` do to the sequence of queued
events (`PushOffers`, `PopTakes`) is then linear arithmetic. `PopTakes` needs the
packing: a `pop` that met an empty slot between `tail` and `head` would refuse
for ever. `LocksAreFree` is not inductive. Why no handler meets a taken lock is
that the lock is held at the label `popping` only, and there interrupts are off
(`MaskingOK`); why no thread does is that the running thread is the only one that
can be between two labels of the wait or of the lock, for `thread_yield` parks
the others at `resumed` or at the start of their code (`ThreadsOK`). The timeout
needs a fact about the past: at `check` interrupts are still off since the look
that found nothing, so that the ring is still empty.

The assumptions are `RingAssumption` (at least two slots, and the empty slot is
no event) and `InputAssumption`: what the handlers make is an event, there is a
thread, the screen has a pixel, and a byte is a byte.

`DesktopProofs` proves, for any of the program's windows in any order and place,
any screen and any sequence of input, `FocusStaysOpen`, `DragStaysOnTop`,
`StackStaysWhole` (the part of `Compositor`'s type invariant that speaks of
`WINDOWS`) and `SecondFocusOnlyOpens`, from the inductive invariant `DeskInv`.

The argument. `FocusedIsOpen` alone is not inductive: an opening animation ends
by setting the focus, so that a window that is opening must be open (`Sound`);
it is because only `FocusById` starts an opening, and a closing animation has
turned the direction before it closes the window. `DraggedIsOnTop` rests on two
things: a click is a button's going down, so that at every click no window is
dragged (`PressFrees`), and whatever raises a window in the middle of a drag takes
it from all others (`FocusKeeps`). `RaisedIs` says where each window stands after
one was raised; from it no window is lost or doubled (`RaisedStacked`). For
`SecondFocusOnlyOpens`, every step but that one leaves the focus with windows that
had it or with one alone (`StepFocuses`).

The second part speaks of the screen: `ScreenTypes`, `FramebufferFollows`,
`PictureStaysCurrent` and `WindowsStayCurrent`, that is, `Compositor`'s type
invariant, `FramebufferIsCopied`, `PictureIsCurrent` and `WindowsShowContents`, from
the invariant `ScreenInv`, which TLC checked first.

The argument. A frame that copies rectangles leaves the rest of the framebuffer as
it is, so that this must show already what is painted: `CoverOK` says of a cell in no
rectangle that the back buffer shows there what the last frame drew, for the windows
as they are now, and that a cell left bare then is one that a window still has no
store for, so that it is left bare again. Between two frames the windows move and change; every step that
draws nothing is therefore reduced to `DeskStep`: where a window's look changed, its
rectangle was marked (`CoverStep`), or its backing store was invalidated
(`StoresStep`), and a running animation asks for a frame (`AskStep`). That a
rectangle is enough is `LayerOutside`: a window's body and shadow lie in it. For the
frame itself, `StoresOK` says that a store that is relied on holds, at each place it
has room for, what was drawn last and, but for the console (section 5) and the
columns that were off the screen, what the window has to show. What the next frame
makes of these pixels is `NextPixels`, whether a window is drawn anew or restored; and
`UnmarkedCells` and `DrawCopies` say which cells a frame leaves alone and that it
copies all others.

The assumption is `DesktopAssumption`: different windows, a screen with a column
the mouse can be in, bounds that are numbers, and rectangles wider than the window
by at least one column: the code adds 20 pixels on each side to the dock's rectangle,
whose icons swell by 17 at most.

`UserlandProofs` proves, for all tables the bootloader may leave, any program, file
tree and number of descriptors:

* `ProgramStaysMapped` and `BootMappingsStay`, from the inductive invariant
  `PagesOK`;
* `DescriptorsStayReturned`, from the invariant `IsQuiet`: the table of
  descriptors is as it was at boot;
* `UserlandTypes`, `SelectionStaysPicked`, `DeletionIsExact` and `BrowsingReads`,
  from the invariant `FilesInv`: for buffers of any size, the file manager deletes
  the node that was picked and nothing else, and looking writes nothing, as long as
  no phantom is there and no buffer cuts what is used.

The argument for `PagesOK`. What one mapping does to the page itself is
`CreateMappingMaps`; what it does to the others is `CreateMappingIsLocal`: an
address keeps all entries on its way unless it is in a huge page that is
replaced, so that a page of 4 KB, which is in none, keeps its frame and its
rights. `ProgramIsMapped` is not inductive: it says nothing while the program is
being mapped, so that `PagesOK` states it for the pages mapped so far; and a
page is writable only if every table above it is, which needs
`TablesAreWritable` at every step. That a call's marking of its buffers ends in
a flush (`MarkingFlushes`) rests on both: the stack is mapped because the
program is, the framebuffer because the bootloader's mappings are kept. For
`IsQuiet`, each pair of calls opens one descriptor, at the lowest free place,
and closes that one, in each of the cases the calls in between may fail in
(`OpenOne`, `ReadOne`, `WriteOne`, `CloseOne`).

`FilesInv`, which TLC checked first, says that the nodes form a tree, that no
descriptor is open and, unless there is a phantom, that the path shown fits its
buffer and what is above it leads to a directory (`Fits`) and, unless it reaches the
end of the buffer, that it leads to a directory itself, the selected row is one of
its entries and that entry is the node that was picked (`Shown`). `Fits` is what
makes a full path harmless later: going up from it arrives at a directory again. A
phantom never goes away (`PhantomsStay`), so the claim need not be restored.
`Resolve` is a recursive function along a path: it steps by one name (`ResolveIs`),
and in a tree a node has one path (`ResolveUnique`). Creating and writing only let
the tree grow (`Grows`), and every path found stays found (`GrowsResolve`). Removing
cuts one entry (`RemoveIs`), leaves a tree (`RemoveTree`), and directories that are
not below it stay where they are (`RemoveResolve`, `RemoveKeeps`); that it is the
picked one and all of it is `CutIs` and `WithoutIs`.

The bytes are sums along a sequence (`EndsIs`, `EndsGrow`). What is cut is shown to
be whole whenever it ends within its buffer (`CutWhole`), and to be still a sequence
of components when it does not (`CutType`): a path with one more component loses
letters of the last only (`CutChild`, `PathToOne`), because the path shown fits.
`RowsFound` says that the rows of a listing are its first entries, each whole but
perhaps the last, and that row k is entry k: bytes never shift the rows, so that the
selection stays right even where the name is cut. `RowIsWhole` is the way from the
exceptions `RowIsCut` and `PreviewIsCut` to a whole name. `ReadAllIs` and `ListIs`
say what open, read and close or a listing return; that they create nothing, although
`SYS_OPEN` creates what it does not find, is `EntryIsFound`: without phantoms the
path of each row that is whole leads to its node.

The assumptions are `FdsAssumption`, `ClientAssumption` (a buffer has room for a
byte, one for a path for two) and `UserlandAssumption`: the tree at boot is one, what
is typed is a sequence of components; program, stack, shared page and
framebuffer are addresses, the shared page is not one of the program's, and the
bootloader's tables are as `IsBootTable` says: user mappings are not blocked by
read-only tables, the shared page is in no huge page (the read-only mapping does
not look for one) and the framebuffer is mapped, in no page of 1 GB
(`map_page_user` does not look for one) and in no huge page with the program.
The code checks none of this; it holds for the bootloader it is built with.

Only model-checked: the liveness properties `WaitReturns` and `InputIsRead` of
`InputPath` and `AnimationsSettle` of `Compositor`, which rest on fairness and
ENABLED, out of the provers' reach; and that the four violations of section 5 are
reached. Every other property of a passing run is a theorem.

## 5. Where the code differs from what it says

Where a run is named, TLC finds the behaviour; the others were read in the code, which
the modules follow.

* **A swept process does not resume** (`core_resume`). The scrubber relocates a
  process's frame (`scrubber.rs` line 77) and nothing updates its
  `allocated_pages`; each later `execute_step` returns an error. The isolation
  theorems hold all the same: the process is stuck, not astray. Files are
  affected alike (`astray` in `Vfs`).
* **Quarantined frames that are not counted.** `pages_quarantined` grows only with
  the scrubber's relocations (`bootstrap.rs` line 244).
* **A failed overwrite** leaves a file that names free frames (`vfs_oom`).
* **A directory moved below itself** is lost (`vfs.rs` line 442).
* **A window higher than its store.** The System Monitor has 420
  lines, a backing store 380 (`state.rs` line 34). A frame that restores the window
  leaves in the last 40 the wallpaper, or whatever is below (`graphics/compositor.rs`
  line 162); the framebuffer gets them with the next full copy.
* **A store filled off the screen** (`desktop_edge`). Columns off the screen are not
  captured (`graphics/compositor.rs` line 126), the store counts as clean all the same,
  and a drag does not change that: brought back, the window shows old pixels or black
  there until something marks it.
* **Deleting the last row of a long listing** (`userland_cut`). Listings are cut at
  1024 bytes (`file_manager/state.rs` line 297). The last row may be the beginning of
  a name, and the path of this beginning is removed: another item, or none. Sixteen
  names as long as the dialog allows are enough.
* **Looking at that row creates a file.** The preview opens the
  path of the cut name (`file_manager/draw.rs` line 339), which `SYS_OPEN` creates; a
  directory that has lost its slash is previewed as a file, too.
* Comments: the parity covers 16 bits and not 13 (`ecc.rs` line 126); 22500
  becomes 22468 and not 22532 (`bootstrap.rs` line 281); `thread_scrubber` does
  not scrub (`kernel-x86/src/main.rs` line 145).
* **Two windows with the focus.** The end of an opening animation sets the focus
  and takes it from nobody (`usermode-desktop/src/main.rs` line 312). It is the
  only way there (`SecondFocusIsAnOpening`).
* **Typed text is late.** Keys on the console mark neither the backing store nor a
  redraw (`input.rs` line 129).
* **A stuck launchpad.** Toggled twice before an animation step, it stays
  "animating" and its cards take no clicks (`main.rs` line 334).
* **Telemetry text** begins 30 pixels left of its rectangle (`render.rs` line 52).
* **Exit** says that the shell comes back; the processor halts
  (`kernel-x86/src/syscall.rs` line 143, `main.rs` line 280).

Behaviour that no text contradicts, which the models show as it is: `SYS_OPEN`
creates a file for `ls` or `cat` of a path that is not there (`syscall.rs` line
272); `SYS_OPEN` and `SYS_MKDIR` below two or more directories leave a phantom in
the root (lines 277 and 596), and deleting its row in the file manager removes
the real directory it is named after; writing to an existing file keeps the tail
of a longer content; a window asked for while it closes goes on closing
(`window.rs` line 84); the dialog of the file manager takes the keys even when
another window has the focus (`input.rs` line 83); a mouse moved over the desk asks
for no frame, so that what the file manager and the settings light up under the
cursor is late (line 156); a path of 256 bytes and more is cut and names another
directory or none (`file_manager/state.rs` line 102).

## 6. Not modelled, and the plan

Out of scope: drawing, fonts, wallpaper, logging, the shell's parser (which
nothing calls), the text of the console, settings and search, scrolling, PCI and
port I/O, exception handlers that panic, the assembly of the ring switch, the
check of pointers in system calls, the build. The simulation dashboard, a terminal
program, draws `SystemCore` and calls its `tick`; between two ticks its shell mode
(`simulation-dashboard/src/main.rs` line 228) also makes the file calls of `Vfs`, on
the same allocator. That composition is not modelled: `SystemCore` has files only as
frames that are taken, and `Vfs` sweeps but no processes. Third flips of a word;
spellings of paths; mouse initialisation and the polling drivers, which the
desktop does not use. In `Compositor` a window's body hides what is below it: in
the code it lets 20 parts in 255 through, and all of it at its rounded corners, and a
backing store keeps that trace when what is below has changed. Shadows, which a
setting turns on, are always on. What is cut off below the screen is as what is cut
off at its sides: there are no vertical positions.

Open: the file calls of the dashboard's shell between the ticks of `SystemCore`,
`FileTree` implemented by `Vfs`, the calls of `Syscalls` on a tree whose
frames run out.
