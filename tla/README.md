# TLA+ models of Open Cubic Player (Unix)

Open Cubic Player is a text-mode music player: one C program of about 130 000
lines that opens files in many formats, mixes them into a buffer and hands the
buffer to a sound device. This directory holds TLA+ modules of its core logic,
the TLC configurations that check them and TLAPS proofs of what matters most.

Paths below are relative to the root of the repository. To check a model run
`tlc -config <cfg> <MC module>`; to check the proofs run `tlapm` on
`DevOssProofs.tla`, `DevDiskProofs.tla`, `TimerProofs.tla`, `WavPlayProofs.tla`,
`MediaLibProofs.tla` (some fifteen minutes), `MdbProofs.tla`, `AdbProofs.tla` and
`FsMainProofs.tla`.
`PROJECT.json` lists every run, every finding, every hazard and, for each
definition, the lines of C it stands for.

## How the program runs

Everything happens in **one thread**. There are two builds:

* the normal build installs `SIGALRM` handlers with `setitimer`
  (`stuff/timer.c`, `stuff/irq.c`). A handler runs the timer routines that
  mix sound (`timerproc` of a player, then `plrIdle` of the device). The
  handler is installed with `SA_NODEFER`, so a handler may interrupt not only
  the main program between any two machine instructions, but also itself.
  Mutual exclusion is by counters (`busy`, `clipbusy`, `stackused`), tested and
  incremented at the head of a routine;
* `configure --with-debug` defines `DISABLE_SIGALRM` (`configure.ac:6,18`): no
  handler is installed and `framelock()` (`stuff/framelock.c:70`) calls
  `tmTimerHandler` from the main loop instead.

So the behaviours that are hard here are interleavings of the main program with
nested handlers, rings with several cursors, positions read before a lock is
taken, caches on disk that are written in pieces, and reference counts kept by
hand over a tree of directory entries.

## Inventory

| Part | State it keeps | Operations | What is hard | Correct when |
|---|---|---|---|---|
| Player devices: `devp/devposs.c`, `devpalsa.c`, `devpdisk.c`, `devpnone.c`, `devpcoreaudio.c` | a ring of samples with cursors (`kernpos`, `cachepos`, `bufpos`) and lengths, `busy` | `plrPlay`, `plrStop`, `plrGetBufPos`, `plrGetPlayPos`, `plrAdvanceTo`, `plrIdle`, `plrGetTimer` | handlers that advance during a flush; failing and short system calls | every sample is heard once, in order; the clock tells what was heard |
| Streaming players: `playwav`, `playogg`, `playmp2`, `playflac`, `playay`, `playym`, `playsid`, `playopl` | a ring between file or decoder and device, `looped`, `donotloop`, `pause`, `clipbusy` | open, close, `timerproc`, `Idle`, seek, pause, loop | refilling while mixing; end of file inside a ring; seeks | the file is played frame after frame, its end is noticed once |
| Module players: `playgmd`, `playit`, `playxm`, `playgmi` | patterns, channels, timed position reports | a tick, seek, mute | sequential, but large | the format's reference player |
| Software mixers: `devw/`, `dev/mcp.c`, `dev/mix.c` | channels, `clipbusy` | channel settings, `mixer`, `timerproc` | as for the players | as for the devices |
| Timer: `stuff/timer.c`, `stuff/irq.c`, `stuff/framelock.c` | tick counters, two routines, `stackused` | `tmInit`, `tmClose`, `pollInit`, `pollClose`, the handler | the handler interrupts itself and its own set-up | the main routine never nests; a routine that is installed keeps being called |
| Tree of file names: `filesel/dirdb.c` | a table of named entries with parents, counts, references into the caches, tags; `CPDIRDB.DAT` | find, resolve, ref, unref, tag, submit, cancel, flush, load | manual counts through recursion; truncation and partial writes | an entry lives as long as somebody refers to it; the library survives a restart |
| Media library: `medialib/medialib.c` | nothing of its own but the calls of `mlSubScan` | scan a directory, list, search | aborts in the middle of a recursion | a scan makes the library agree with the disk |
| Module information: `filesel/mdb.c` | slots, a sorted index, dirty flags; `CPMODNFO.DAT` | find or add, read, write, update | runs of dirty slots; a 16 bit cut in the binary search | one entry per file, none lost, none shared |
| Archive cache: `filesel/adb.c` | entries below archives; `CPARCS.DAT` | add, find, rescan, update | entries replaced while an archive is listed | entries of an archive belong to its present content |
| File selector and lists: `filesel/pfilesel.c`, `modlist.c`, `playlist.c` | drives, current directory, the playlist and its cursor, lists of handles | browse, append, remove, take the next or previous file | handles taken and given back on every path; a cursor that several operations move | no handle is lost or used after it was given back; every file of the list is played |
| Main loop: `filesel/pfsmain.c` | the file and the interface that play, those chosen to replace them, why the last song stopped | choose, open, replace, run, quit | files that do not open, have no interface or are refused by it, at each point of the exchange | nothing leaks, nothing is closed twice, control comes back to the user |
| Player interface: `cpiface/` | displays, modes | keys, frames | wide, shallow | - |
| Plug-ins and settings: `boot/` | loaded modules, `.ini` | link, look up, read | sequential | - |
| Console: `stuff/poutput*.c` | screens | draw | pure output | - |
| Assembler emulation, assembler mixers, help, tools, vendored engines | - | - | arithmetic, or other authors' code | - |

How they interact: the main loop calls `framelock()`, the interface and, once a
frame, the player's *Looped* routine (`wavLooped` and its siblings), which calls
the player's *Idle* and the device's `plrIdle`. The timer calls the player's
`timerproc`, which asks the device for space (`plrGetBufPos`), mixes into the
device's buffer, publishes what it mixed (`plrAdvanceTo`) and calls `plrIdle`.
The file selector, the playlist and the media library hold handles of the tree
of file names, whose entries refer to the two caches by number.

## Modules

| Module | Models | Runs | 
|---|---|---|
| `PlayRing` | what a player device promises: a first-in first-out queue | property of `DevOss` |
| `DevOss`, `MCDevOss` | `devp/devposs.c` and its callers, statement by statement where handlers may come between | `oss_sigalrm`, `oss_polled`, `oss_lost_update` |
| `DevOssProofs` | theorems about `DevOss` | - |
| `WavPlay`, `MCWavPlay` | `playwav/wavplay.c`, `wavLooped` and two keys | `wav_short`, `wav_long` |
| `WavPlayProofs` | theorems about `WavPlay` where no handler interrupts a fill | - |
| `DirDb` | `filesel/dirdb.c` as operators on its table | used by `MediaLib` |
| `MediaLib`, `MCMediaLib` | `medialib/medialib.c`, the playlist's and the drive's handles, restarts, the disk | `media_scan`, `media_restart` |
| `MediaLibProofs` | theorems about `MediaLib` where known files are not scanned again | - |
| `DevDisk`, `MCDevDisk` | `devp/devpdisk.c` and its callers | `disk_polled` |
| `DevDiskProofs` | theorems about `DevDisk` without handlers | - |
| `Timer`, `MCTimer` | `stuff/timer.c` on `stuff/irq.c`, and the songs that use it | `timer` |
| `TimerProofs` | theorems about `Timer` | - |
| `SlotFile` | what the two caches have in common: slots, dirty marks, the file | used by `Mdb`, `Adb` |
| `ModInfo` | what the cache of module information promises: a map | property of `Mdb` |
| `Mdb`, `MCMdb` | `filesel/mdb.c` | `mdb` |
| `MdbProofs` | theorems about `Mdb` | - |
| `Adb`, `MCAdb` | `filesel/adb.c` with `arctar.c` and `arczip.c` | `adb` |
| `AdbProofs` | theorems about `Adb` | - |
| `FsMain`, `MCFsMain` | `filesel/pfsmain.c`, the playlist and the choice of the next file in `pfilesel.c`, `modlist.c` | `fs_main` |
| `FsMainProofs` | theorems about `FsMain` | - |

### DevOss

A *context* is a depth of interruption: 0 is the main program, `c` a handler
that interrupted context `c-1`. `pc[c]` is the next statement of `c` and `loc[c]`
its local variables; a context runs only when those above it are idle, and a
handler may start wherever the one below it is at work. `flush` is one action per
access to state that a handler changes (`FlushOdelay` ... `FlushDone`); what holds
`busy`, and so cannot be disturbed, is one action (`MixAndAdvance`). The kernel's
queue is a sequence of at most `KernCap` samples which `DevicePlay` empties.
Samples carry numbers, so that a sample lost, repeated or overwritten shows.

The fillers are modelled by what they ask of the device, not by what they play:
`TimerProc` reads the space once, `MixAndAdvance` uses some of it, `MixDone`
goes on to `plrIdle`, with `clipbusy` (as `playwav`) or after releasing it (as
`devwmix`). Left out: `SetOptions`, the OSS mixer, sample formats (the shifts by
`stereo+bit16` are zero).

* `oss_sigalrm`: two nested handlers, every system call may fail. `RingInv` is
  the drawing at the head of the C file, corrected for what an interrupted flush
  has written and not booked yet. `Unreachable` is the comment at line 289.
  `NoKernelBug` is the message the driver prints when the kernel claims to hold
  more than it was given. `PlaysInOrder` says that `DevOss` implements
  `PlayRing`: its queue is the kernel's followed by the cache.
* `oss_polled`: without handlers. `ClockAccurate`: the answer of `gettimer` lies
  between what had been heard before and after the call. `Heard`: every sample is
  heard in the end.
* `oss_lost_update` (a violation): `cachelen-=result` as a load and a store.

A buffer of three frames and a kernel queue of two give every wrap, a full and an
empty buffer and a kernel that takes less than it is offered; four sample numbers
exceed the frames that can be waiting, so that equal numbers never meet. The
second nested handler is needed for a handler that meets a handler.

### WavPlay

`wpIdle` and `timerproc` call each other, so the model keeps a return address
(`back`, `next`). What runs under `clipbusy` without touching what an unguarded
routine writes (`Mix`) is one action; the fill loop and `wpSetPos`, which are not
guarded, are one action per statement. A frame is its position in the file, so
that `PlaysFile` can compare what is mixed with what should be. The device is a
counter of queued frames (its correctness is `DevOss`'s subject).

* `wav_short`: a file that fits into the ring, with handlers. `LoopRight` says
  that *looped* is set exactly when the last frame has been mixed; `Ends` that
  with looping off the next file is loaded, unless the user seeks, pauses or
  turns looping on again and again.
* `wav_long`: a file of four frames through a ring of three, reads that fail or
  come short, the build without handlers. `RingHolds`: the cells behind the read
  cursor hold the file up to `wavepos`. `PlaysFile`: what is mixed is the file,
  from the position shown to the user onwards, with silence only behind it. It
  has a premise, `Sound`: everything between the two cursors was read since the
  last seek to outside the ring. `wpSetPos` itself breaks it, by keeping one
  stale frame (line 856) and by seeking, before the ring is full again, to
  frames that were never read (line 851).

With handlers *and* a file larger than the ring, main's fill loop and a handler's
may interleave on one `FILE` and `RingHolds` fails; no statement of the repository
denies it, so it is a hazard without a property. Left out: resampling and
sample formats (one unit is a frame of a mono 8 bit file at its own rate), the
256 KiB ring after a failed `malloc`, odd data lengths, header parsing.

### DirDb and MediaLib

`DirDb` writes `dirdb.c` as pure operators on the table, each one call: they run
with no interleaving. Loops and recursion up the tree (`dirdbUnref`,
`dirdbGetFullName`) are recursive functions, of a step number or of an entry. A count below zero stands for the `abort()` in `dirdbUnref`,
or that of `free()` in `dirdbInit`; no action but a new start is enabled behind it, and `RefCounts` says that none ever is. `MediaLib` adds the scan, with the recursion of
`mlSubScan` and of the submit as stacks, one directory entry at a time, so that
the process may end at any of those points (`Restart`). `CutFiles` is what a
failing write may leave of `CPDIRDB.DAT`, which was truncated when it was opened:
nothing, some entries, or some entries and a part of another, which ends inside its
fields of fixed size ("fields") or inside its name ("name"): `dirdbInit` reads the
first as a table of holes, and does not survive the second.

* `media_scan`: directories that are new to the library, scanned, aborted with
  escape, files and directories changing on the disk between scans, an entry in
  the playlist. `RefCounts` counts for every entry who refers to it (children,
  reference or tag, scan, handles, lists) and compares; `leaky` records that an
  aborted scan left its lists behind (`medialib.c:92`), after which a count may be
  too high, never too low. `Tree`: names are unique below their parents and
  whatever has a handle has a name. `ScanExact`: a scan makes the library agree
  with the disk below its directory and changes nothing elsewhere.
* `media_restart`: the process may end at any step; the database may not be
  opened for writing, or be left empty or cut inside the fields of an entry. `Durable`: only a
  submit changes the library, a restart brings back what was flushed.

`Known = FALSE` keeps second scans of known files out of the passing runs; the
`Targets` of `media_restart` keep out a scan of entry 0 (see *Disagreements* for
both). Its `WriteErrors` leave out "between" and "name". A file cut between two entries is
loaded without counting parents (`dirdb.c:139`, where other ends of file go to
`endoffile`). Of a file cut inside a name, that name is freed at line 170 and again
at line 207, because the pointer stays; `free()` ends that process and every later one
that meets the file. `RefCounts` holds with neither, so what the run and the theorems
say of failing writes they do not say of these two.
`Escapes` allows one abort that leaks, so that the state space stays finite. A table that grows by two (16
in the code) with a directory, a file beside it and up to two in it makes the
table grow, leaves holes and reuses them. That no name is empty (`PathsAssumption`) is
what tells an entry from a hole, in C as here. Left out: archives, links, files that
are not modules, names that are too long, the keyboard, the listing of the
library. `adbref` follows `mdbref` everywhere and is folded into it. `dirdbDirty` is always set
when a scan flushes. `fsClose` gives back the drive's handles after the last
flush and changes nothing on disk; a clean exit is a `Restart`.

### DevDisk

As `DevOss`, with `busy` a flag that `Flush` sets and does not test.

* `disk_polled`: writes may fail or come short. `WritesInOrder`: the file is
  always a beginning of what was mixed. `WritesAll`: a file that is closed is
  complete unless a write failed. `ClockCounts`: the clock counts what was
  mixed. `Takes`: the thresholds of `getpos` and `Flush` leave no gap in which
  the device refuses frames for ever. `TypeOK` includes that the cache never
  overflows, on which the code ends the program.

A buffer of four and a cache of five are the code's proportions at their
narrowest (`cachelen >= len+1024`). Left out: the stale `errno` behind a short
write (a hazard), the header, byte order. With `Levels = 1` in place of 0
`WritesInOrder` does not hold: see *Disagreements*.

### Timer

`depth` is how many `tmTimerHandler` run, each interrupting the one below;
`at[c]` and `reg[c]` are where handler `c` is and what it has loaded of
`tmIntCount` or `stackused`. Every access to one of these that another handler may
come between is a step: `Alarm` (the load of `tmIntCount`), `StoreCount` (the store,
the mask and the call of the slave), `LoadGuard`, then `Refused` or `Enter`,
`RoutineReturns`, `Meter`. The main program opens and closes songs; `todo` are the
steps of `tmInit`, `pollInit`, `pollClose`, `tmClose` it has yet to take, in the
order of the code, and handlers come between any two of them. A song is a device
with a routine of its own (`devpnone.c`, `devwnone.c`), a player that polls, or
both.

`timer`: `RoutineAlone`: the routine is never run twice at once. `GuardLeft`: when
no handler runs, guard and overload are back at zero, however handlers overwrote
each other's stores. `Disposition`: `SIGALRM` never meets its default action, which
would end the process, and finds it again between songs. `SlaveSoon`: a
handler that is interrupted while it counts forgets what the nested ones counted,
but never what it counts itself, so the slave waits no longer than one of its
periods, measured by the alarms that interrupt the main program (`late`; counting
the nested alarms too there is no bound as simple: each level multiplies it).
`Served`: routine and slave are called again and again while a song lasts.

Three handlers, a mask of three and rates below and above it show a handler that
meets one that meets another, counts that are lost, and rates that reach the mask
at every alarm and only at every third. Left out: the clock (`tmTicker`,
`tmGetTimer`) and the measured load, `tmSetNewRate` and `tmSetSecure`, which
nothing calls, and the build without `SIGALRM`. The slave may nest in itself: it is
called before the guard (line 161), and its clients use `clipbusy`.

### SlotFile, ModInfo, Mdb and Adb

Both caches are arrays of slots of one size that grow by 64 or 256, marked dirty
one by one, and written over a file in place: the header, which claims how many
slots there are, then the dirty ones. `SlotFile` has these operators on a record of
slots and dirty marks. `Load` uses all slots the header claims, or none.
`TornFiles` are the files a session may leave that broke off between two writes;
those that mix slots of two sessions are not among them (see *Disagreements*).

`Mdb` has the index and its binary search as a recursive function, and three ways
in which an information is written: by reading the module, by the user's edit, by
the key that forgets it. An information is whether the module was read and two
texts, which live in slots of their own. `ModInfo` is the specification it
implements: a map from keys to information that sessions save or do not.

* `mdb`: `KeepsPromise` (the refinement): what the search finds is what was last
  written. `BlocksOwned`: every block of text belongs to exactly one entry.
  Three keys give a search to both sides, growth by two makes the array
  grow in the middle of an entry, and five changes are three entries with two more
  writes, or fewer and more, over sessions. `Width` is four, and the model stops one
  entry short of it, where the search is still right.

`Adb` has an entry per archive, found by base name, and one per module in it.
A scan reads an archive to its end, fails before it, or breaks off in the middle: where
the scanner reports that, nothing is listed; where it takes the end of the stream for that
of the archive (`arctar.c:374`, `arczip.c:265`), the beginning is.
`refs` are the entries of the lists of files that hold slot numbers.

* `adb`: `Catalogue`: an archive has one entry; what is listed of it is what an
  archive of that size holds if it was scanned to its end, a beginning if not.
  `RefsRight`: a number in a list names its module until its archive is scanned
  again, whatever happens to others. Two archives of two sizes, one of which has
  modules in another order after it grew and one the same name twice, growth by
  three and four scans.

### FsMain

The loop of `_fsMain` with `callselector`, `fsGetNextFile` and its siblings, one
action from one point where the user, the song or a file decides to the next. `call`
are the arguments of `callselector` and who called it. `open` and `inits` count the
`FILE`s and interfaces that are not closed: the code has no such counters, and
`NothingLeaks` compares them with the variables that hold them.

* `fs_main`: five files, one of each kind: a module that plays, a virtual file that
  plays, one that does not open, one whose interface refuses it, one without
  interface; lists of up to three of them, which the user edits. `RunsItsFile`: an
  interface gets the file it was chosen for. `ComesBack`: the loop does not go
  round for ever without the user or a song; the property excepts exactly the lists
  for which it does. `EveryFilePlayed`: a user who keeps off hears every file of
  the list, in whatever state the list was left by edits and keys before.

Left out: preprocessors and handlers of file types, drawing, the quick search, and
what `dosShell` does.

## Fairness

Liveness is checked under:

* `DevOss`, `WavPlay`, `DevDisk`: the main loop comes back to `plrIdle`, to
  `wavLooped` and to the change of file for ever (strong fairness: it is kept from
  them only while it is somewhere else); a routine that has begun goes on (weak
  fairness per context, strong where another context may hold it up); the sound card
  plays what it holds (weak fairness). Nothing is assumed about when handlers come,
  whether files are opened, or whether a failing call ever succeeds; for that
  reason `Heard` is checked with `IoErrors = FALSE`.
* `Timer`: an armed timer that no handler interrupts expires (weak fairness, the
  kernel's promise); a handler that is interrupted again and again moves in the end
  (strong fairness: handlers leave some time to what they interrupt, or nothing of
  the player works); likewise the main program.
* `FsMain`: the loop runs on; a song ends (weak fairness: `fsLoopMods` is off);
  with `fsPlaylistOnly` the selector returns. Nothing is assumed of the user.

This is what a single thread with a frame loop, and hardware that works, provide.

## Proofs

`DevOssProofs` proves, for every buffer size, kernel queue, number of sample
numbers and **depth of nesting**, with failing system calls, from
`~SplitUpdate \/ Levels = 0` (`cachelen-=result` is one instruction, or no handler
is installed), `TypeCorrect` (`TypeOK`), `RingCorrect` (`RingInv`),
`NeverUnreachable` (`Unreachable`) and `KernelHonest` (`NoKernelBug`). None of the
four is inductive. `IInv` strengthens them in three ways: at most one
context is inside the part guarded by `busy`, and `busy` says so; at most one is
between taking and releasing `clipbusy`, and what it believes to be free is free;
and the distances between the cursors are given, for each place at which a flush
can be interrupted, by the lengths and by what that flush has still to book
(`RingShape`). Distances are written with `Dist`, a case distinction, in place of
`%`; lemmas `ModBufLen`, `BehindDist` and `KernPosMath` say that this is the same.
The assumption about `cachelen` is needed: `oss_lost_update` shows what happens
without it.

`Implements`, from the same assumption, is the refinement (`PlaysInOrder`): every
step of `DevOss` is a step of `PlayRing` or leaves its queue as it is. Three steps
move the queue: `MixAndAdvance` appends, `DevicePlay` takes from the front, and the
`write` of a flush moves samples from the cache to the kernel, of which the queue,
the one followed by the other, shows nothing; every other statement of a flush only
books. `RingShape` is what says that the cells a write hands over are those behind
the kernel's, and that a filler writes none of them. `ClockIsRight` (`ClockAccurate`) holds
from `Levels = 0` and `~IoErrors`: a handler's flush inside `gettimer`, or a failing
ioctl, leaves `playpos` behind what is heard. Its invariant `ClockInv` remembers
through the call how much the kernel held when it began (`AskedAt`).

`DevDiskProofs` proves, for every length of buffer and cache (the cache the longer,
as `dwPlay` makes it) and whichever writes fail, from `Levels = 0` (no handlers):
`FileInOrder` (`WritesInOrder`), `FileComplete` (`WritesAll`), `ClockRight`
(`ClockCounts`) and `Typed` (`TypeOK`, which includes that the cache never runs
over). The invariant follows the frames: `CellsInv` says which frames lie in the
buffer while they are copied, `CacheInv` which lie in the cache, `FileInv` how many
the file has, and `CountInv` that these and `filepos` add up to what was mixed, at
each step of `advance` and `Flush`. `AppendInOrder` is the lemma about a file to
which the cache is appended.

`TimerProofs` proves, for any depth of nesting and any rates, `Typed` (`TypeOK`),
`RoutineNeverNests` (`RoutineAlone`) and `GuardIsLeft` (`GuardLeft`), though
`stackused++` is a load and a store. `GuardInv` is why: a handler that has loaded
the guard can be overtaken only by handlers that return before it moves, each of
which leaves the guard as it found it; so what it loaded is still true when it
stores.

`NoStrayAlarm` (`Disposition`) and `SlaveInTime` (`SlaveSoon`) hold for any nesting
and rates as well. `TimerInv` says, for each step that `todo` can begin
with, which of the routines, the handler and the timer are in place; without it
nothing keeps a `tmInit` from finding the handler installed. `CountInv` bounds what
the alarms since the slave's last call have added by the count, or by what the
lowest handler has loaded and not stored yet: the handlers above it may store what
they like, it overwrites them.

`WavPlayProofs` proves, for every length of file, ring, read and device buffer, and
for whatever `fread` returns, `TypeCorrect` (`TypeOK`), `HoldsTheFile` (`RingHolds`)
and `PlaysTheFile` (`PlaysFile`) from `NoRace`: the build without handlers, or a
file that fits into the ring. In the normal build with a longer file all three are
false: a handler may fill the ring between two stores of the main program's fill
(see the hazards). The invariant `FileInv` says for each statement inside a fill how
much of what was read is booked (`FillInv`) and what the cells hold when it will be
(`CellInv`), and for a file that fits, that it lies in the ring as it is on disk
(`ShortInv`). `BusyInv` says that one context at most is under `clipbusy` and that
the space it saw is still free. `LoopsAtTheEnd` (`LoopRight`) is proved for both
builds and every file **shorter** than the ring; for the others the code does
otherwise (see *Disagreements*).

`MdbProofs` proves, for any modules, texts, growth of the array and width of the
search, and through any number of sessions that save, do not save or break off, the
refinement `PromiseKept` (`KeepsPromise`: `Mdb` implements the map `ModInfo`),
`NoneLostNoneShared` (`BlocksOwned`), `TypeCorrect` (`TypeOK`) and two facts no run
states: `SavesEverything` (after `mdbClose` the file reads back as the slots that were
in memory) and `ReadsWhatIsWritten` (what is written of an entry is what is read of
it). The argument has three layers.

* *Slots.* `OwnedBy` is `BlocksOwned` without counting (an owner, and no two), said of
  the slots in memory and of those that the file would be read as; `DiskInv` says that
  in a session the two differ in dirty slots alone, which is why writing only these
  is enough. `RewriteOwned` and `AddOwned` say what a change may do to the blocks of
  one kind, `WriteDoes` and `AddDoes` that the code's changes are of that form; they
  rest on lemmas about the operators of `SlotFile` (`TakeIs`, `ReleaseIs`, `WrittenIs`,
  `LoadIs`), which are stated for any contents of the slots in `MdbProofs` and again
  in `AdbProofs`.
* *Index.* `IndexInv`: `mdbReloc` holds every entry once, by increasing key. Given
  that, `SearchFinds` says that the binary search finds the key, or the place where it
  belongs; `IndexAdded` that the entry put there keeps the order, `SortedIs` that what
  is read from a file can be sorted. That the search is right for every length of the
  index is an argument by the least length for which it would not be (`HasLeast`),
  as the library's induction theorems cannot be instantiated here.
* *Promise.* `KnownIs` reads the map off the index and the slots; `AddPromises` and
  `WritePromises` say that a step changes it at one key or nowhere, and for a session
  that ends `Ends` says which of three maps the next one will find.

`AdbProofs` proves, for any archives, contents and growth of the array, and any number
of scans and sessions, all that the run `adb` checks: `CatalogueRight` (`Catalogue`),
`ListsNameModules` (`RefsRight`) and `Typed` (`TypeOK`); further `ListsTheArchive` (an archive
scanned to its end is listed as it is) and `WritesEverything`. `Catalogue` counts the
members of an archive; the invariant says with a one-to-one map (`Lists`) that they
are the first modules of the content, of memory and of the file alike. A rescan is
followed in two lemmas: `GoneIs` (the archive and what belongs to it is freed) and
`ScannedIs` (the entries are added one by one, again by a least counterexample). Both
say with `Keeps` that the *other* archives have the same slots and the same members
as before, which is what entries of lists rely on (`RefKept`).

`MediaLibProofs` proves all that the runs say of `MediaLib`:
`TypeCorrect` (`TypeOK`), `CountsRight` (`RefCounts`), `TreeStands` (`Tree`),
`LibraryDurable` (`Durable`) and `ScansExact` (`ScanExact`), for any names, any disk,
any directories scanned, any length of path, depth of recursion and growth of the
table, with aborts and restarts, and with a flush that cannot open its file, or leaves it empty
or cut inside the fields of fixed size of an entry. They rest on `Premises`: files the
library has are not scanned again, no write breaks off *between* two entries or *inside a
name*, and, where the process begins again, entry 0 (the drive) is not scanned. Those are
four of the *Disagreements*; with any of the four dropped TLC finds `RefCounts` violated on the small instances.
None of the properties is inductive. The argument has five layers.

* *Table.* `Sane` says that the entries form one tree below the drive; `Paths` names
  the path of every entry, and no two are the same. `Counts` compares each count with
  the children, the reference and an **account** `w` of the handles others hold: the
  operators of `DirDb` are followed against any account, once and for all, so
  that `Ref` and `Unref` (`UnrefIs`) move one handle of it, and a `Resolve`
  (`ResolveIs`) finds or makes one entry per name and leaves its caller one handle.
  `dirdbUnref` climbs until it meets an entry that is still wanted: what it frees had
  no child and nobody's handle, so the tree stands. That recursive functions (paths,
  the climb, the walks over the table of a purge, a cancel or the freeing of a list)
  are what their equations say is shown by the least length or step at which they
  would not be, as induction cannot be instantiated.
* *File.* `SavedOK`: what `CPDIRDB.DAT` holds, whole, empty or cut inside the
  fields of an entry, reads back as a table that is sound for an account of nobody; holes come back as
  entries without a name that look like references to entry 0, so that its count may
  be too high (`leaky`), never too low.
* *Scan.* `Wanted` is the account `MediaLib` owes at each step: the drive's two
  handles, the playlist's, those of the lists of every call of `mlSubScan`, the tag's and
  `mlSourcesAdd`'s. `WalkOK` says that what those calls have still to look at are
  entries below the directory scanned, each at most once; with `~Known`, that none of
  the files still to be tagged has a reference or a tag. `TagsIn` keeps the tags below
  that directory, `Reached` says that the submit's calls, which walk the table by index
  while entries and their parents disappear from it, still come to every tag.
* *Invariant.* `IInv` is `Typing`, `Control`, `TableOK` (the table is `Sound` for
  `Wanted`), `SavedOK`, `Walking` and `Submitting`. TLC checked its parts as
  invariants of both media runs before they were proved. `NextIInv` has one lemma per action. `Durable` needs
  further that each operation but the submit leaves the library alone
  (`NextLibrary`) and that dropping unreferenced entries and cutting the table behind
  its last name loses no file (`FlushWrites`).
* *What a scan leaves.* `JInv` adds to `IInv` what `ScanExact` rests on. `DiskTree`:
  the disk is a tree whose leaves are the files, so that the way to a file leads over
  an entry of every directory above it (`WayDown`), and a directory that has been
  read leaves nothing below it unseen. `Walked`: while a scan walks, the library is
  what it was when the scan began; whatever is tagged is on the disk with that
  reference; and every file below the directory scanned is tagged or lies on or below
  a path that some call has still to look at (`Tagging`), which when the last call
  returns is none. `Handed`, while the submit goes over the table: an entry that has a
  reference is a file on the disk the submit will not come to again, or was in the
  library and lies elsewhere, or has no file any longer and will be come to; every
  file has its tag or its reference; and what the library had elsewhere is there
  (`Handing`). That no entry is come to twice (`NotAgain`), which would drop the
  reference just given, needs that each call is for an entry the one before it has
  passed (`Nest`), and that paths of equal depth above one entry are equal.

`FsMainProofs` proves, for any files of any kind and any length of list,
`NothingIsLeaked` (`NothingLeaks`) and `InterfaceHasItsFile` (`RunsItsFile`).
`HoldsInv` adds where in the loop each of the three `FILE` variables may hold
something. `Typed` (`TypeOK`) is that the cursor stays in the list: `StepTakes` for the
choice of the next or the previous file, `StepEdits` for the user, `WithoutIs` for
`fsForceRemove`.

Every invariant and action property of the passing runs is stated by a theorem. Only
model-checked:

* liveness (`Heard`, `Ends`, `Takes`, `Served`, `ComesBack`, `EveryFilePlayed`), as
  TLAPS 1.4.5 does not handle `ENABLED`.

No module uses `RECURSIVE`.

## Disagreements

`oss_lost_update` is kept as a run: `devposs.c:201`, an advance by a handler is lost,
`cachelen` is too small from then on (-1 with everything written) and the branch commented "unreachable code" is reached.

The following were met while modelling. Each says what the passing runs leave out,
and how to see it where the model shows it.

| Where | What | Shown by |
|---|---|---|
| `devp/devpdisk.c:65` | `Flush` sets `busy` and does not test it: a handler's `Flush` inside the main program's writes the same frames twice | `WritesInOrder` with `Levels = 1` |
| `devp/devpdisk.c:80` | behind a short write that succeeded `errno` is stale, and `EINTR` or `EAGAIN` of an earlier call writes the cache again | - |
| `devp/devposs.c:460` | a device that cannot be opened makes `ossPlay` return with `plrIdle` set and the buffer allocated | - |
| `devp/devpnone.c:105` | the clock is read before `tmInit` resets it, where the comment at line 53 says otherwise | - |
| `playwav/wavplay.c:230` | `bufloopat` is compared as if it were ahead in a straight line: a file larger than the ring is reported as looped before its end, or not at its end | `LoopRight` with `WaveLen = 4`, `RingMax = 3` |
| `playwav/wavplay.c:694` | `>` for `>=`: a file exactly as large as the ring never gets a `bufloopat` | `LoopRight` with `WaveLen = RingMax` |
| `playwav/wavplay.c:451,854` | `wpIdle` and `wpSetPos` are not under `clipbusy` | `RingHolds` with `Sigalrm = TRUE` and a long file |
| `stuff/timer.c:245` | a branch that no state reaches | - |
| `filesel/dirdb.c:710,735` | a second scan drops references that were not taken, and takes known files out of the library | `ScanExact` with `Known = TRUE` |
| `filesel/dirdb.c:129` | holes are read back as references to entry 0; a scan of entry 0 ends in `abort()` | `RefCounts` with entry 0 among `Targets` of `media_restart` |
| `filesel/dirdb.c:139` | a file cut between two entries is used without counting parents | `RefCounts` with "between" in `WriteErrors` |
| `filesel/dirdb.c:170,207` | a file that ends inside a name, or right before it: `dirdbInit` frees that name twice, and no later start gets past it until the file is removed | `RefCounts` with "name" in `WriteErrors` |
| `medialib/medialib.c:300` | `mlReadDir` takes handles on its three entries and an early return gives none back | - |
| `filesel/mdb.c:522` | the number of entries is cut to 16 bits before the search | `KeepsPromise` with `Width = 3` and without its guard |
| `filesel/mdb.c:474`, `filesel/adb.c:262` | a session that breaks off between two runs of slots leaves a file with slots of two sessions | - |
| `filesel/adb.c:576` | an archive is its base name and size: another one of the same name and size is listed with its content | - |
| `filesel/adb.c:591` | a scan that failed in the middle is listed from then on as if it were whole | allowed by `Catalogue` |
| `filesel/pfsmain.c:158` | a list of nothing but files that do not open makes `callselector` go round for ever | excepted by `ComesBack` |
| `filesel/pfilesel.c:626` | `fsGetPrevFile` with `fsListRemove` passes over one entry | - |
| `filesel/pfilesel.c:2530` | -1 of `fsFileSelect` is taken for a choice, or ends the player | action `Fails` |

## Plan

Done, in this order: `PlayRing` and `DevOss` with its proofs, `WavPlay`, `DirDb` and
`MediaLib`, `DevDisk`; then `Timer`, `SlotFile`, `ModInfo`, `Mdb`, `Adb`, `FsMain`, and
the proofs of `Timer`, `FsMain`, `DevDisk`, `WavPlay`, `Mdb`, `Adb` and `MediaLib`, that `DevOss`
implements `PlayRing` and that `Mdb` implements `ModInfo`. What is left:

1. `Library`: the abstract specification of `MediaLib` (a set of files, scans that
   replace a subtree), implemented through a refinement mapping; listing and search.
2. `StreamPlay`: the ring the other streaming players share, whose *Idle* holds
   `clipbusy`; compared with `WavPlay`, the same properties with handlers.
3. `PlayDevice`: `WavPlay`'s filler composed with `DevOss`, in place of its counter.
4. Path resolution and playlists; the position queues of the module players; ALSA.

Theorems to come: that `MediaLib` implements `Library`, which `ScansExact` and
`LibraryDurable` come close to.

## Not modelled, and why

Interpreters of tracker formats and emulated sound chips are sequential
computations specified by their formats. Mixers, filters and volume tables are
arithmetic on samples. The console, the displays and the setup screens are output.
The linker and the `.ini` parser run once at the start. The remaining parts are in
the plan.
