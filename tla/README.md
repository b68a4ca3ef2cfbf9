# ILPER2 in TLA+

ILPER2 emulates HP-IL peripherals: a PILBox on a serial port hands it the
frames of an HP-IL loop, and it plays a display with a keyboard, up to two disc
drives and a printer on that loop. This directory models it in TLA+, checks the models with
TLC on small instances, and proves with TLAPS, for every value of the constants,
the safety properties of the loop protocol and its transfers, the keyboard, the
terminal's screen, the drive, the serial line and the locking.

`PROJECT.json` says for every definition which lines of `src/` it models, for
every run what it checks, and lists the hazards of the code with the properties
that would catch them.

## 1. The system

One process, one thread. `main` (`ilmain.c:652`) is a loop: apply a pending
resize, take one key, take one byte from the port. A byte that completes a
frame is decoded by `PILBox`, goes through all devices in a fixed order
(`hpil_transmit`), and is answered at once. What is hard is therefore not
shared memory but the *order of events*: any frame, any key and any resize can
come between any two others, and a conversation of the loop (configure,
address, transfer, interrupt, resume) spreads over many frames and devices.

| component | state | operations | correct when |
|---|---|---|---|
| Protocol engine, `ilbase.c` | per device: `adr`, `state` (a set of bits), `ptsdi` | `hpil_dev_process`: data, command, ready and identify frames | only the eight meaningful combinations of bits arise; the ID pointer is in its string; a talker answers every ready frame |
| Frame router, `ilper7.c` | none (the order of the devices) | `hpil_transmit`, `init_hpil` | addresses are unique, one talker; each byte reaches every listener once, in order; transfers end |
| Display keyboard, `ildisp.c`, `ilmain.c` | ring `kbuf`, head, tail, count | push on a key, pop on `on_send`, service request on IDY | a bounded queue; what is typed is read in the end |
| Terminal emulator, `ildisp.c` | 100x256 buffer, dirty rows, view size, cursor, window top, escape parser | one byte of text or escape sequence, clear, resize, redraw | no access out of bounds; the screen shows the window of the buffer |
| Mass storage, `ildrive.c` | status, DDL and DDT in force, byte and sector pointer, two sector buffers, flags; the image file | DDL/DDT commands, a byte in, a byte out, status, clear, format | a read delivers the image; a record lands where it was begun, or the status tells; nothing else changes |
| Printer, `ilprint.c` | `last_cr`, log file | a byte, clear, open, close | the file is the text of what was received, in any split and over restarts |
| Roman-8, `roman8.c` | none (a table) | `roman8_to_utf8` | what is written can be read back |
| PILBox link, `ilmain.c` | `lasth`, the last high byte, shared by both directions | `SendFrame`, `PILBox`, `InitPILBox` | what one side sends is what the other decodes; a frame is answered |
| Scope, `scope.c` | last line, repeat count, log file | `scope_log`, open, close | the log expands to the frames that passed |
| Main loop, `ilmain.c` | `quit_flag`, `resize_flag`, port, lock | signals, start, stop | a signal is not lost; one instance talks to the box, and stops it at the end |
| Configuration, `ilmain.c` | what was read so far | a line of the file, the checks | accepted exactly when complete and consistent |
| Status bar, separator | - | output | not modelled, see section 7 |

Interactions: `hpil_transmit` calls the devices one after the other; each is
`hpil_dev_process` with the callbacks `on_receive`, `on_send`, `on_status`,
`on_status2`, `on_clear`, `on_cmd` and a service-request flag. The main loop
touches the display from two other sides (keys, resize). `PILBox` calls
`hpil_transmit` and logs the frame before and after it in the scope. Signal
handlers share two flags with the main loop. Instances of the program share the
port, its lock, the scope file and the printer file; the drives share the file
system with whoever else has the image.

## 2. The modules

    HpilFrames -- HpilBase --+-- HpilLoop --+-- HpilTransfer --> HpilBroadcast
                             |              |     +-- HpilTransferProofs
                             |              +-- HpilLoopProofs (extended by HpilTransferProofs)
                             +-- IlKeyboard --> KeyQueue
                             |     +-- IlKeyboardProofs
                             +-- IlDrive -- DriveStreams -- DriveStreamsProofs
                             +-- IlPrint --+
                       Roman8 -----+       +-- IlOutputs -- IlOutputsProofs
                                    Scope -+
    IlTerminal -- IlTerminalProofs
    PilBoxLink --> FrameCall
      +-- PilBoxLinkProofs
    IlConfig -- IlMain -- IlMainProofs

(`--` extends, `-->` is shown to implement.)

* **HpilFrames**: frames as a kind and an argument. `FrameOf` is the decoding
  of the 11 bits that `ilbase.c` does with masks and nested switches. The
  groups `n >> 5` are intervals of the argument there too.
* **HpilBase**: the engine. There is one action for each branch of
  `hpil_dev_process`, with the device and the frame as parameters. The bits of
  `state` are a set of flags, so a test of one bit (`state & 0x80`) is a test
  for one flag and the overlaps between modes, on which the code relies, stay
  visible. Bit 7 of `adr` is the field `aad`. The actions are grouped by the
  callback the branch makes (`Hear`, `Send`, `Status`, `Status2`, `Clear`,
  `Command`, `Poll`, and `Quiet` for those that make none); a device conjoins
  what its callback does.
* **HpilLoop**: the router, hop by hop, under a controller that may send any
  frame at any time, with restarts of the emulator at any time. The callbacks
  return anything.
* **HpilTransfer**: the same loop under a controller that runs transfers: it
  sends back out what comes in until ETO, may hold a byte and send NRD first,
  may abort with IFC, may itself write. `on_send` returns any byte, or none:
  the display runs out of keys, but a drive under DDT 0 or 2 never does
  (`outdta`, `ildrive.c:247-257`), and then it is the controller that has enough
  and says so by NRD. Devices and controller interleave.
* **HpilBroadcast**: what the loop promises of a transfer: a byte is emitted when
  all have heard the one before, and the transfer ends when all have heard the
  last. Only a transfer that is cut off (`cut`) ends otherwise. `HpilTransfer`
  refines it by history variables (`audience`, `log`, `heard`, `cut`), with IFC
  and a restart as the only steps that cut.
* **IlKeyboard**: the ring with its four variables, keys as the main loop
  translates them, the service request, and a calculator that polls, makes the
  display talker, reads, stops, releases, untalks and breaks off.
  **KeyQueue** is the bounded queue it implements.
* **IlTerminal**: every action is a whole call of `DisplayStr`, `ClrDisplay`
  or `handle_resize` with the redrawing at its end. `wtv` is what ncurses has
  been told to show, `wcur` where the user sees the cursor.
* **IlDrive**: one drive behind the engine, frame by frame: every device
  dependent command, both buffers, pointers, the image as a sequence of
  sectors with, behind a write that failed half-way, a `tail` that is less than
  one, and `access`, `open`, `read`, `write` that may fail.
  **DriveStreams** states reads and records over the image as one row of
  bytes. A read (`pos`) or a record (`run`) begins where the drive's pointer is
  when DDT 2, DDL 2 or DDL 6 comes, and is moved from there on by the frames and
  the commands in force, not by the drive's pointers and buffers.
* **Scope**: the mnemonic of every frame as its words, and the line that is held
  back with its count. **IlPrint**: line ends, control codes, Roman-8, and a file
  that is written by lines (`setlinebuf`): `paper` is what is in the
  file, `pending` what is still in memory. **Roman8**: the table and its UTF-8.
* **IlOutputs**: `hpil_transmit` with the printer behind the protocol engine and
  the scope around it, for frames as their 11 bits. The program ends, is killed
  and is started again; the scope file is emptied at a start, the printer file
  is added to.
* **PilBoxLink**: the bytes on their way in both directions, `SendFrame`,
  `PILBox`, `InitPILBox`, `start_emulation` and `stop_emulation`, crashes, and
  the box. What `hpil_transmit` answers is any frame. **FrameCall** is what it
  implements: a frame is asked, taken as what it was, answered, and the answer
  received as what it was.
* **IlConfig**: `read_config` line after line and the checks of `main`.
  **IlMain**: instances with a place each (`pc`), from the start over the
  handshake through the loop to the end; signals come between any two steps. Of
  the scope it counts the frames: those in the file, and those in the line that
  `log_mnemo` holds back until another line comes (`pending`).

The `MC*` modules give small values to the constants. Definitions marked
*Mutant* in a comment are plausible mistakes in the code, used to see that the
properties can fail; nothing else refers to them.

## 3. The runs

| run | what it shows |
|---|---|
| `loop` | Three devices, any frame at any time: eight modes (`EngineStates`), the ID pointer in its string (`SdiInBounds`), unique addresses, a single talker, AAD counts the devices (`AadCounts`), a ready frame comes back unanswered only when there is no talker (`ReadyAnswered`), an address is kept until AAU (`AddressKept`). |
| `transfer` | `IsBroadcast`: each byte is heard once, in order, before the next and before the end by every listener, whether before or behind the talker, with NRD anywhere; IFC and a restart may cut a transfer off at any point. What the controller writes comes back (`EchoUnchanged`), SDC clears no talker (`ClearsListeners`), an identification has all its characters (`IdentityRead`, which leaves open what terminates them), NRD ends a transfer (`NrdEndsData`), and transfers end, by their source or by a controller that has enough (`TransferEnds`). |
| `keyboard` | `IsQueue`: the ring with the transfers is a bounded queue. `MarkRead`: a typed byte is read although the display stays talker, where the request is not masked. |
| `terminal` | `InBounds`: view and window in the buffer, cursor in the window, also after a resize inside an escape sequence. `ScreenCurrent`: the dirty marks are enough. `LineFeedScrolls`: a line feed moves what is seen by one row at most. |
| `drive_read` | `ReadsImage`: reads, interrupted, moved, resumed, with questions in between, deliver the image byte by byte through the read-ahead. |
| `drive_write` | `RunWritten`: a complete record is in the image, or the status tells of an error; `OtherSectorsKept`: only sectors the record touches change, also when closing, formatting and rewinding with accesses that fail; `TypeOK`: indexes in their arrays. |
| `link` | `IsCall`: frames and answers cross the line unchanged although high bytes are left out in both directions, for both styles of box, over starts, stops, crashes and failed handshakes. `InSync`: on a quiet line both ends remember the same high byte. `IsServed`: a frame that was asked is answered. |
| `outputs` | `PaperIsText`: the printer file, read as UTF-8, is the text of what was received, over several runs of the program; a kill loses no complete line. Which text is left open in two points, see below, but it is one reading throughout. `ScopeIsLog`, `QuitWritesLog`: the scope file expands to the frames that passed, but for one line and its repeats until the end, and completely at the end. `RepeatsCollapsed`; `Legible`: lines are equal only if the frames are, where the byte is shown. |
| `main` | `OneTalks`, `BoxStopped`: one instance talks to the box, and the box is left sending only by one that was killed, lost the port or got no answer. `SizeFollowed`, `QuitEnds`: no resize and no request to quit is lost, whenever the signal comes. `ConfigExact`: a file is accepted exactly when it is what the README describes. |

Three more runs are expected to be violated: they state what a document or a
comment of the repository says and the code does not do.

| run | disagreement |
|---|---|
| `aad_thirty` | The last address an AAD lap gives is 29. AAD 30 passes on unchanged, so a lap that comes back with 30 may have left devices out; `hpil-frames-spec.md:13` has addresses up to 30. |
| `whole_keys` | A full ring takes the ESC of a cursor key and not its letter. |
| `second_instance` | An instance that is refused because another one has the port locked has opened the scope file before, and so emptied the log of the first. The first has logged two different frames: the line of one is in the file and is lost, that of the other is still in memory. |

Smaller disagreements and oddities that the models show but no run is spent on:

* NRD between the two bytes of the display's status: the second byte comes after
  it, where `hpil-frames-spec.md:325` has the transfer end (`ilbase.c:141-143`).
* `hpil-frames-spec.md:453` has the ID string end with CR and LF. The code sends
  neither: ETO takes the place of the CR of `device_id` (`ilbase.c:46`), and there is no
  LF. `IdentityRead` is about the characters alone, and CR and LF behind them, or
  nothing, are all the same to it.
* On the last row of the buffer, wrapping at the last column goes back to column
  0 of the same row, and text overwrites itself (`ildisp.c:181`). ESC % does not
  move the visible cursor (`ildisp.c:234-244`). ESC S and ESC T are undone by
  `term_ensure_visible` when the cursor would leave the window
  (`ildisp.c:314-323`, `:338`). A terminal larger than the buffer gets a 24 by 80
  view (`ildisp.c:109`).
* `access()` refusing the image loses a record with no status (`ildrive.c:124`);
  `Faults` of `drive_write` leaves it out. The sector pointer runs past the image
  (`ildrive.c:193`, the file grows; DDT 3 sends a pointer byte above 255 from
  sector 65536 on). A device clear leaves `devl`, `devt` and `flpwr` in force
  (`ildrive.c:167`).
* A signal while the program waits for the answer of the box fails the start,
  although the comment at `ilmain.c:157` says that a signal is no disconnect:
  `InitPILBox` takes 0 bytes for no answer.
* `ilmain.c:284` says that missing keys keep their defaults; three missing keys
  end the program.
* The printer leaves control codes out (`ilprint.c:76`), where `Architecture.md:70`
  has them as spaces. And `last_cr` survives a clear, so that CR, clear, LF are two
  newlines and not three (`ilprint.c:55`, `:104-108`), of which no document speaks.
  `PaperIsText` asks for one of the readings (`Readings` in `IlPrint`), the same for
  all of a history; in the code, control codes are nothing and the LF joins its CR,
  and `PaperIsTheText` proves the property by that reading.

### Bounds

* **Devices, N = 3.** The order on the loop matters for a device before, at
  and behind the talker, and for the first, a middle and the last one in an AAD
  lap. The proofs of section 5 hold for every N.
* **Frames.** The `Inputs` have for each branch of the engine a frame that
  takes it: own and foreign addresses, UNL, UNT, AAD at the ends of its range.
  Frames that all devices treat alike have one representative.
* **Transfers.** `MaxLog` = 4 bytes are what the controller reads by one SDA, or
  writes, at most: a first, two next and a last one. It bounds the controller and
  not the devices, which may have more. Identifications and statuses have their own
  length. The history never reaches `MaxHistory` (`TransferTypeOK` says so).
* **Ring, KbufSize = 3** for 16: it fills, wraps, and a key of two bytes finds
  two, one or no place.
* **Terminal.** A buffer of 4 rows by 2 columns, for 100 by 256; views of two
  and four rows, one too large (it becomes 3 rows), one too small.
  Two view rows in four buffer rows have every position of the window and both
  ends of the buffer. Space and one letter are enough to tell a row drawn from
  one that is not.
* **Drive, B = 2** for the 256 that is the sector size and the base of the
  pointer bytes; `nbe` = 2 or 3 sectors for 2560. A transfer crosses sector
  ends several times. `MaxPe` bounds the sector pointer: the actions that would
  move it beyond are not taken (`MayAdvance`). It is past the last sector in
  every drive run, so that running off the image is included.
* `SendItem` bounds `ptout`, which counts unanswered requests too.
* **Line, MaxLine = 2**: neither a start nor a frame of the loop comes while more
  bytes are on their way; both sides may then still add to them. So a command
  meets a frame and its answer, whole or half, on the line. Four frames: two
  that share a high byte, one that differs in the bit that the two styles of box
  put in different bytes, one with the high byte of the commands, and one whose
  style 6 high byte passes for the answer to the handshake.
* **Outputs.** `MaxFrames` = 4 in a run and `MaxHistory` = 6 over all runs, enough
  for CR, clear, LF in any order, for a repeat and its end, and for a second run
  behind a killed one. Twelve frames, with characters of each length of UTF-8; the
  mnemonics of other frames are modelled but not exercised.
* **Instances, two**, three sizes of terminal of which one is too small,
  seven configurations: one complete, one for each reason of refusal.
  `MaxLogged` = 2 frames: one in the file to lose, and one that is still in memory.
* The `VIEW` of the drive's runs leaves out `frame`: the drive is alone on the
  loop, its answer decides nothing about its next step, and the action
  properties that look at it are evaluated on every step.

### Fairness

`TransferFairSpec`: the emulator handles a frame that has arrived (`TransferHop`)
and the controller goes on with a transfer it has begun: it takes one of the steps
`Continue`, `Interrupt`, `Release`, `Finish` (one weak fairness for all four, so that
none of them is owed by itself). The first is the main loop; the second is what a
loop controller is: the loop stands still while it holds a frame. `Continue` needs
that the controller wants more (`Wants`): a drive never runs out, so a transfer of
data ends because the controller has a buffer of some length and sends NRD at the
latest when it is full, unless ETO came first. What remains for the code is to
answer every byte, to obey NRD and to end with ETO. Abort and restart are not fair.

`PatientSpec` of the keyboard: the calculator polls and reads on (`Calculator`,
weakly fair), and does not break off for ever, because one that answers every
first byte by IFC reads nothing. Keys need not stop.

`FairSpec` of the link: the program takes what has come (`TakeHigh`, `Reply`),
which is the main loop, and the box what is sent to it. Starts, stops, crashes
and new frames are not fair.

`FairSpec` of the instances: a process that runs goes on (`Step`); the timeout of
50 ms in `select` is part of it, because it is what brings the loop back to the
flags. Bytes, errors of the port and signals need not come.

No fairness is assumed for the terminal, the drive and the outputs: they have no
liveness property, each call ends by itself.

## 4. Faithfulness

Restarts are part of `HpilLoop` and `HpilTransfer`: the state of devices is not
kept. The controller is restricted in one point (`MayAddress`): it sends AAU
before it auto-addresses a loop of which only some devices hold an address, as
`hpil-frames-spec.md:29` requires; without this the addresses are not unique,
in the code as in the model. The SRQ bit of data frames and the parallel poll bits
are dropped, since no device reads or writes them. In `IlKeyboard` and
`IlDrive` the device is alone on the loop, so a frame and its answer are one
step. The drive's guard `MayAdvance` is the model's, as are `MaxLog`
and `MaxHistory`. A `write` that fails half-way leaves any prefix of the
sector, also behind the end of the file and when it formats; the part of a sector
that the file then ends with is `tail`, which `read` finds too short and a
later write behind it fills up with zeros. An image has whole sectors at the start.

The box is not in this repository. It is modelled from what the program expects
of it: a frame at a time, an acknowledgement of a high byte which it may or may
not wait for, one byte as the answer to a command, and a last high byte that
follows both directions as `lasth` does. The command of a start is `COFI`; `COFF`,
for `keyboard=off`, would do the same in the model, since the box keeps identify
frames to itself then and `Frames` stands for those it hands on. `InitPILBox`
compares six bits of whatever byte comes first. A byte left over from before may
pass for the answer; the history variable `fooled` marks such a start, and
`IsCall`, `InSync` and `IsServed` promise nothing from there to the next start.
All other starts, also those that follow a failed one which left the box
sending, are covered.

In `IlMain` a signal that comes at place `wait` may end the waiting or not, because
`select` may have begun or not; in the second case only the timeout brings the
loop back to its tests. Lines of the configuration are key and value already. A
scope file that is emptied by a second instance counts from zero again.

## 5. The proofs

### The loop

`HpilLoopProofs` proves about `HpilLoop!Spec`, for every number of devices N,
every set of input frames, all identification strings and default addresses.

* `LoopTypeOK`: `[]TypeOK`.
* `EngineSafe`: `[](EngineStates /\ SdiInBounds)`. Inductive together with the
  types: each of the engine's branches is a lemma about one device
  (`TurnOK`), the rest of the loop is untouched. That `ptsdi` is in bounds
  needs that CR is found only at the end of the string
  (`DeviceIdAssumption`), and that the bits `sda` and `sdi` together occur only in
  the mode that SDI enters with `ptsdi = 2`.
* `AddressesUnique` and `OneTalkerAtMost`: `[]UniqueAddresses`,
  `[]SingleTalker`. Neither is inductive, and both are false while a frame is
  on its way. `AddressInv` says what a lap has done so far: behind AAU are
  default addresses; behind AAD m the addresses m, m + 1, ... up to 29, while
  those ahead have their default; ahead of TAD is the old talker, behind it only
  the one named. At the end of a lap this gives uniqueness, because an AAD
  lap began with all addresses being default, or none.

Assumptions: `LoopAssumption` (at least one device; default addresses from 1
to 30, all different, as in `ilper.h` and the devices' initialisers),
`DeviceIdAssumption`, `InputsAssumption` (inputs are frames), and `AddressRoom`:
the default addresses are so low that N devices fit behind each of them below
30. TLC evaluates all of them in the runs.

It also proves what a controller learns from a frame that comes back. `AadCounting`: under `AddressInv` the devices that have taken an address are
those up to the one the lap has reached, so the count follows from the
cardinality of an interval. `AddressIsKept`: no step but AAU and a restart
clears `aad`. `ReadyIsAnswered`: its invariant `ReadyLap` says that a ready frame
on its way is unchanged only as long as it has passed no talker, and is from then
on a frame that asks for nothing. `SdiSafe` is the half of `EngineSafe` about
`ptsdi`.

### The transfers

`HpilTransferProofs` proves about `TransferSpec`, for every number of devices and
every place of talker and listeners on the loop, that it implements
`HpilBroadcast` (`TransfersBroadcast`), and the invariants of the run
(`TransferTypeCorrect`, `EchoesUnchanged`, `ClearsOnlyListeners`, `NrdEnds`,
`IdentitiesRead`). The refinement mapping is the identity on the history
variables, so the initial states are obvious and every step must be shown to be
a step of the broadcast; that needs to know where the byte on the loop is, and
who has heard it. `TransferInv` says it: at any moment loop and controller are
in one of six stages,

* `Resting`: no transfer, and no source but one an IFC is still on its way to;
* `Writing`: the controller is the source, parties at and behind `at` are late;
* `Asking`: the ready frame has met no talker yet;
* `Carrying(t)`: the last byte of t goes round, or goes round again as far as t;
* `Stopping(t)`: NRD goes round while the last byte is held back;
* `Over`: ETO is on its way, and all have heard all; so `Finish` is an `End` of the
  broadcast, which requires it.

`HeardBut(late)` gives what each party has heard from the set of those that the
byte on the loop has still to reach, so that a hop changes it by one party
(`LateHears`). `SentBy(t)` ties the bits of the talker to the length of the log:
without it a second byte of a status, or an identification that is
continued, could follow what is no part of it. The invariant was checked by TLC
on the run `transfer` before it was proved. It stands on `AddressInv` of the loop,
because two talkers would be two sources. `HistoryRoom` says that `MaxHistory`
is longer than any transfer, so that the histories are not cut.

### The terminal

`IlTerminalProofs` proves `InBounds` of the terminal for every buffer and every
set of terminal sizes: see the theorem `TerminalInBounds`. The invariant is
inductive with the ranges of the view (`1 .. NBUF_ROWS`, `1 .. NBUF_COLS`),
which `set_view_size` establishes; the leaf facts are what
`term_ensure_visible` returns (`VisibleShows`) and that a remainder lies below
its divisor.

`ScreenIsCurrent` is `[]ScreenCurrent`. Its invariant `ScreenInv` is that `wtv` shows
the window of the buffer (`Shown`) between calls. Within a call it is broken, and
what makes redrawing restore it is `Enough(buf, d, top)`: every row of the
window to come is either marked, or shown already as the buffer has it. Each
handler is shown to leave enough marks (a line feed that scrolls the buffer or the
window, wrapping, erasing, the four movements). `LineFeedsScroll` follows from
the bounds.

### The keyboard

`IlKeyboardProofs` proves the refinement `IsQueue` for every size of the ring
(`KeyboardIsQueue`), and `TypeOK`. The invariant `KeyInv` ties head, tail and
count together (`RingOK`), and the place of the controller to the mode of the
display, so that a byte is taken from the ring only when it is sent. The queue
is the window of `count` places from `head`, and the lemmas say what a push
(`PushHeld`), a pop (`PopHeld`) and two pushes (`PushAllHeld`) do to it, by the
arithmetic of the wrapping index (`Wrap`, `NextIndex`).

### The drive

`DriveStreamsProofs` proves about the drive with any sector size, any image and
any choice of failures that its types are kept (`DriveTypeCorrect`, by
`DriveInv`) and that a step changes no sector but the one the pointer was at
(`WritesOneSector`). The engine in front of it is in one of eight modes (`EngineOK`),
which gives the frames that a device that is alone can answer.

`ReadsFollowImage`: `ReadInv` says that while a read goes on, the buffer holds the
sector that `pos` is in, and the sector pointer is one ahead of it. It supposes
`Faults \subseteq {"write"}`: after a refused `access` or a failed `open` the drive
sends the old sector again, after a failed `read` 255s (`ildrive.c:99-112`), and only
the second is told by the status.

`RecordsLand`: `RunInv` says of a record that has begun, as long as the status does
not tell of an error (`Told`): its bytes below the pointer in the pointer's sector
are in the buffer, the others in the file; DDL 2 writes a full sector and DDL 6 loads
what it will change (`Loaded`); behind the last byte of a full-sector record the
rest of the sector is of no concern (`Landed`). It supposes
`Faults \subseteq {"open", "write"}`, since the code tells of neither a refused
`access` (`ildrive.c:124`) nor a failed `read` in partial writing (`:106`).

### The line

`PilBoxLinkProofs` proves about the coding, for all 2048 frames and all last high
bytes, that the bytes of a frame decode to it in either style (`RoundTrip`) and
that leaving a high byte out loses nothing when both ends have the same one
(`LeavingOutIsLossless`). `LinkTypeOK` is `[]TypeOK`; it needs `EndsLow`: the line
to the box never ends in a high byte, since both bytes of a frame are sent in one
step.

`LineIsCall` is the refinement of `FrameCall`, for any set of frames and any bound on
the line, and `EndsAgree` is `[]InSync`. The inductive invariant is `LineInv`. With a
program that lives, the line is at one of six points of a conversation: `Idle`,
`LowComes`, `BothCome`, `HighComes`, `Acknowledged`, `AnswerComes`; each says which
bytes are on the line, what the box waits for, and which of the two high
bytes is ahead. A program that was killed leaves one of two things behind: a
question with, perhaps, an acknowledgement (`LeftUnanswered`), or an answer
(`LeftAnswer`), and after those only commands come (`CommandsAfter`). `Messages`
says that the line to the box is always a row of whole messages, also after a
start was `fooled`, when nothing else is known; and `echo` counts the bytes from
before the start that the program still has to drop. TLC checked `LineInv` on the
run's constants and with `MaxLine` = 4.

### The instances

`IlMainProofs` proves `MainTypeOK`, `OneTalker` and `BoxIsStopped` for any number
of instances. Types are inductive with `FileInLog` (the scope file and
the line in memory have no more frames than were logged), the other two together (`PortInv`): a process that
talks has the lock, so one that ends or is refused disturbs no other.

`ResizeIsSeen` is the part of `SizeFollowed` that is an invariant, `[]ResizeSeen`: the
display is laid out for the size of the terminal, or that is too small, or
`resize_flag` is set, unless the display is about to be laid out. It is why resetting the
flag before `handle_resize` loses nothing, and the mutant `TopForgets` does.

`ConfigIsExact` is `[]ConfigExact`, for configuration files of any length. `read_config` is a
function of the number of lines read; by induction (`ReadConfigKnown`) it has set the
keys of these lines to their values as long as each is known, valid and new, and has
rejected the file from the first one on that is not. `ConfigsAssumption`: a file is a
sequence of lines.

### The outputs

`IlOutputsProofs` proves all properties of the run `outputs`, for all 2048 frames, runs
of any length, and stops, crashes and starts in any order. They are about what a
file contains, which is `FlattenSeq` of a sequence, and so need an induction over
sequences. The library's induction theorems take an operator as parameter, but
its theorem on minimal elements (`WFMin`) does not: the set of the n for which
something fails has a least element, and so is empty (`Induction`). With it
`FlattenAppend` says what one element more does to the flattened sequence, and
nothing else about `FlattenSeq` is used.

* `RepeatsAreCollapsed`: `[]RepeatsCollapsed`. Inductive with `ScopeInv`: the line
  held back is not the last one in the file, and a new run starts with an empty file.
* `LogIsComplete` and `QuitIsLogged`: `[]ScopeIsLog` and `QuitWritesLog`. `LogInv`:
  the lines of the frames are the expanded file and, behind it, the line
  in memory as often as it came; after a crash, some line some number of times.
  `FlushedIs`: writing the line moves it from behind the file into it.
* `PaperIsTheText`: `[]PaperIsText`. `PaperInv`: what is on file and what is
  pending read as the text of the history, in the reading `Printed` that is the
  program's; what is on file alone reads as the text of the `kept` beginning, so that a kill leaves a text (`PaperEnd`); and `last_cr`
  is what `AfterCr` says of the next byte. `Roman8Type` and `Utf8IsRead`: each of the
  table's characters has 16 bits at most and is read back from its UTF-8.
* `LinesTellFrames`: `[]Legible`. `MnemoRead`: a function of the mnemonic gives the
  frame back, for each frame that is shown with its byte. What goes out is a frame
  of 11 bits again (`OutIsCode`), since the engine's pointer stays inside the
  identification (`EngineInv`).

Assumptions beyond those above: `SizeAssumption`, `ByteAssumption`, `KeyboardAssumption`,
`LinkAssumption`, `MainAssumption` and `OutputsAssumption`, each saying that the
constants have their types; `TransferAssumption` and `HistoryRoom`; and
`DriveAssumption`: the drive is alone, sectors have at least two bytes, the image
has a size that two pointer bytes can tell, and images and frames have their
types. TLC evaluates all of them in the runs.

### Only model-checked

* Liveness: `TransferEnds`, `MarkRead`, `IsServed`, `SizeFollowed`, `QuitEnds`.

## 6. Plan

Done, in this order: engine and loop; transfers; keyboard; terminal; drive and
streams; proofs of the loop and of the terminal's bounds; link; scope, printer
and outputs; configuration and main loop; proofs of the coding, the keyboard's
refinement, the locking, the counting by AAD and the collapsing of repeats; proofs
of the transfers, the drive, the screen, the line, the scope's log and the printer's
paper, the configuration and resizing. Left:

1. **Proofs**: the invariants behind `TransferEnds` and `MarkRead`, as `ResizeIsSeen` is
   the one behind `SizeFollowed`.
2. **The full loop**: display, two drives and printer with their callbacks in
   one model; two drives on one image, each with its own read-ahead buffer.

## 7. Not modelled

* The status bar and the separator: output only.
* `build_config_path`, blanks and comments within a line of the configuration,
  and a configuration file that is not there: text handling before anything else
  happens. The `baudrate` is one of the two accepted values or another.
* Two drives that were given the same image file; see the plan.
* The build files and the texts (README, Architecture, manual page, frame
  specification): read for what they claim, see the disagreements above.

Timing is abstracted: `select` with its 50 ms only decides whether a byte is
there.
