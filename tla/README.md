# A verification development for OS_CTL

OS_CTL gives a Linux machine two displays. Seat 1 starts a nested X server
(Xnest) when the machine has one GPU, seat 2 starts a display manager on it, and
programs draw on that display through a small C API (with Python and Rust
bindings) over a frame buffer in shared memory. This directory holds TLA+
specifications of these parts, TLC configurations that check them on small
instances, and TLAPS proofs for every instance. All definitions are read off the
sources under `src/source/`; `PROJECT.json` says which lines each one models.

    tlc -config handshake_restarts.cfg SeatHandshake.tla    # a run
    tlapm SeatHandshakeProofs.tla                             # the proofs

## 1. The system

| Component | State it keeps | Operations | Talks to |
|---|---|---|---|
| `seat-config/seat1_calle.c`, `start_nested_x.sh` | its signal mask, the file `display_id`, the Xnest process, its mapping of the sync region | find the GPUs, prepare the file, start Xnest and wait for its socket, block the signals, `sigwait`, open the region, `sem_wait`, connect, write the number, `sigwait` for ever | seat2: signal, semaphore, socket |
| `seat-config/seat2_calle.c` | the sync region `SHM_FILE` with its semaphore, the listening socket | unlink, create, size and initialise the region, find seat1's pid, `kill`, listen, `sem_post`, accept and read, `execv` of the display manager | seat1; the display manager replaces it |
| `proxy/display_proxy.c`, `systemd/*` | none | exec the right seat binary; restart | starts the seats |
| `display/display_manager.c`, `xlib_driver_core.c` (server side) | two shared-memory objects: the pixels and an `fb_info`; the window | unlink both, create, size, map, `mlock`, publish; a loop that puts the frame buffer on the window | clients, through the two objects |
| `xlib_driver_core.c` (client side), `display_driver.c` | of drawing calls nothing; of queries the variable `DISPLAY` and the connections they leave open | map both objects for a drawing call, draw, unmap; width and height of the screen | display manager, X server |
| `display/display_api.c` (drawing calls, queries) | one process-wide mutex | `display_draw_image`, `_set_pixel`, `_clear_screen`, `_fill_screen`, each blocking or `DISPLAY_WNO`, under the mutex; `display_query_width`, `_height` without it | the driver |
| `display/display_api.c` (image buffers), `lib/pack.c`, `lib/pixels.c`, `lib/endian.c` | `cmd->buffer` | `set_buffer_u8`, `set_buffer_u32` | a Python caller; `fb_draw_image` reads the buffer |
| `display/frame_buffer.c` | the pixels | `fb_draw_image`, `fb_set_pixel`, `fb_fill`, `fb_clear` | several client processes at once |
| `display/drm_driver/*` | - | - | - |
| bindings, Makefile, install scripts, examples, agent | - | - | - |

What is hard about it, and what makes each part correct:

* **The handoff of the display number.** Two processes that systemd starts and
  restarts in any order meet by a signal, then a semaphore, then a socket. The
  signal may be early, the pid stale, the region that of a dead process, the
  semaphore not yet there. Correct means: `connect` finds a listener; the region of
  the first seat2, and without failures of any, is whole when seat1 maps it;
  seat2 starts its display on no number but one that was written by a seat1 which
  had seen its server's socket, and on each at most once; and (without failures)
  that server is up and the handoff completes. With failures the server may have
  crashed since, and seat2 may start its display on no number at all (section 3).
* **The published frame buffer.** Server and clients share two names and no
  lock. Correct means: a client that finds both names finds one buffer whose
  size is the one it reads, and dies in a call only if it came too early or its
  server was replaced.
* **The drawing loops.** Unsigned 32-bit arithmetic at the screen's edge, and
  several processes storing at once. Correct means: stores are clipped, what
  a call covers was drawn when it returns, nothing is drawn twice, and the loops
  end.
* **The API lock.** Correct means: one thread in the driver, the mutex handed
  on, a non-blocking call that does not block.
* **The queries.** They change `DISPLAY`, which belongs to the whole process, in
  three unlocked steps, and leave a connection open each. Correct means: a
  `DISPLAY` with its prefix still names its server after any mixture of them, and
  one without is prefixed once, which takes queries that do not overlap.
* **A call from the API to the window.** It is many stores, and the render loop
  reads while they happen. Correct means: to the threads of the process a call
  is one step, and the window shows in the end what was drawn.
* **The image buffers.** Two tables and a byte swap must fit together, whatever
  a caller changes between conversion and drawing.

`PROJECT.json` lists under `hazards` each place where one of these bites, with
the properties that cover it or the reason that none does.

## 2. Modules

Each module is parameterised by CONSTANTS with a named ASSUME, has one action
per call or handler, and no RECURSIVE operator. Proofs live in a module of their
own. Definitions headed `Mutant:` are plausible bugs; no specification uses
them. Replacing the definition named in `PROJECT.json` by its mutant makes TLC
violate the property named there, which shows that the property depends on that
part of the code.

| Module | Models | Runs | Proofs |
|---|---|---|---|
| `SeatShared` | signals, `SHM_FILE`, the socket, what the kernel does at exit and on `kill` | - | - |
| `Seat1Calle`, `Seat2Calle` | the two programs, one action per call | - | - |
| `SeatHandshake` | both composed, fairness, properties | `handshake_*` | `SeatHandshakeProofs` |
| `DisplayHandoff` | abstract: a number is offered and used once | as a PROPERTY | as a theorem |
| `SharedFrameBuffer` | `xlib_run` against clients' `__get_shm_objects` | `framebuffer_shared` with `MCSharedFrameBuffer` | `SharedFrameBufferProofs` |
| `FrameBuffer` | the loops of `frame_buffer.c` | `framebuffer_clip` with `MCFrameBuffer` | `FrameBufferProofs` |
| `PixelDrawing` | abstract: a call draws each of its pixels once, then returns | as a PROPERTY | as a theorem |
| `DisplayApi` | mutex, flag and callback of the drawing calls | `api_no_callback`, and within the next | `DisplayApiProofs` |
| `DisplayQueries` | `DisplayApi` with the resolution queries next to it | `api_lock`, `api_query_race` | `DisplayQueriesProofs` |
| `DrawPipeline` | `DisplayApi` and `FrameBuffer` composed, with the render loop | `draw_pipeline` with `MCDrawPipeline` | `DrawPipelineProofs` |
| `AtomicCanvas` | abstract: a call draws all of its part in one step | as a PROPERTY | as a theorem |
| `ImageBuffer` | the conversions of a `cmd_draw_image_t` and the draw | `image_arrays`, `image_native_order` with `MCImageBuffer` | `ImageBufferProofs` |

Instances of the same names: `DrawPipeline` EXTENDS `DisplayApi` (a thread's
`pc`, `flag`, `cb`, the mutex) and INSTANCEs `FrameBuffer` with the threads as its
clients and `loop` as its program counter, since both run in the same thread.

### The seats

A process's program counter (`pc1`, `pc2`) names the call it is about to make,
so between any two calls every other process may run. Calls that only this
process can see are one step (`Prepare1`: directory, `open`, `ftruncate`;
`Listen2`: `socket`, `unlink`, `bind`, `listen`).

* `dir` says whether some seat1 has made `/run/seat_display_driver`, the directory of
  `SOCKET_PATH`; only a reboot removes it. Before that seat2's `bind` fails without
  any outside cause (`Listen2`). No unit is ordered after the other, so that can
  happen, to a seat2 whose signal ended a starting seat1.
* `sem[o]` is the state of the semaphore in the o-th region: `unsized` after
  `shm_open`, `zeroed` after `ftruncate`, `ready` after the assignment of the
  initialised semaphore, `posted`. Regions are numbered by the seat2 process
  that made them; `name` is the one `SHM_FILE` refers to. The old ones stay as
  long as a seat1 has them mapped, as in the kernel.
* `Init2` copies a semaphore over one that a seat1 may already sleep on. The
  copy forgets the waiter; that seat1 is `deaf` from then on.
* A process that touches an `unsized` region is killed (SIGBUS), and one that
  gets a signal it does not block is terminated (`Deliver`, `Exit1`).
* `waits` is the uninitialised `sigset_t` of the last `sigwait` in seat1's
  `main`: any subset of the two signals.
* Failures are actions of their own (`Fail1`, `Report2`, `Fail2`), as are
  `systemctl stop` (`Stop1`, `Stop2`), a crash of Xnest (`ServerExit`) and the
  operator's signal. `MaxFaults` bounds their number, `MaxStarts` how often a
  unit is started. After a failure the process exits the way the code does;
  `Report2` is the path on which seat2 tells seat1.
* The X display numbers are model values. Nothing computes with them.

`DisplayHandoff` forgets all of this and keeps three variables. The refinement
mapping takes `server` from the Xnest that seat1 saw running, `offer` from the
stream and `screen` from the number seat2 starts the display manager on. It says
where a number on the screen comes from and that it is used once. It does not say
that there is a number (`LaunchBlank`), nor that the server still runs: an Xnest
that crashed leaves its socket, and counts as the server seat1 has seen.
`DisplayIsNested` says both where nothing fails.

A handoff is `OnTrack` from `Rendezvous` (seat1 waits, seat2 has yet to signal it)
through `Meeting` (signal, region and semaphore are those of the running seat2)
to `HandingOver` (the number on its way). `Distance` counts the calls the two have
before them. `HandoffAdvances` says that a step of any process, unless it is a
failure, lowers it and stays on the track or arrives: this is the part of
`HandoffCompletes` that concerns steps, and the fairness does the rest. `Reporting`
and `ErrorIsNotLost` are the same for the path on which seat2 reports an error.

### The frame buffer

`SharedFrameBuffer` numbers the objects by the run of the display manager that
created them. A screen is its number of pixels and its depth; each run may open
another one. Sizes are in bytes: `Size` is `b_size` (three bytes per pixel at depth
16, four at 24), `Reach` how far the routines store, which take four bytes at a
time whatever a pixel has. A client that reads an `fb_info` while it is copied
finds a screen or zeros, and reads again for each use (`Field`).

`FrameBuffer` takes the mapped buffer for granted and models each store; `Word`
stands for 2^32. The model records for each pixel who stored it last and which
word of the image it was. Screens have four bytes per pixel there (depth 24 or
30), which is what makes a store one pixel wide.

`PixelDrawing` is what that promises to processes without a common lock: a call
takes the pixels of its drawing one at a time, in whatever order, puts each on the
screen once, and returns when none is left. In the refinement mapping (end of
`FrameBuffer`) the drawing of a call is its clipped part with the words that belong
there, and left are the pixels its loops have not `Passed`. A loop that stored a
pixel again would undo what another process drew there since, which
`FinishedIsShown` cannot tell from the other having come first.
`Remaining` counts the steps a call has left; `CallsAreBounded` says that each of
its steps lowers it.

`DrawPipeline` puts the routines under the mutex, call after call: `Draw` of
`DisplayApi` is the return of the routine (`Finish`), which leaves the loops at
zero for the next call. `Render` shows one pixel that lags, so a frame may be any
mixture; `stale` is the set of pixels where the window may lag. The display
manager runs and the mapping succeeds; one process draws. `AtomicCanvas` keeps of
each call a stage and its drawing, a function on the pixels it covers, and has
one action that puts all of it on the canvas. In the refinement mapping a call
counts from when it has the mutex: `Canvas` is the screen with all of the drawing
of the thread in the driver laid over it, stored already or not. `CallLeft` adds
the steps at the mutex to `Remaining`; `CallsComeBack` says that a call's own steps
lower it and that nobody else's change it.

### The API

`DisplayApi` has one program counter per thread. The four calls differ in
nothing but the driver routine, so there is one action for all four. `flag` is
the blocking mode and `cb` whether the caller passed a callback, which decides
whether a refused call returns.

`DisplayQueries` adds `xlib_resolution_prop_query`: the first `getenv` with its test
(`Look`), the second `getenv` with `snprintf` (`Read`), `setenv` (`Set`) and
`XOpenDisplay` (`Open`). Of `DISPLAY` only the form is kept: `none`, `bare` ("1"),
`local` (":1"), `host` ("host:1", to which the code puts a colon as well, so that
it names nothing), `broken` (a colon too many). `MaxConnections` stands for what
the server grants one process; nothing in the code closes a connection.

`ImageBuffer` takes a word as the sequence of its four bytes in memory order,
so the packing functions are the tuples they leave in memory and `endian_swap`
is a reversal. `Channel` is `CHANNEL_INDEX_TABLE`, `Pack` the packing functions
in the order of `PACK_OPS_TABLE`. What `memalign` returns holds any word of
`Junk`. Position and clipping of an image are left to `FrameBuffer`: a draw
reads the first width times height words. Each action is one call of the Python
module, which runs under the interpreter's lock.

## 3. Runs

| Run | Expect | Bounds | What it shows |
|---|---|---|---|
| `handshake_restarts` | pass, about 313 000 states | 2 display numbers, 2 searches, 3 starts of each unit, 3 faults, fair | `ConnectMeetsListener`, `NoTornSyncRegion`, `WaitingHasPoster`, `DisplayIsNested`, `OnlyEarlySignalIsLost`, `ImplementsHandoff`, `HandoffAdvances`, `ErrorIsNotLost`, `HandoffCompletes`, `ErrorReported` |
| `handshake_blank_display` | violation | 1 start, 1 fault | `DisplayHasNumber` |
| `handshake_early_signal` | violation | 1 start, no fault | `ContinueIsNotFatal` |
| `handshake_keep_alive` | violation | 1 start, 1 fault, fair | `SignalEndsKeepAlive` |
| `framebuffer_shared` | pass, about 1.2 million states | 2 clients, 2 server runs, 3 screens (2 and 3 pixels of depth 24, 3 of depth 16) | `NamesAreOneBuffer`, `InfoIsNotNewer`, `FaultHasCause` |
| `framebuffer_clip` | pass, about 91 000 states | 2 clients, 3 x 2 screen, `Word` 32, coordinates 0, 1, 2, 31, fair | `StoresAreClipped`, `FinishedIsShown`, `DrawingReturns`, `ImplementsDrawing`, `CallsAreBounded` |
| `api_lock` | pass, about 118 000 states | 3 threads, callbacks always given, 4 forms of `DISPLAY`, 2 connections | `DrawUnderLock`, `MutexHasHolder`, `MutexIsHandedOn`, `NonBlockingReturns`, `QueriesWork` |
| `api_query_race` | violation | 2 threads, `DISPLAY` a number | `PrefixedOnce` |
| `draw_pipeline` | pass, about 297 000 states | 2 threads, 2 x 1 screen, `Word` 8, an image as large as the screen at 4 places, pixels, fills, any number of calls, fair | `ImplementsCanvas`, `CallsComeBack`, `DrawnIsDisplayed` |
| `api_no_callback` | violation | 2 threads, callback or NULL | `DrawUnderLock` |
| `image_arrays` | pass, 4 800 states | 2 pixels with eight different bytes, images of up to 2 pixels | `DrawShowsArray` |
| `image_native_order` | violation | images of one pixel | `DrawShowsNativeArray` |

Every passing run also checks a type invariant (`SeatsTypeOK`, `PipelineTypeOK` or
`TypeOK`).
`QueriesTypeOK` says nothing of the code that `QueriesWork` does not; it is a lemma
of the proofs and no property of a run.

`QueriesWork` has an antecedent about the callers, `SerialQueries`: no two threads
are in a query at once. It is what a process has to see to that starts with a bare
number, and `api_query_race` shows that it is needed. Queries that the server
refuses for want of connections are allowed; each query uses one up.

Why these bounds are enough to be interesting. With three starts, a seat1 can
hold the region of one seat2 while a second is gone and a third sets up; three
faults allow a failure in each of them. `RETRY_COUNT` is 2 and not 5 since the
searches differ only in their number and the bound is proved for all values. With two
display numbers a restarted seat1 can pick another one than seat2 read or than
is in the stream. Two runs of the server give one
replacement, by a screen that is larger, smaller, or less deep; two clients with
different `seen` give a torn and a whole reader. Three starts also let a
handoff be attempted after two that failed, with the region, the mask and the
socket in whatever state those left. Three threads give a holder of the mutex, a
waiter and a third that is refused or asks for the resolution; two connections
are enough for a query to fail for want of one and not otherwise. On a screen of
two pixels a call is more than one store, so another thread and the render loop
can come in between, and of the four places of the image one is clipped in part
and two altogether.
A 3 x 2 screen has inner and outer rows and columns, `Word` 32 is far enough
beyond it for `x0 = 31` to wrap while an image of width 31 still runs through
the edge, and one image has no column. Two pixels of eight different bytes tell
apart every permutation of channels. The safety results that carry most weight
do not rest on these bounds: section 4 proves them without.

Symmetry of clients is used in `framebuffer_shared`, which treats them alike and
has no liveness property. The display numbers are as interchangeable, but
`handshake_restarts` checks liveness and does without it.
Deadlock is not checked in the seat runs (a seat1 whose seat2 failed does wait
for ever, see the hazards), nor in the frame buffer runs (all clients are done, or dead). It is
checked in the API, pipeline and image runs.

### Fairness

* Seats: weak fairness of each process's own steps (the kernel schedules a
  process that can run; blocked calls are disabled actions), of the first start
  of each unit (both are enabled at boot), and of `ServerUp` (the script waits
  for it without a timeout, so nothing can be promised without it). None for
  failures, stops, restarts or the operator. `HandoffCompletes` is stated for each
  number of faults so far: a handoff that begins after n of them completes unless
  there is one more.
* `DrawingReturns`: weak fairness of each client's steps.
* `DrawnIsDisplayed`: weak fairness of each thread that is in a call and of the
  render loop, which waits for nobody. Of threads that draw for ever it says
  only that calls go on returning: a mutex that is not fair promises no more.
* `DisplayApi`: stated as the antecedent of each property, so that
  `NonBlockingReturns` assumes it of the one thread only: the others may be stuck
  in the driver. `MutexIsHandedOn` promises the mutex to some waiter, not to each:
  a default pthread mutex is not fair.

### What the sources promise and the code does not do

1. `handshake_blank_display`: a seat1 that goes away after `connect` and before
   `write` makes seat2's `read` return 0. Only a negative result is an error
   (`seat2_calle.c:123`), so seat2 starts the display manager with `DISPLAY` ":",
   where the comment on line 140 assumes ":X".
2. `handshake_early_signal`: seat2 sends SIGUSR2 as soon as a process called
   `seat1_calle` exists (`seat2_calle.c:39`). seat1 blocks it only once the
   nested server is up (`seat1_calle.c:40`); before, the default action
   terminates it, although the comment calls the signal "continue".
3. `handshake_keep_alive`: the last `sigwait` of seat1 (`seat1_calle.c:177`) gets a
   set that was never initialised, while both signals are blocked. If they are
   not in it, the signals the comment names have no effect.
4. `api_no_callback`: `if(status && (cb != NULL))` (`display_api.c:57` and the
   three calls after it) lets a refused `DISPLAY_WNO` call without a callback draw
   without the mutex and then unlock another thread's. The Python examples pass
   `None`.
5. `api_query_race`: the comment "auto prefix : if not specified"
   (`xlib_driver_core.c:432`) describes a test and a `setenv` that no lock holds
   together. Two threads that ask for the resolution at once leave `DISPLAY` as
   "::1", and every later query of the process returns 1.
6. `image_native_order`: `set_buffer_u32` with the host's endianness skips the
   loop that also copies (`display_api.c:258`), so the image is whatever `memalign`
   returned. The Python examples pass `ENDIAN_LITTLE`.

Noted but not checked, as no text promises otherwise or the model has no state
for it: `mlock` gets `sizeof(fb_info)` and not the size of the buffer
(`xlib_driver_core.c:216`); a client that opens the `fb_info` before it is written
draws nothing or is killed, as `mmap`'s result is not tested (`FaultHasCause` has it
as one of the causes); a draw larger than its array reads behind its end;
`__get_shm_objects` leaks the info mapping when the data
object is missing; the image buffers are never freed; the size queries return 1
on failure, which callers that test for a negative number take for a size; a
`DISPLAY` that names a host is prefixed too and names nothing afterwards;
stores of four bytes pass the end of a frame buffer of depth 16 (`FaultHasCause`
has it as one of the causes); `ftruncate`'s zero semaphore can be
overwritten under a sleeper (the state `deaf`); a seat1 whose seat2 fails after
the signal waits for ever.

## 4. Proofs

TLAPS checks the following for every value of the constants, from the named
assumptions of the modules alone (`SharedAssumption`: the mark for no number is
none, the bounds are positive; `FrameBufferAssumption`: sizes are positive;
`ScreenAssumption`: screen and images can be addressed with 32 bits;
`CallbacksAssumption`; `ImageAssumption`: pixels are four bytes;
`QueriesAssumption`: the forms of `DISPLAY`; `PipelineAssumption`, which is
`ScreenAssumption` of the pipeline's screen).

* `SeatHandshakeProofs`
  * `TypeCorrect`, including the bound of the search.
  * `ConnectIsMet`: `[]ConnectMeetsListener`. The property alone is not
    inductive: why does a seat1 that passed the semaphore of the running seat2
    find it listening *still*? `ListenInv` adds that signals are pending only
    where blocked (`MaskInv`), that a seat1 with a number to send has made the socket's
    directory (`DirInv`), that regions belong to started processes (`ObjectInv`), when the socket listens (`StreamInv`), that the running
    seat2's semaphore is posted only after `listen` (`TokenInv`), and that once
    somebody has connected no seat1 is on its way to connect (`QuietInv`): there
    is one token per signal and one signal per seat2.
  * `RegionIsWhole`: `[]NoTornSyncRegion`. For the first seat2, whatever fails, it
    follows from `SignalInv` (the continue signal exists only when the semaphore
    does) and `RegionInv`; for any seat2, where nothing fails, from `FaultFreeInv`.
  * `Refinement`: `Spec => Handoff!Spec`. `ServerInv` ties the number in the file
    to the server seat1 started; each step is mapped to a step of `DisplayHandoff` or
    a stutter.
  * `WaitIsPosted` (`[]WaitingHasPoster`) and `DisplayRunsNested`
    (`[]DisplayIsNested`), both from `FaultFreeInv`. Without a fault a seat2 that
    has sent its signal to a waiting seat1 is the last one (by `DirInv` its `bind`
    cannot fail any more): before the signal seat1 has touched
    nothing the seats share, after it name, region and stream are those of the
    seat2 that sent it (`OneSignalInv`), and what is on the stream is the number of
    a parked seat1 (`OneStreamInv`). Where a step concerns the semaphore or the
    listener, `ListenInv` and `ServerInv` say the rest.
  * `Advances` (`HandoffAdvances`), for any number of starts and faults before the
    rendezvous. `TrackStep` goes through the actions. `TrackInv` says what earlier
    processes cannot have left behind: a seat1 that waits blocks the signals, a
    parked one waits for no server, a seat2 past its region has given it the name,
    and one past its signal sent the right one. That signals and tokens of earlier
    processes are not taken for those of this handoff is `ListenInv` again.
  * `OnlyEarlySignals` (`[]OnlyEarlySignalIsLost`), from `LostStep`: without a fault
    a seat2 past its signal is on the track, or the seat1 it had found is gone.
  * `ErrorsAreReported` (`ErrorIsNotLost`): a seat1 that waits with SIGUSR1 pending
    takes that one, whatever else a restarted seat2 sends.
* `SharedFrameBufferProofs`: `TypeCorrect`, `OneBuffer` (`[]NamesAreOneBuffer`)
  and `SteadyClientSurvives` (`[]FaultHasCause`). `SizeAndReach` is where the depth
  comes in: from 24 bits on, stores stay within `b_size`. `NamesInv` and `InfoInv`
  tie the two names and their contents to the server's position, `OpenInv` and
  `ClientInv` what a client holds to the run it opened. `InfoIsOlder`
  (`[]InfoIsNotNewer`): a client opens the info first, and by `OrderInv` the data
  object that has the name, when there is one, is never of an earlier run.
* `FrameBufferProofs`: `TypeCorrect`, `Clipped` (`[]StoresAreClipped`), `Shown`
  (`[]FinishedIsShown`). `LoopInv` is the heart: a loop goes on only from a row or
  column on the screen and by one, so no sum of coordinate and counter gets past
  the edge, let alone to 2^32. `PassedInv` says that what a loop has passed was
  drawn, `OwnedInv` that each pixel has one last writer. The step of each loop is a
  lemma (`RowProgress`, `ColumnProgress`, ...) that says what it does to counters,
  screen and passed pixels, so that the pipeline can use it too. A few arithmetic
  lemmas turn the linear offset into row and column. `DrawsEachPixelOnce`
  (`Spec => ImplementsDrawing`) needs these step lemmas to be exact: a step passes the
  pixel it stores and no other, and one that stores nothing passes nothing that is
  on the screen. Then each step maps to `Draw` of `PixelDrawing`. `Bounded`
  (`Spec => CallsAreBounded`) takes from `BoundInv` that the counters stay within
  image and screen, so that the count of `Remaining` is a natural number; one row
  costs as many steps as it has columns and two more (`OneRowLess`).
* `DisplayApiProofs`: `TypeCorrect`, and `MutualExclusion` under the hypothesis
  `Callbacks = {"fn"}`, which `api_no_callback` shows to be needed. `MutexIsHeld`
  (`[]MutexHasHolder`) needs no such hypothesis: even where a call without a
  callback unlocks the mutex of another, nobody keeps it who is not in the driver.
* `DisplayQueriesProofs`: `QueriesAreAnswered` (`QueriesSpec => QueriesWork`) for any
  number of threads and connections. `PrefixInv` is the case of a `DISPLAY` with its
  prefix, which no query has anything to add to. In the other, `SerialInv` says
  that whoever is to set `DISPLAY` has read it bare; `Set` of one thread keeps that
  only if no other is in a query, which is where `SerialQueries` comes in. The
  lemma `DrawingIsUndisturbed` brings over what `DisplayApiProofs` has proved.
* `DrawPipelineProofs`: `PipelineTypeCorrect`, and `CanvasRefinement`
  (`PipelineSpec => ImplementsCanvas`) under `Callbacks = {"fn"}`, for any number of
  threads, any images and any screen. `CallsAreApiCalls` brings mutual exclusion in
  from `DisplayApiProofs`, `LoopProgress` the loops from `FrameBufferProofs`.
  `RoutineInv` ties a thread outside of the driver to loops at zero. `StoredInv` is
  the heart: the thread in the driver has stored what its loops have passed, and
  since nobody else stores, the laid-over part of `Canvas` and the screen agree on
  it; when the loops are done they agree everywhere, so the return changes
  nothing. Taking the mutex is the one step that applies the drawing.
  `CallsAreFinite` (`PipelineSpec => CallsComeBack`) needs no hypothesis on
  callbacks: it carries `CallBounded` of `FrameBufferProofs` over to the composition,
  with `RoutineInv` for the counters a new call starts from.
* `ImageBufferProofs`: `TypeCorrect`, and `DrawIsFaithful` (`DrawShowsArray`) from
  `PackIsCopy` (for each order the packing function undoes its row of the index
  table) and `BufferIsArray`.

Every invariant, every action property about single steps and all three
refinements that the runs check are proved. Only model-checked: liveness
(`HandoffCompletes`, `ErrorReported`, `DrawingReturns`, `MutexIsHandedOn`,
`NonBlockingReturns`, `DrawnIsDisplayed`), because its proof needs fairness, hence
`ENABLED`, and an induction on the counts below, which are beyond the prover. What
these properties ask of the steps is proved, as a property of its own:

| Liveness (TLC) | What is proved of the steps |
|---|---|
| `HandoffCompletes` | `HandoffAdvances`: without a further fault each step lowers `Distance` |
| `ErrorReported` | `ErrorIsNotLost`: a reported seat1 does not get past its wait |
| `DrawingReturns` | `CallsAreBounded`: each step lowers `Remaining` |
| `MutexIsHandedOn` | `MutexHasHolder`: the holder is in the driver; `CallsComeBack` |
| `NonBlockingReturns` | `CallsComeBack`: each step of a call lowers `CallLeft` |
| `DrawnIsDisplayed` | `CallsComeBack`, for the threads; of the render loop nothing |

What is left to TLC is that a step that lowers the count is always possible
(or its caller waits for the mutex), and that fairness takes it.

## 5. What is not modelled

* The DRM driver: it does not compile (`drm_driver_core.c:268` declares the
  parameter `fd` again, `:424` calls a function that does not exist) and `drm_run`
  is empty.
* More than one display manager or seat2 at a time. The template unit
  `instance-2-display@.service` allows it; its instances would unlink each other's
  objects, and no text says that they may run together.
* Several processes on one frame buffer in `DrawPipeline`: they have no common lock,
  so no canvas of whole calls exists. `FrameBuffer` covers their interleaving.
* The order of frames of the render loop (the model says that a lagging pixel is
  shown at some time, not which others are shown with it), X error handling beyond
  the end of the process, logging, environment variables but `DISPLAY`.
* Address space, heap and residency (leaks, `mlock`), `mmap` failures that the code
  ignores, and that `getenv` and `setenv` of two threads are a data race in the C
  library: each is one step.
* A channel order outside of the enumeration: `get_channel_indices` takes one for
  `RGBA` (`pixels.c:12`), while `pack.c:65` indexes its table with it unchecked.
* A NULL image, for which `fb_draw_image` returns at once (`frame_buffer.c:31`), is
  not told apart from an image without a pixel, which is in the bounds.
* Bindings, Makefile, install and environment scripts, examples and the agent:
  declarations, sequential scripts and callers. The constants of `DisplayApi`,
  `FrameBuffer` and `ImageBuffer` hold what those callers can pass.
* The lookup of `/proc` in `find_pid_by_name` is reduced to its outcome: the pid of
  the one seat1 process, or none.

## 6. Plan

Done, in this order: the seats and their handoff; the shared frame buffer; the
API lock; the drawing loops; the image buffers; screens of other depth; the
queries; the pipeline from the API to the window with its atomic canvas; recovery
of the handoff after failures; the pixel-by-pixel promise to processes without a
lock; proofs of all invariants and the three refinements, and of the steps behind
each liveness property.

Left:

1. `FrameBuffer` for pixels of three bytes (depth 16), as a parameter of the
   module, with the store that spans two pixels. `SharedFrameBuffer` has its reach
   already.
2. Pipelines of several processes on the mapping of `SharedFrameBuffer`, with the
   server replaced between the calls of a process.
3. The DRM driver, once it compiles.
