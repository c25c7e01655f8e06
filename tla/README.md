# MMTT1: a TLA+ development

MMTT ("Multi Multi Touch Touch") watches surfaces with a depth camera, finds blobs inside
registered regions and sends them as TUIO messages over OSC/UDP and WebSockets. It is
controlled by JSON-RPC requests over HTTP, and it hands the outlines of the blobs and the
depth image to FreeFrame display plugins through shared memory.

The specifications here model the parts of the server where order matters: two threads, two
processes, and a state machine driven by both camera frames and commands. Paths below are
relative to `src/src/`; `server` is `mmtt_depth/mmtt_server.cpp`, `sharedmem` is
`mmtt_depth/mmtt_sharedmem.cpp`, `socket` is `nosuch/NosuchSocket.cpp`, `http` is
`nosuch/NosuchHttp.cpp`.

Files named `X.tla` specify, `XProofs.tla` hold the theorems about `X`, `MCX.tla` gives values
to constants that a `.cfg` cannot write. `PROJECT.json` lists for each definition the lines
it models, for each run its properties, and for each property a mutation of the code
(an operator named `Bug...`, never part of a specification) that breaks it.

## 1. The system

| component | state | operations | correct when |
|---|---|---|---|
| Outline buffers (`sharedmem`, `server` 547-747) | five fields of `Outlines_SharedMemHeader`, three buffers of outlines, a named mutex | server: `shmem_lock_and_update_outlines` per frame; plugin: take the next buffer, draw it | no buffer has two roles or leaks, the server always finds one, a drawn frame is whole, the display is never more than one frame late, neither process stops the other |
| Shared memory segment (`sharedmem`) | file mapping, its info block, mutex, memory lock | `open`, `createSharedMem`, `openSharedMem`, `getMemory`, `detach`; the server's `setup_shmem_*` | a server works in memory of its own, a receiver finds it over restarts of both, records stay in their list |
| Lock of the socket list (`socket` 1173-1290) | `h_LoopEvent`, `h_ExitTimer`, `h_Mutex` | `cLock::Request`, `cLock::Loop`, `~cLock` | mutual exclusion, a request ends the looper's wait, nobody is blocked for good |
| Socket list and dispatch (`socket`) | `cList` of sockets and events, per-client send buffers | `ProcessEvents`, `Add`, `Remove`, `RemoveClosed`, `SendDataBlock`, `DisconnectClient` | what a client sends is collected for its own connection wherever its slot moves, messages arrive whole and in order, slots come back |
| HTTP and WebSocket (`http`) | requests being collected, list of WebSocket clients | `Check`, `CollectHttpRequest`, `RespondToGetOrPost`, `SendAllWebSocketClients` | each request is answered once, bundles go to the clients that are connected |
| JSON handoff (`server` 786-803, 1075-1097) | `json_mutex`, `json_cond`, `json_pending`, `json_method/params/id/result` | HTTP thread: `RespondToJson`; main thread: `check_json_and_execute` | each request is executed once and answered with its own result; what `ExecuteJson` uses is not freed |
| Registration (`server` 1796-2249) | `registrationState`, `currentRegionValue`, `_regionsImage`, `_new_regions`, `_curr_regions`, `_savedpokes`, continuous alignment | commands of `ExecuteJson`, `doRegistration` per frame, `registrationPoke` | image and regions agree, session numbers stay where they were, a registration ends |
| Patches (`server` 1493-1955) | patch file, region list, image of the regions | `LoadPatch`, `SavePatch` | what is loaded is what the file says, a failing load leaves things usable |
| JSON commands and parameters (`server` 1119-1430) | `MmttValue`s and toggles | `ExecuteJson`, `AdjustValue` | values stay in their ranges |
| Blob sessions (`server` 2282-2505) | sessions per region, blobs of the frame | `analyzePixels`, `getAvailableSid` | a hand that stays keeps its session, two blobs never share one, a session ends with its blob |
| TUIO and OSC (`server` 2608-2975) | last time sent, frame sequence | `doTuio2`, `doTuio1_25D`, `doTuio1_2D` | the ids listed are distinct, and a client learns that the last hand has gone |
| Main loop, cameras (`main.cpp`, `mmtt_kinect.cpp`) | device handles | `Run`, `Update` | the loop goes on while images or window messages come |
| Display, configuration, logging | - | output and start-up | - |

How they interact. The **main thread** waits for a depth image (`Update`), executes a pending
JSON request, analyses the image, which includes one step of a registration under way, the
update of the shared memory and one `SendTo` per WebSocket client and bundle, and draws. The
**HTTP thread** (`mmtt_json_threadfunc`) calls `NosuchHttp::Check`: `ProcessEvents` waits for
socket events with the socket list locked; a complete request is handed to the main thread
and waited for; the answer is sent and the client disconnected, each under a request for the
list's lock. The **plugin** is another process that shares only the segment and its mutex.
Vendored libraries (cvblobs, freeglut, oscpack, portmidi, zlib, pthreads) and `mmtt.cpp`,
which is compiled out, are outside.

What is hard: the plugin draws without the mutex, and may die or hang holding it; the looper
waits for sockets *with the list locked*, so a sender must make it leave; each thread waits for
the other in two ways; commands of remote clients hit the registration's state machine
between any two frames; `registrationPoke` changes the state its caller then overwrites;
WebSocket clients are addresses of slots that move; two mappings with one name each are
created and opened by processes that come and go.
`hazards` in `PROJECT.json` lists these places line by line.

## 2. Modules

### OutlineBuffers, with FrameMailbox as what it promises

One action per step of `shmem_lock_and_update_outlines`: lock, test of the indexes
(`TestIndexes`), then `SwapBuffers`, `ShiftBuffer` or `GrabBuffer`, `ClearLists`, `FillBuffer`,
unlock, lock again, `TestPublish`, `HandOff`, unlock. Test and update are separate, so that a
section executed *without* the mutex shows. `Lock(p)` is `Acquire(p)` or, when the constant
`LockTimesOut` allows it, `TimeOut(p)`: `lock()` waits 5000 ms and its callers ignore what it
returns. Outlines and points are abstracted to the number of the frame they belong to
(`frames[b]`), `Partial` while the lists are cleared and not filled. The plugin is not in the
repository. Its steps (`WantDisplay` ... `EndDisplay`) follow the fields and comments of
`mmtt_sharedmem.h`: it takes `buff_to_display_next`, frees the buffer displayed before, and
draws after releasing the mutex. It may die anywhere; Windows then passes on the mutex.
`FrameMailbox` is one slot for the newest frame; `ImplementsMailbox` maps the slot to the
frame in `buff_to_display_next`.

The repository itself has a check of this structure, and it says the opposite of what the model
shows: `Outlines_SharedMemHeader::check_sanity` (`sharedmem` 566-597) counts the buffers in use
(`nused`) and those the indexes refer to (`nptrused`) and asserts `nused != nptrused`.
`NosuchAssert` throws when its expression is false (`nosuch/NosuchDebug.h:58`). By `InUseExact` the
counts are equal in every state, the first included (theorem `CheckSanityThrows`), so the
assertion would throw whenever it is reached; `==` must have been meant. Nobody calls
`check_sanity`, so there is no step of the program to model and no run for it.

### SocketLock

`cLock::Request` is `BlockLoop` (ResetEvent), `SetExitTimer`, `GrabMutex`, `AllowLoop`
(SetEvent), the caller's work on the list, `EndRequest`. The looper is `PassLoopEvent`,
`GrabLoopMutex`, one of `WaitTimer`, `WaitSocket`, `WaitTimeout`, then `EndProcessEvents`,
`EndCheck`. The exit timer is off, armed or fired (it resets itself when a wait returns it).
`Senders` are the threads that only make requests (in the program: the main thread);
`LooperRequests` says whether the looper makes them too, as the HTTP thread does when it
answers: only after a socket's event (`WaitSocket`), because `Check` returns at once when the wait
ended by the timer or by the timeout (`http` 239-243).

### JsonBridge, with RequestService as what it promises

`json_mutex` and `json_cond` with the loops around them, step by step; the condition variable
may wake its waiter without a signal, and a signal that finds nobody waiting is lost. A
request stands for its method, parameters and id, a result for the request that was executed.
`RequestService`: a request is asked, performed once, answered with its own result.

### ServerThreads

Composition: the actions of `JsonBridge` conjoined with those of
`List == INSTANCE SocketLock` for two threads. The main thread sends between
`check_json_and_execute` and the next frame; the HTTP thread reads a request in the wait for
socket events, answers when `ProcessEvents` has returned, and makes two requests for the list
(`SendTo`, `DisconnectClient`). `ready` of the lock becomes "some client has sent a request
that was not read".

### Registration

Everything here runs in the main thread; what interleaves is frames and commands. A command
(`StartRegistration`, `Autopoke`, `AlignStart`, `AlignStop`, `Autotiltpoke`, `StopCommand`,
`PatchLoad`, `SetShowRawDepth`) runs between two frames; a frame takes one branch of
`doRegistration` by `registrationState`. States keep the code's numbers: 100-120 start by hand,
199 pokes by hand, 300-320 start of an autopoke, 330 its pokes, 340-359 its result.
`doPokeRegistration`'s loop is one action per poke (`PokeSaved`) with commands kept out
(`poke # 0`).

The image is one row of pixels that crosses the surface: a region is a run of pixels with an
interval as its rectangle, a flood fill spreads over equal neighbours, and every start of a
registration may see any mask. Regions that are not connected on the row, or whose
rectangle's middle lies outside them, do not occur. Patch files are of three kinds:
with rectangles, with an image of the regions, or failing after some regions were read.
A pixel is a byte: `FloodFill` saturates at 255, `PaintRects` keeps the lowest byte of an index.
`DeriveRegions` makes one region of each id that the image has (`IdsIn`, in ascending order by
`Nth`); an id that no pixel has is skipped, and the regions after it move up in the list while
their pixels keep the old value. `LoadMatchesImage` is therefore about patches whose
image has no such gap (`Regular`), and theorem `LoadedImageMatches` says that it is exactly these for
which regions and image agree. Nothing in the code closes the gap; `analyzePixels` only logs
"Hey, g (%d) is greater than number of regions" for the ids at the end.
Entry `i` of a sequence is index `i - 1` of the vector. `disturbed` and `fromFile` are
history: a patch was loaded since the registration started, its pokes came from
`autopoke.txt`.

### SocketList, with Connections as what it promises

`cList` as the array it is: `Remove` copies the last slot over the removed one, and what lies
behind the end keeps its fields, because old addresses still lead there. The HTTP thread is in
`ProcessEvents` (`EnterLoop`, `RemoveClosed`, then one event: `Accept`, or `SocketFails`,
`ReadFails`, `WriteFails`, `HandleSocket` for a socket's FD_READ, FD_WRITE and FD_CLOSE in this
order) or in `Check` with what it returned (`HandleEvents`, then the steps of
`InitializeWebSocket` or of an answer and `DisconnectClient`). The main thread walks through the
WebSocket clients (`SendAllWebSocketClients`): it holds no lock while it reads an entry, and each
`SendTo` waits until the HTTP thread has left `ProcessEvents`. The lock itself is `SocketLock`.
An erased entry keeps its place in the list, marked: an iterator that stands there may read any
address and go on at any entry.

A client connects once, so it stands for its socket handle. Requests are counted in pieces, of
which one read may return any number; a message is two halves, and a send may stop before,
between or after them. `late` and the `client` of an entry are history. What the
specification shows about entries of the WebSocket clients: they go stale in three ways, and the
bundles meant for them are lost or go to another client. The slot is moved by a
`Remove` of another; the socket fails before its FD_CLOSE is handled (`Remove` without
`CloseWebSocket`); or the request and the FD_CLOSE arrive as one event, so that the client is
registered after it has been closed.

FD_READ and a failing FD_WRITE may come in one event: then `Check` is given `pi_RecvMem` that
`Remove` has deleted, at a slot that is now another's (`memory = "freed"`), and
`CollectHttpRequest` appends whatever that memory holds to `_buff_sofar` or `_data` of the connection
there (`http` 86-112, 273). The bytes stay. From then on the client of that connection is in
`misfed`: its request may be found complete at any time, be taken for an upgrade, or never end
(`Finished`, `Upgrade`), and so it may be answered too early, as something else, several times or
not at all. `collected` goes on to count the pieces of its own client only. The properties about the
handling of requests except `misfed` connections; those about slots, messages and entries do not.

`Connections` has no slots: each client has a record with what it has sent, what has been
collected of that, what is left of a message to it, what it has of one, whether its data was spoiled, and whether the
server has shut it down. Every step there is one client's. The step `Spoil` is the one way in which
the end of another's connection may be felt: bytes of deleted memory get into the data. `ImplementsConnections` maps a client in the list
to the fields of its slot (`SlotOf`) and of its end; the capacity is `MaxSockets - 1`. So a
`Remove` that moves a slot must be the end of one connection and nothing to any other; data may
be counted for the client that sent it only, and not after the shutdown; a message may begin only
where none is left; only a client whose request is complete, or whose data is spoiled, may be shut
down, and only one that has left may be dropped. What a message says is left open.

### Sessions, with MCSessions

The frame's way through the main loop: `ProcessDepth` or `WindowMessage` (`Update`), at most one
command, `SwapBuffers`, then `MatchSession` for each session in the order of `analyzePixels`,
`ComputeDepth` for each blob, `SendTuio`. The two frame buffers are there because the code swaps
them even when the camera has written nothing, so an old frame comes back. A blob is its region,
its place and one depth; how it is found in the pixels is `CBlobResult`'s matter, and so is the order
in which it gives the blobs that pass the filter (`Passes`, `Orders`). Several blobs of a frame may
have one centre. `White` and `HasDepth` are the two uses of the depth range: which pixels are
white, and whether analyzePixels counts any of them for a blob (`server` 2423-2444). They differ in
two ways, and a blob that has no depth and no session from before keeps -1.

- A command or a patch changes the range between the two (`fresh` says that none has).
- The blob is `thin`: the loops at 2428-2443 go over `GetBoundingBox`, whose width and height are
  differences of coordinates (`cvblobslib/src/blob.cpp` 533-536) and leave out the last column and the
  last row. The box of a blob one pixel wide or high is empty, that of a single pixel, which has no
  contour, is 0x0 at the image's corner (503-512). Such blobs have no area, so the filter takes
  them out (2305-2311), unless `blob_filter` or `blob_minsize` is 0, which both a command
  (`mmtt_set`) and a patch can set: `val_blob_filter` is FALSE in the model for either.

`doTuio1_25D`, `doTuio2` and the outlines use `_sessions[-1]` for a blob without session (`Crash`):
`EveryBlobHasSession` says that nothing but these two leads there. The comment at `server` 2406-2407,
"Any that are not attached to an existing session id will be attached to a new session", holds of
the other blobs only. `doTuio1_2D` does not use the session and lists such a blob under the id before the
first of its region, several under the same: `TuioIdsDistinct` is about all other blobs. Messages are
datagrams and any may be lost (`lost`).

### SharedMemSegment

Two named mappings, who created them and who has them open. `CreateInfo`, `InitInfo`,
`CreateSharedMem`, `XInit` are `setup_shmem_for_outlines`; `Construct`, `GetMemory`,
`CheckDetach`, `OpenSharedMem`, `Destroy` are a receiver's calls; `Close`, `Reopen`, `Release` are
`detachInternal`, which opens the mapping it has closed to see whether it is still there.
Servers never delete their `MMTT_SharedMem`, so they end by `Kill`. Every server is started
once; a restart is another element of `Servers`. The specification has the server
give up shared memory for good when it meets a mapping that a receiver still has, or has only
opened again in `Reopen`: `setup_shmem_for_outlines` does not try twice.

### OutlineLayout

The byte offsets of outlines and points (`calcOutlineOffset`, `calcPointOffset`) and the size of
the segment, with theorems only. There is no run: these are functions without state.

## 3. Runs

| run | configuration | shows |
|---|---|---|
| `outlines` | `OutlineBuffers_safety.cfg` | locks granted: `InUseExact`, `BufferAvailable`, `DisplayIntact`, `AtMostOneBehind`, the inductive `IInv`, refinement of the mailbox, `FramesReachDisplay` |
| `outlines_hung` | `OutlineBuffers_hung.cfg` | the plugin may stop for ever with the mutex: the server goes on (`ServerNotStopped`) |
| `outlines_timeout` | `OutlineBuffers_timeout.cfg` | violation of `LockedAccess` |
| `socket_lock` | `SocketLock_prompt.cfg` | one requesting thread: exclusion, every wait a request depends on is ended by the timer, the request is served without any socket event or timeout |
| `socket_escape` | `SocketLock_escape.cfg` | violation of `WaitEscapes` when the looper makes requests too |
| `threads` | `ServerThreads.cfg` | both threads and both locks: `ParamsAlive`, `OneLockAtATime`, refinement of `RequestService` and of the lock's specification, requests are answered, both loops go on |
| `registration` | `Registration.cfg` | the inductive `IInv`, `FinishMatchesImage`, `LoadMatchesImage`, `SidsFollowPlace`, `RegistrationEnds` |
| `registration_sids` | `Registration_sids.cfg` | violation of `SidsFromFile` |
| `registration_terminated` | `Registration_terminated.cfg` | violation of `StaysTerminated` |
| `sockets` | `SocketList.cfg` | what a client sends stays its own (`IInv`), refinement of `Connections`, `RequestsHandled`, `StaleOnlyByMove`, and slots come back (`SlotsReleased`) |
| `sessions` | `Sessions.cfg` | `IInv`, `HandsKeepTheirIds`, `EveryBlobHasSession`, `TuioIdsDistinct`, and the client learns that the last hand has gone (`GoneIsTold`) |
| `segment` | `SharedMemSegment.cfg` | one server at work in its own mappings (`IInv`), `SameServer`, and a receiver that keeps asking finds the segment (`ReceiverAttaches`) |

Bounds, and why they are enough:

- Outline buffers: `NumBuffs = 3` is the code's `NUM_BUFFS`. `MaxFrame = 4` lets each buffer take
  each role and the first be used again; the indexes, not the frame numbers, decide what
  happens. `MaxCrashes = 1`: after a crash the plugin is in a state an uncrashed one can be in
  except for the buffer it held, and the proofs cover any number.
- Socket lock: one sender, because only the main thread sends besides the looper. The state
  space (130 states) is the whole of it; no bound is used.
- Threads: two requests, so that one waits in its socket while the other is handled, and
  one WebSocket client per bundle, so that the main thread is at the list at any moment of
  the HTTP thread's round.
- Registration: five pixels hold two separate regions with mask or background at any place
  and in any combination; two commands put one command into the registration started by
  another (start-up with `initialalign` counts as one). `OkayEnough = 1` instead of 10 lets
  continuous alignment succeed, fail and succeed again. `MaskId = 22` is the code's.
  `MCRegistration` has patches with one and two regions, regions not in order, a session
  number that marks background, an image, one with an id missing, and a failing file, and an `autopoke.txt` that pokes
  the background.

- Sockets: one WebSocket client and one POST client share three slots with the listening socket,
  so each can be the last slot that is copied over the other, and a third connection would be
  refused. A request is a header and a body, the WebSocket client sends one piece after its
  upgrade, and one bundle is sent: it can meet every step of the HTTP thread. Either client can be
  the one that deleted memory is read into while the other is removed. A GET is a POST
  without the second piece; `Getters` is empty in this run. 299,724 states.
- Sessions: region 2 has two places and region 3 one, so sessions compete within a region while
  another has its own; frames of up to two blobs appear, move, merge and vanish without a bound
  on their number. `MCBlobs`: two depths, so that a change of the range leaves some blobs without a
  depth, and a thin blob that has its centre with another, so that a frame may have two blobs and
  the sessions after it two with one centre. 1,098,360 states.
  The ids of region 2 end where those of region 3 begin (`MCFirstSid`): a single wrong id collides.
  Streams 25D and 2D show that the second is told less than the first. Without
  `_do_sharedmem`, because with it every blob without a session crashes at once.
- Segment: two servers are a server and its successor or rival, two receivers one that detaches
  while the other attaches; nothing else is bounded. Three servers and two receivers were also
  checked for the safety properties, which the proofs cover for any number.

Deadlock is checked except in `ServerThreads.cfg`, where closing the window ends both threads
(`Quit`), in the registration runs, where the server rests when nothing is under way, in
`Sessions.cfg`, where the server may crash, in `SharedMemSegment.cfg`, where all processes may have
ended, and in `SocketList.cfg`, where all clients may have come and gone.

### Fairness

- `OutlineBuffers`: the server's loop and the plugin's host run on (WF); a wait for the mutex that
  could again and again be granted is granted (SF), because Windows queues waiters. The hung
  run assumes nothing of the plugin. Crashes are never forced.
- `SocketLock`: every thread takes its next step, and an armed timer fires. Waits are WF only, and
  nothing is assumed of sockets or of the event timeout: the point is that the timer suffices.
- `ServerThreads`: the main loop goes on, which assumes that depth images or window messages keep
  coming (`Update` waits for them without limit); waits for the mutexes and the loop event are SF;
  a client that has sent a request is read from eventually (the looper looks at its sockets in
  rotation).
- `Registration`: frames keep coming (WF of `Frames`). Nobody has to send a command or hold a hand
  over the surface, so a registration by hand may rest in 199.
- `SocketList`: the HTTP thread goes on (WF of `CheckStep`); a socket that is signalled again and
  again is handled (SF), because the wait starts at the socket after the last one; a client's
  system answers a shutdown with FD_CLOSE (WF of any client's answer, each has one). Nobody has to send, read or leave.
- `Sessions`: only in the time when nothing touches the surface (`calm`): the loop goes on, time
  passes, and a client does not miss every datagram that is due (SF).
- `SharedMemSegment`: a receiver calls `getMemory` again and again, and ends what a call began (WF).
  Servers may stop anywhere.

### What the violations show

- `LockedAccess`: the header says its indexes "need to be locked" whenever they are looked at or
  changed; after a lock that timed out the server does both without it. The safety theorems of
  the buffers therefore assume `~LockTimesOut`; `TypeCorrect` and `ServerNotStopped` do not.
- `WaitEscapes`: with two requesting threads, the `SetEvent` of one undoes the `ResetEvent` of the
  other while the exit timer, shared by both, may already be spent. The looper then waits for
  events with the list locked while the other thread wants it, and only an event or the
  timeout lets it go on. In the run's trace the main thread has reset the event, set the timer and
  waits for the mutex; the HTTP thread, which has handled a socket's event, makes a request of its
  own, gets the mutex first, and the `SetEvent` at its end lets the loop in again. The looper does go on, so `RequestAnswered` and `MainLoopContinues` hold in
  `threads`; the main loop may stall for the length of the timeout.
- `SidsFromFile`: `finishNewRegions` copies session numbers by index whenever the number of regions
  is unchanged. That is right after an autopoke (`SidsFollowPlace`), and wrong for a patch
  file, whose own numbers are then lost.
- `StaysTerminated`: a poke that meets the first region again terminates the registration, but
  inside `doPokeRegistration` the caller sets the state to 340 afterwards. Image and regions
  stay consistent (`FinishMatchesImage` holds), but the registration finishes twice.

## 4. Proofs

All proofs hold for every value of the constants allowed by the named assumptions.

- **OutlineBuffersProofs**, for `NumBuffs >= 3` and any bounds. `TypeCorrect` holds with timeouts.
  The rest assume `~LockTimesOut`. `IInv` strengthens the buffer properties in two ways they
  need. `LockInv`: a process is between lock and unlock exactly when it owns the mutex, and what
  it tested there still holds at the update. `FramesInv`: the newest complete frame is
  waiting, on display, or in `buff_being_constructed`, and in the last case its predecessor is the one for
  display. With three buffers and three roles, `InUseExact` gives that one is free when one is
  grabbed. Each action is checked against each conjunct (`LockStep`, `RolesStep`, `FramesStep`);
  `BuffersSafe`, `DisplaySafe`, `Fresh` follow, and `Refinement` maps `TakeNext` to `TakeFrame`,
  `HandOff`, `SwapBuffers` and `ShiftBuffer` to `PublishFrame` or a stutter.
- **SocketLockProofs**, for any set of senders, with or without requests of the looper. The
  invariant: the owner of the mutex is the thread at a locked step, and a blocked loop has a
  thread between `ResetEvent` and `SetEvent` (`LoopReleased`: no lost permission). With a single sender and
  no requests of the looper, `SoleRequestEscapes` proves `WaitEscapes`: from the
  sender's reset to its set the loop stays blocked, so a wait ended by the timer is not
  followed by another. This is the assumption `socket_escape` shows to be needed.
- **ServerThreadsProofs**, first part, about `JsonBridge` and for any set of requests. `MutexInv`, `PendingInv` (a pending request is the one
  the HTTP thread waits for, executed at most once), `WakeupInv` (a finished request has been
  signalled or is about to be): `HandoffInvariance`; then `ParamsSafe` and the refinement of
  `RequestService` (`HandoffRefinement`).
- **ServerThreadsProofs**, second part: each step of the composition is a step or a stutter of the handoff
  (`BridgeRefinement`) and of the lock (`LockRefinement`), so the invariants above carry over;
  `ThreadsInvariance` relates the position of each thread in both, and `LocksApart` concludes that
  no thread wants one lock inside the section of the other. `BridgeInvariance` and `ListInvariance` state
  the invariants of both parts for the composition.
- **RegistrationProofs**, for rows of any width from three pixels on, any mask id below 255, any patch
  files, pokes and number of commands. `IInv` is stronger than what the regions in use must satisfy
  at the end, because a registration is judged long after it has begun:
  `PokedRegionsPainted` says in every state of the poking that a pixel's value is the index of the new region
  that covers it and that the next value is the next index (a flood fill may saturate at 255, which
  is above every id); `PokesFollowed` says that as long as each poke has found a region, the k-th new
  one is around the middle of the k-th current one, or, when a poke has stopped the registration from within
  `doPokeRegistration`, the current regions are the new ones found so far; `StatesInv` that the
  background is painted with 1 when the mask is taken; `BackgroundFirst` that the two background entries have
  session number 0, so that at most `Len - 2` points are poked. Each is followed
  through each action (`CommandStep`, `FrameStep`, `PaintedStep`, `FollowedStep`). A step that ends a registration is a
  `StopRegistration` that leaves the image alone (`EndsByStop`), so `EndedRegistrationMatches` and
  `AutopokeKeepsSids` follow: as many new regions as current ones means that every poke found one,
  which is why copying session numbers by index is right there. `LoadedPatchMatches` needs no history: it
  follows `LoadPatch` twice, from any image and any regions in use.
  `LoadedImageMatches` counts: the k-th of the ids is `k + 1` for every k exactly when none is missing
  (`NthOfInterval`), and otherwise the greatest is beyond the end of the list. The lemmas before them
  establish what `Min`, `Max` and the k-th element of a finite set of pixels are (`LeastElement`,
  `GreatestElement`, `NthElement`); induction is replaced there by counting an initial segment
  of the naturals (`InitialSegment`).
- **SocketListProofs**, for any clients, any number of slots and any header and message counts.
  `IInv` is stronger than the list itself needs. `SlotsInv`: an address once stored leads to the
  slot a client has now or to one above it, because `Remove` moves clients down only; with it the
  entries of `EntriesInv` never point at a client that is not theirs from below. `RestInv`: what
  a client has of a message and what is left in its slot are one message or none (`RestStep`
  computes it for every place a send may stop at). `CheckInv`: between an event and the answer the
  HTTP thread is at the connection the event was for, or at what follows a removed one, which is then
  `misfed`. `DataWithOwner` says of every connection that the pieces of its own client are all there,
  `RequestsHandled` and the refinement what follows from it where no other bytes are among them. Each
  conjunct is followed through `Remove` (`RemoveStep`), the new slot (`AcceptStep`), a send
  (`SendToStep`), an event (`HandleSocketStep`) and what `Check` does (`HandleEventsStep`);
  all other steps leave the slots alone (`QuietStep`). `RequestsHandled` is inductive only together with
  `IInv`, and is needed by it: it says that a request cannot become complete twice. `InOnePiece`
  follows from `RestInv`, `EntriesStale` from `EntriesInv` and `StaysOwn`. `SocketsRefinement`
  first replaces the `CHOOSE` of the mapping (`SeenNow`: by `ListInv` a client is in one slot), then shows
  that a step at one slot leaves the other connections as they are (`AtOneSlot`, `Untouched`) and what it does
  to its own (`AcceptConnects`, with the number of connections counted in `HeldCount`, `ClientConnection`,
  `SendToStarts`, `HandleSocketContinues`, `HandleEventsCollects`, `DisconnectShuts`, `RemoveDrops`). It needs one
  more invariant, `LeftInv`: a slot is marked as closed only after its client has left, and no more is
  read than was sent.
- **SessionsProofs**, for any finite number of blobs, any regions, depths and streams. `IInv` contains what the four loops of
  `analyzePixels` leave to the next one: `MatchInv` (while sessions look for their blobs, an id
  below theirs is free only if its session and they themselves have no blob left), `HandsInv`
  (where every session has a place of its own and finds a blob there, those matched so far are still
  the old ones), `DepthInv`
  (while the depth range has not changed, every blob passed by is thin or has a session, and only a
  thin one that was not filtered, or a change of the range, leads to the NULL session). That ids are the lowest free ones follows by counting: the
  ids of a region are as many as its blobs. `TuioIds` bounds them with that.
- **SharedMemSegmentProofs**, for any servers and receivers. `IInv` is inductive as it stands: what a
  server has mapped between `createInfo` and the end of its setup is its own. `OneServerAtWork`
  and `SameServerOrTold` follow.
- **OutlineLayout** holds its own theorems, for every `noutlines_max` and `npoints_max`: records within
  the limits of `addOutline` and `addPoint` do not overlap and end inside the segment
  (`OutlinesApart`, `PointsApart`, `RecordsFit`); the first record past a limit, which the code
  writes without a test, lands in the next buffer, in the points or behind the segment
  (`OutlineTooMany`, `PointTooMany`); the offsets that `xinit` stores are all 0 (`XinitOffsets`);
  no reader in `src/` uses them.

Only model-checked: the liveness properties, since fairness and ENABLED are beyond the prover
(`FramesReachDisplay`, `ServerNotStopped`, `RequestServed`, `RequestAnswered`, `MainLoopContinues`, `HttpLoopContinues`,
`RegistrationEnds`, `SlotsReleased`, `GoneIsTold`, `ReceiverAttaches`). Every invariant and action property of a
passing run is a theorem. What a run shows violated has no proof, of course: `LockedAccess`, `SidsFromFile`
and `StaysTerminated`; `WaitEscapes` has one under the assumption that excludes the counterexample.

## 5. Not modelled, and the plan

All modules of the plan are written: `OutlineBuffers` with `FrameMailbox`, `SocketLock`, `JsonBridge` with
`RequestService`, `ServerThreads`, `Registration`, `SocketList` with `Connections`, `Sessions`, `SharedMemSegment` and
`OutlineLayout`; all have proofs. What is left, in order:

1. Saving a patch and the parameters: what `SavePatch` writes against what `LoadPatch` reads, and the
   limits that `AdjustValue` keeps. `Registration` has the loading only.
2. `shmem_lock_and_update_image`: when `getMemory` gives NULL it sets `_sharedmem_image` to NULL and
   returns with the segment locked (`server` 750-756). `draw_depth_image` calls it again with the next
   image, as `_do_sharedmem` stays set (972-974), and the assertion at 749 then throws in the main loop.
   For the server `getMemory` gives what `createSharedMem` has mapped; readers that would wait for the lock
   are outside `src/`.

Of `SocketList`: `Listen` and `Close` (start and end of the program), `ConnectTo` and FD_CONNECT (the
server opens no client sockets) and `ProcessIdleSockets` (compiled out) are left out. The rest of an
answer that blocked before `DisconnectClient` is never sent, since FD_WRITE is ignored from then
on; the model does so too, and no property asks for such an answer to be whole. Of
`Sessions`: only the first stream is told for sure that the surface is empty, because the streams share
`_tuio_last_sent`. Of `SharedMemSegment`: `resize` and the name's post-fix have no caller.

Left out for good: image processing, depth and threshold computation, camera drivers, drawing,
the text of messages, configuration parsing and logging. In `Registration`: the automatic
registration of depth, the display of the region map, parameters of a patch other than
`showrawdepth`, and coordinates of `autopoke.txt` outside the image.
