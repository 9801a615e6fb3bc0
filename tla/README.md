# TLA+ specifications of otium

otium is two programs in one repository: `os/`, a small operating system (a
microkernel with processes, synchronous IPC and a page manager, user-space servers for
graphics, keyboard and files, a Tcl shell and an editor, running on RISC-V and as
WebAssembly), and `lang/`, a Lisp with a bytecode machine and three garbage
collectors. This directory models the parts of them whose correctness depends on the
order in which things happen. Paths below are relative to `src/os/ot/` and `src/`.

## The system

| Component | Code | State | Operations | What makes it correct |
|---|---|---|---|---|
| Process table, scheduler | `core/process.cpp`, `core/main.cpp`, `core/startup.cpp`, `core/platform/platform-{wasm,riscv}.cpp` | `procs`, `process_pids`, `proc_pid_counter`, `current_proc`, `scheduler_next_process`, each process' stack | create, spawn, exit, clean up, shut down, yield, switch directly | pids name one process for ever; only runnable processes run; the kernel stops only when nothing can run; every runnable process gets its turn |
| Synchronous IPC | `core/platform/user-wasm.cpp`, `handle_syscall` in `platform-riscv.cpp`, `lib/ipc.hpp` | `pending_message`, `has_pending_message`, `blocked_sender` (the lock), `ipc_wait_queue`, `pending_response`, `comm_page` | send, recv, reply | a reply, and its page, reach the caller whose request was handled; requests are served in order, once; no caller is forgotten |
| Page manager | `core/memory.cpp` | `page_infos`, `free_list_head`, `known_memory_table`, `mem_stats` | allocate runs, free a process' pages, lock known memory | no page lost, shared or handed on with data; counts agree |
| Generated stubs | `user/gen/*` | the request at hand | the server's loop, the client's calls, shutdown | each call is one request and one response |
| Graphics server | `user/graphics/impl.cpp` | `apps`, `active_app_index`, `next_app_id` | register, unregister, flush (reaps), should_render, handle_key | ids are 1..n, the active application is registered, an application can always be made active |
| In-memory filesystem | `user/fs/impl-memory.cpp` | inodes, children, handles | open, read, write, close, create, delete, list | a tree without duplicates; handles name what they were opened for |
| Device drivers | `user/virtio/virtio.hpp`, `user/*/backend-virtio.cpp`, `user/fs/virtio-disk.cpp`, `user/fs/fatfs-diskio.cpp` | rings, indices, command pages, buffers | submit, wait, poll, re-post | every buffer belongs to the driver or the device; an answer is taken for the command it answers |
| Keyboard server | `user/keyboard/*` | modifiers, event buffers | poll | keys in order with the modifiers of their time |
| Other filesystem servers, file abstraction | `user/fs/impl-{onefile,fat,wasm}.cpp`, `lib/file.cpp` | storage of others | as above | - |
| Programs | `user/prog*`, `user/tcl.*`, `user/edit.*`, `lib/*` | their own | system calls | - |
| Language tables | `lang/src/otium.c` | entries, index, tombstones | get, put, delete, grow | an ordered map, whatever collides |
| Language namespaces | `lang/src/otium.c` | vars, references, loaded and loading flags, a cache in each symbol | define, resolve, in-ns, require, reload | resolution has one answer; loads end cleanly; private stays private |
| Language conditions | `lang/src/otium.c`, `ot-gc-trace.inc` | lists of handlers, restarts and params; the unwinding noted | five special forms, signal, raise, restart, quit, interrupt | the lists are those of the forms under way; every unwinding arrives |
| Language machine | `lang/src/otium.c` | frames, bytecode | reading, compiling, running | - |
| Collectors | `lang/src/ot-gc-{gsgc,gen,semi}.c` | spaces, remembered objects, weak list | allocate, collect, write barrier | no pointer to what is gone or has moved |

How they interact. A program reaches the kernel only through system calls (function
calls on WASM, `ecall` on RISC-V), and everything else through IPC: a client looks a
server up by name, writes large arguments into its comm page and calls `ou_ipc_send`,
which blocks it; the kernel copies the page to the server, and copies the server's page
back with the reply. Processes are scheduled cooperatively: a system call runs to the
point where it switches stacks, and nothing else runs meanwhile. Hence the hard
behaviours of the kernel: what other processes do between a send and its reply, what the
exit of one party leaves to the others, how the wait queue and the lock change hands,
which page is copied when, and what a stack finds when it is resumed. Devices run on
their own beside their drivers. The language is one thread, but a host may interrupt it
at any time, a collection may come at any allocation, and a condition, a restart or a
quit may leave any form.

## The modules

Kernel and services:

- `Kernel` models the process table, the scheduler and IPC. The programs are left
  open: a process that runs may make any system call. `procs`, `process_pids`,
  `proc_pid_counter`, `current_proc` and `scheduler_next_process` are the variables of
  the code; `resume` says where each process' stack continues (in the program, in a
  send or in a recv), `yielding` that the running process has left its stack and the
  switch is next, and `kernel` whether the kernel is up. One action is one system call,
  up to the point where it switches: `IpcSendQueued`, `IpcSendDirect`, `IpcSendBlocks`
  and the three failures are the paths of `ou_ipc_send`, `IpcSendReturn` what it does
  when its stack is resumed; `OuIpcReply` is all of `ou_ipc_reply`, the copy back, the
  response, the activation of the next request, the wake-up and the switch. `Schedule`
  is the switch: on WASM the scheduler loop with its clean-up (`process_exit`) of a
  process that has terminated, on RISC-V `yield` and `process_switch_to`, where nobody
  cleans up. The two platforms have the same system calls but for that.
- `Services` puts the programs that ship on top: servers that run the generated
  loop (receive, handle, leave a result in the comm page, reply), applications that
  write their comm page and call. Every action is an action of `Kernel` taken by a
  program in the position to take it, with the program's own state: the copy of the
  message a server handles, an application's outstanding call. `Failures` lets a server
  exit in a handler (`ou_malloc` exits a process that runs out of memory) or be told to
  shut down.
- `Rpc` is what the services promise: a call, an answer in the order of the calls,
  a return. `Services` implements it under the mapping `inboxBar`, `callBar`: a
  server's inbox is the request that holds its lock and then its queue; a call is
  waiting while it is registered there and answered afterwards.
- `Memory` models the page manager: the free list as the sequence of its pages,
  the owner of every page, the known regions, the count of allocated pages, and which
  pages hold data.
- `Graphics` models the graphics server and the loop of the applications that share
  the screen. One action is one request with its whole handler, the order of requests
  being free; `pc` says where an application is between them: asking, in a frame, having
  passed a key on, quitting, or dead without having unregistered. `Removed` is what
  `handle_unregister_app` and `reap_dead_processes` do alike: renumber, reset
  `next_app_id`, and make the last application active if the active one is gone.
- `MemoryFs` models the in-memory filesystem server: inodes with their children, the
  handle table with its reused slots, `open` with all its paths, and clients that close
  a handle again or never. A path is its components and whether it was spelled too long.
  The second root inode that `proc_filesystem` pushes is never found and left out.
- `Tree` is what the filesystem promises: each path names one file or directory
  whose parent is a directory. `MemoryFs` implements it under `treeBar`, which looks up
  every path.

Devices:

- `VirtQueue` is the split ring of `virtio.hpp` as operators on a queue value:
  descriptors, the available and the used ring, and the four free-running counters,
  which count modulo `IDX_MOD` and wrap. The device's half is external; it consumes what
  is available and uses what it consumed, in order.
- `Keyboard` is the driver over its event queue: posting, one poll with its three
  outcomes, the modifiers; the device fills posted buffers or loses the event.
- `KeyStream` is what a keyboard promises: keys in the order in which they were pressed,
  each with the modifiers down at that time; `Keyboard` implements it under `streamBar`,
  the events given back and not taken, and `heldBar`. The code keeps one flag for the two
  keys of a modifier, so it is up once either of them is released: `KeyStream` promises
  that and no more, and the run has both shift keys.
- `Gpu` is the graphics driver: one command page and one response page for all
  commands, the script of commands of set-up and flush, and the wait that ends by an
  answer or by its unsigned countdown, which wraps when it is tested at 0. The device may
  refuse any command: set-up is then given up, which is only logged, and the program
  draws and flushes all the same; a flush returns at the command that was refused.
- `Disk` is `disk_read` and `disk_write` over `do_sector_request`: a transfer is cut
  into sectors, each a chain of three descriptors over one request buffer, and the
  device may fail any of them.

Language:

- `Table` is the table of `otium.c`: entries in the order of insertion, an index with
  open addressing and tombstones, compaction and growth in the middle of a put, and
  keys whose hash is their address. `OrderedMap` is what it promises.
- `Namespaces` has definitions, references, the cache of each symbol, `in-ns`, and
  `require` with loads inside loads, failures and reloading. A circle fails, but for one
  through a namespace that is loaded already and required with `:reload`, which succeeds.
- `Conditions` has the forms under way as one stack: calls, `try`, `handler-bind`,
  `restart-case`, `with-params`, `unwind-protect` and the host's break loop. `unwind` is
  the VM's note of what it unwinds for and whether code is being unwound; each list of
  the VM is the sequence of its frames. The walk over the handlers sets the list to the
  frames beyond the one that runs, as the code does, and `stale` are the frames a
  collection did not see meanwhile. A walk is begun by `signal`, by `error` or by
  `string->number`, whose reading raises; the last clears whatever comes back from it.
- `Heap` is the gsgc collector: the age of each object, what is remembered, the program's
  roots, the weak list of host objects, and minor and full collections that may come
  whenever the program runs. What a collection finds is defined as the least closed
  set that contains the roots, without recursion.

Proofs are in `KernelProofs`, `ServicesProofs`, `GraphicsProofs`, `MachineProofs`
(`Memory`, `MemoryFs`), `DeviceProofs` (`Gpu`, `Disk`, `Keyboard`), `TableProofs` and
`LangProofs` (`Heap`, `Namespaces`, `Conditions`); `SetLemmas` has what several of them
need about minima, maxima, ranks and remainders. `MCKernel`, `MCServices`, `MCMachine` and
`MCLang` give the constants their values. Definitions marked "Mutant" are changed copies
of the definition below them, each the bug that a property is there to catch.

Components that share no state are checked in one run, one at a time: in `MCKernel`,
`MCMachine` and `MCLang` the variable `part` says which one takes the steps, and the
others stay where they began. No interleaving is lost: a step of one part neither reads
nor writes another part's variables.

## What the runs check

| Run | Parts | What it shows |
|---|---|---|
| `MCKernel_spawn` | kernel on WASM, kernel on RISC-V (`Riscv`), graphics | pids are unique and never reused, queues bounded and behind a lock, only runnable processes run, a caller is woken only by the process it has called, by its reply or its exit, that the kernel ends for one of two reasons only (`EndsWhenIdle`); the graphics registry, who keeps registration and screen, and that on WASM the dead are reaped while somebody draws |
| `MCServices_safety` | one server, two applications and what they spawn, with comm pages | callers are registered once, a handler is undisturbed, replies and pages match their calls |
| `MCServices_calls` | one server, three applications, RISC-V | refinement of `Rpc`, every call returns, nobody starves |
| `MCServices_isolation` | two servers that may fail, two applications | a failure is contained and never answers a call wrongly while the server is there |
| `MCMachine_machine` | page manager, keyboard, graphics driver, disk, in-memory filesystem | pages accounted for, cleared and exclusive; event buffers accounted for, refinement of `KeyStream`; a flush whose commands are accepted shows the frame, and a refused one leaves nothing behind; transfers are whole; directories sound, handles true, refinement of `Tree` |
| `MCLang_lang` | tables, namespaces, conditions, gsgc heap | keys are found, refinement of `OrderedMap`; caches fresh, loads sound, private vars private; lists follow the forms under way, unwinding sound, every unwinding arrives; no pointer to what is gone |
| `MCKernel_orphan`, `MCServices_undefined`, `Graphics_frozen`, `Gpu_late`, `MCLang_roots`, `MCLang_identity` | - | violations, see below |

Bounds, and why they are enough.

- Kernel: three slots are idle and two processes, on either platform; `MaxPid` 5 lets
  slots be reused. Two processes suffice for a request queued behind a lock, since a
  caller whose server was switched to directly stays runnable and may call again; three
  applications are the fewest that put two different callers in one queue, and
  `MCServices_calls` has them. One or two arguments tell a caller's request from
  another's, and pages are tagged with the caller and the argument, so a page copied at
  the wrong time differs.
- Graphics: four applications over three slots fill the table and use a slot again; ids
  and slots then differ. A key may ask for any id and one more than there are.
- Memory: eleven pages hold the page infos, idle's pages, a framebuffer, two processes
  and runs of two pages.
- Rings: four descriptors and counters modulo 8, so that the counters wrap and the ring
  wraps twice as often, as 2^16 does over the code's size; three event buffers leave one
  descriptor never posted. `Patience` 3 separates the first spin, the last and one
  between. Two sectors and transfers of one or two let a transfer fail in its middle or
  run off the end.
- Files: two names, two levels, three inodes: a directory, a file in it and one made
  again after a deletion; two handles over two slots fill the table and use a slot again.
  Names are symmetric: nothing tells them apart. Files are opened to read, to write and
  to write anew. File offsets are far from the word size, so that `offset + length` does
  not wrap.
- Tables: two keys with one hash, one that starts at the same slot with another, and one
  that hashes by address (moved in `MCLang_identity`'s counterexample); two to four
  entries grow the index once and compact it.
- Namespaces: the core, the user's and one more, two of them loadable, one symbol: the
  fewest for a circle and for a reference that shadows and is shadowed.
- Conditions: four forms under way, two handlers and two params bound at a time, by one
  form or by two: a handler inside a handler's extent with a cleanup or a break loop
  between them, and a later binding's expression that runs under the earlier one.
- Heap: two objects and a wrapper, one year of youth, room for one remembered object, so
  that the table of remembered objects overflows.

Deadlock is not checked: the kernel may end, programs, clients and devices may stop
calling, and the bounds stop the rest.

Fairness. In `Services` (`FairSpec`) the switch, a server's next step and a caller's
return are weakly fair: a process that runs goes on running. An application is strongly
fair to yield or exit: the programs' main loops call `ou_yield` between rounds of calls.
Without it two applications that only ever call switch to servers and back and nobody
else runs. In `Graphics` (`GraphicsFairness`, also in `MCKernel`) an application's next
request is weakly fair, which `NobodyStarves` justifies; that somebody starts a program,
presses a key or dies is never assumed. The other runs check safety and need none;
`UnwindsArrive` is an action property: it says at which steps an unwinding may end.

## What the code does otherwise than it says

- `orphan`: "Release locks and wake waiting senders" (`core/process.cpp:229`); senders
  that wait for the process that exits are not woken.
- `undefined`: on RISC-V the pid of an exited process is still found, and
  `process_lookup_by_pidx` returns null for it, which the send follows
  (`platform-riscv.cpp:219-222`).
- `frozen`: "If the active app dies, the last remaining app becomes active"
  (`os/agent-docs/graphics-apps.md:85`); it does at the next flush, and with the active
  application dead `should_render` tells everybody not to draw, so nobody flushes.
  Programs that run out of memory, or fail to load the font, after they registered exit
  that way.
- `late`: the wait for the GPU tells its two ends apart by `timeout == 0`, after a
  countdown that has wrapped (`user/graphics/backend-virtio.cpp:73-83`): running out of
  patience is taken for an answer, with the zeroed response page as the result; and an
  answer on the last spin is taken for a time-out, so that its used entry stays in the
  ring and ends the next wait at once. Set `Late` to see either.
- `roots`: while a handler runs, the walk over the handlers has set the list to the
  frames beyond it (`lang/src/otium.c:1281`), and the collectors trace only what the list
  reaches: functions of inner handlers that have declined are moved under them. Confirmed
  with a build of `lang/`.
- `identity`: buffers, functions, natives and host objects hash by address
  (`otium.c:494`), where the specification promises "a stored id, never an address"
  (`lang/agent-docs/spec.md:199`): a key is not found after a collection. Confirmed with a
  build of `lang/`.

Also seen while modelling, without a run of their own.

- Kernel: on WASM a caller that switched to its server directly stays runnable, and if the
  server exits in its handler the call returns the response of an earlier one
  (`ReplyUnlessServerGone` excludes it); a lock granted in `process_exit` leaves a
  receiver in `IPC_RECV_WAIT` with its message pending (`process.cpp:262`); only the first
  queue entry of a process that exits is removed (`process.cpp:275`); `ou_proc_is_alive`
  is true of terminated processes on RISC-V; `kernel_spawn_process` panics on a full table
  where its declaration promises `PID_NONE` (`kernel.hpp:204`, `process.cpp:168`); on
  RISC-V the kernel ends when the process in slot 1 does, which is the graphics server in
  builds that have one (`process.cpp:186`).
- Memory: `page_allocate` finds runs in list order only, and the pages of a process that
  exited are on the list in descending order, so that a run may not be found though it is
  free (`memory.cpp:136`); a known region is neither cleared nor resized between holders
  (`memory.cpp:308`).
- Graphics: the server takes nine applications where its document says ten. It asks
  `ou_proc_is_alive`, so that on RISC-V, where terminated processes count as alive, nobody
  is ever reaped; "Dead processes are automatically removed"
  (`os/agent-docs/graphics-apps.md:85`) names no platform. `DeadAreReapedOnWasm` is about
  WASM, as its name says.
- Files: `open` with `OPEN_CREATE` takes a path spelled too long for one that does not
  exist and makes a second file of the same name (`impl-memory.cpp:62`; set `Spellings` to
  `{"short", "long"}` to see `DirectoriesSound` fail); `open` has created or truncated the
  file when it fails for want of a handle (`impl-memory.cpp:110`); `delete_dir` of an empty
  root succeeds and deletes nothing. In the FAT server a handle's id is its slot, so that
  a stale one names the next file opened there.
- Devices: the left and the right key of a modifier share one flag, so that releasing one
  clears it while the other is held, and a lost event may leave it set; nothing orders the
  writes to a descriptor before the one to the available index (`virtio.hpp:234-238`); the
  disk waits without a limit (`virtio-disk.cpp:63`); when the graphics device refuses a
  command of the set-up, `init` returns true all the same (`backend-virtio.cpp:49-51`), and
  if it is `SET_SCANOUT` later flushes may be answered OK with nothing on the screen; a
  refused transfer ends a flush without a word to its caller (`backend-virtio.cpp:206`).
- Conditions: `handler-bind` installs its bindings one by one, so that a later binding's
  expression already runs under the earlier ones, where the specification binds them for
  the body (`spec.md:658`); a restart is still offered while its own clause runs, where
  the specification offers it for the expression (`spec.md:671`), and invoking it there
  unwinds to the host (`otium.c:3286-3319`). `ListsFollowStack` takes no side in these
  two. A quit or an `invoke-restart` by a handler of the condition that `string->number`
  raises when it reads is cleared and the call returns nil (`otium.c:4280-4284`), where a
  handler "exits non-locally by invoking a restart" (`spec.md:640`) and only cleanups
  observe the passage of a quit (`spec.md:647-650`); `UnwindsArrive` names this exception.
  A cleanup that raises during a quit makes the quit catchable; an interrupt in the break
  loop is dropped when the loop is left by a restart from outside it
  (`otium.c:1434-1450`), and one that comes while nothing runs ends the next evaluation;
  `define-condition` accepts circles, in which `condition-of-type?` does not end
  (`otium.c:4464-4491`).
- Namespaces: `require` with `:reload` keeps the old vars and accepts a circle through a
  namespace that is loaded (`otium.c:3031`), where "A file that is already mid-load
  (circular require) is an error" (`spec.md:578`); `in-ns` inside a function is not undone
  at its end; a redefinition as private leaves earlier references.
- Generational collector: an allocation may return null while old space is empty
  (`ot-gc-gen.c:447-456`).

## Proofs

All theorems are about every value of the constants that the modules' named assumptions
allow (numbers of slots, pages, applications, objects, symbols, descriptors, sectors; any
sets of names, arguments and frames). Each is `Spec => []Inv` from an inductive invariant,
in three steps: it holds initially, every action preserves it (one lemma per action or kind
of action), and it implies the property; action properties and the refinement follow from
the same invariants. A theorem that needs a constant to have one value says so with
`ASSUME`; those hypotheses are named below, with the reason. The runs that check the
property have the same values.

- `KernelProofs`: `TypeOK`, `PidsUnique`, `QueueOnlyWhenLocked`, `QueueBounded`,
  `RunnerIsRunnable`, and the action properties `PidNeverReused` and `WokenByItsServer`, on
  either platform. The inductive invariant `IInv` is the conjunction of the five: that a
  queue stays behind a lock needs the types; that the runner is runnable needs that
  direct-switch targets are (the second half of `RunnerIsRunnable`), and the two action
  properties need it to know that the process that makes a system call is not itself
  blocked. Lemmas say what `process_exit`, `ActivateNext`, `RemoveSender` and
  `process_next_runnable` return.
- Also there, `EndsWhenIdle`. `EInv` adds to `IInv` that a slot in use has a pid, but for
  a process that is being started (`Born`), and that on WASM a terminated process is the
  one whose stack was just left (`Departed`). With `Platform = "wasm"`,
  `NothingRunsAtTheEnd`: the first process is cleaned up before the scheduler looks for the
  next, so the second way to the end, which RISC-V has, is closed there.
- `ServicesProofs`: `HandlerUndisturbed`, always; `CallersRegisteredOnce`, `ReplyMatches`
  and `ReplyPageMatches` if `Failures = {}`; `ReplyUnlessServerGone` if `Platform = "wasm"`;
  and that whatever the services do is a step of `Kernel` or leaves it alone
  (`ServicesUseTheKernel`), so that the theorems about the kernel are about them too.
  `SInv` says of every slot what its pid and program are (`Identity`), what a server's lock,
  copy and page are at each point of its loop (`ServerState`), what a caller's message,
  response and page are (`CallerState`), that whoever holds a server's lock or is in its
  queue is making that call, and once (`Accepts`), and that a caller that waits is
  registered or answered (`Served`). TLC checked it before it was proved. The argument of
  each step is a frame argument: a step touches the slots of the process that runs, of the
  server or caller it deals with, and of whom it wakes; for every other slot nothing is
  changed that its part of `SInv` reads, because nobody is registered anywhere but with the
  server he called. The hypotheses are what the code needs: a server that exits in a
  handler leaves its caller with an earlier response, as described above, and on RISC-V the
  exit of a server is not noticed at all.
- Also there, `ImplementsRpc`: `Services` implements `Rpc` if `Failures = {}`. Under the
  mapping `inboxBar`, `callBar` (request that holds the lock, then the queue; idle,
  waiting, answered) each step of a program is shown to be the abstract step or a stutter:
  a send that is queued and one that switches directly are both a call, a reply is an
  answer together with whatever the kernel activates next, a return is a return.
- `GraphicsProofs`: `RegistryConsistent`, `LiveStayRegistered`, `KeepsTheScreen`. `GInv`
  adds that no process has two slots and that every registered process is one whose loop
  has begun and who has not left. That renumbering gives 1 to n is `RanksFromOne` of
  `SetLemmas`.
- `MachineProofs`, the page manager: `PagesAccounted`, `KnownMemoryExclusive` and
  `PagesChangeHandsCleared`. `MInv` adds to the first that the free list repeats no page,
  that regions lie in memory apart from idle's pages, and the types. Cutting a run out of
  the list (`CutOut`) and pushing a process' pages (`DescendingLists`) are lemmas about
  sequences.
- `MachineProofs`, the in-memory filesystem: `HandlesNameTheirFile`. `HInv` adds that ids
  count up, that open entries differ in them, and that an id a client has closed is never
  given again. It needs nothing about inodes: deletion does not touch handles.
  `TreeSound`, for any paths, and `DirectoriesSound` if no path is spelled too long
  (`"long" \notin Spellings`; for one that is, the code makes a second file of the same
  name, as described above). `TreeInv` says who lists an entry, in one place, and that
  everything not deleted is listed; `NamesInv` that siblings differ in their names, which
  a new one does because its path led nowhere (`ParentIs`, `ChildIs`). What a walk along a
  path finds is there (`WalkFinds`): the first component at which it would not be leads to
  a contradiction.
- `DeviceProofs`: `FlushShowsTheFrame` if `Late = FALSE` (with a device that answers after
  the driver's patience has run out it is false, see `late`), whichever commands the
  device refuses; `TransfersAreWhole` and `EventBuffersAccounted`; wherever the counters
  wrap. Lemmas about the ring say what posting, consuming, using and taking do to what is
  waiting and what is done, counted modulo `IDX_MOD`. `GpuInv` says of every point of the
  script what the device has been asked, has accepted and shows; `DiskInv` which sectors
  of a transfer have been moved and what the request at hand is; `KeyboardInv` that each
  buffer is posted, used or in hand (`Somewhere`), and not two of these (`Apart`).
- `DeviceProofs`, the refinement `KeyboardImplementsStream`: `Delivered` grows at its end by
  what the device gives back and loses its head to a poll, because no buffer that was given
  back is filled or cleared meanwhile (`Apart`). The modifiers after each event are a
  recursive function of the events (`Through`, `ThroughOnce`), which an event at the end
  leaves (`ThroughAppend`) and taking the first one shifts (`ThroughTail`).
- `TableProofs`: `KeysAreFound` and `ImplementsOrderedMap`. `TInv` says what the index may
  hold (`IndexOK`): no more slots taken than there were entries, which are at most half of
  them, and from its hash each live entry is met before an empty slot (`Leads`); and that
  a key with an identity of its own is in one live entry, under the hash it has
  (`KeysOK`). Growing leads back to the same fact for each entry in turn (`Rebuilt`).
  Compaction puts the n-th live entry at position n (`Nth`), so that the map, which
  numbers the live entries of those keys, does not see it (`NthOfNth`); an insertion
  appends to it (`NthAdded`), a deletion takes one position out (`NthWithout`). Keys that
  hash by their address may have several entries once they have moved: nothing is said
  of them but that they leave the other keys alone.
- `LangProofs`, namespaces: `CacheIsFresh`, `LoadsSound` and `PrivateStaysOut`. `NInv` adds
  that whatever a reference, a load or a cache names exists, which is why a definition that
  does not go to the namespace of the cache cannot make it stale.
- `LangProofs`, conditions: `UnwindSound`. `CInv` adds that the unwindings put aside by
  cleanups are of a kind that can be taken up again and that at most one break loop is
  under way. `ListsFollowStack`: `Layer` is what one form makes of a list, `At` what the
  forms up to one have put together, and `LInv` says that each form has put by the list of
  the forms below it (`Shape`), which is what it restores however it is left. That what is
  put together are the frames the property names, in its order, is shown form by form
  (`HandlersToNext`, `ParamsToNext`, `RestartsToNext`). `UnwindsArrive`: an unwinding may
  end where it is caught, at the host, by a cleanup that unwinds, or in `string->number`.
  `AInv` adds what a cleanup has put off, and that no unwinding waits in a cleanup for a
  restart that is offered above it, which holds because a new restart takes an identity
  that is not in use. One always is (`FreshIds`, by counting: each form uses two at most).
  `EditArrives` says what a step that changes the stack from its top on has to do with the
  unwindings, and each form is shown to do it.
- `LangProofs`, the heap: `HeapSound`. Objects that survive are closed under reference
  because `FoundFrom` is a least closed set; that a minor collection misses none needs that
  an old object with a young referent is remembered, which the barrier and
  `StillRemembered` keep up.

Where an induction over data is needed for one fixed function (the walk along a path, the
lists that forms put together, the index as it is rebuilt, the modifiers after each
event), the proof takes the least number at which the claim fails (`MinInSet`): it is not
the first one, and the one before it does not fail.

Only model-checked:

- Liveness (`EveryCallReturns`, `NobodyStarves`, `CrashIsContained`,
  `DeadAreReapedOnWasm`), as it rests on fairness and `ENABLED`.
- `ImplementsTree`: what every path finds changes with each creation and deletion, for all
  paths below it; `TreeInv` and `NamesInv` are what its proof would begin with.

## Not modelled

- In the modelled components: idle makes no system calls; the kernel's console output,
  the timer, `OU_GETCHAR` and the system pages other than the comm page are left out. An
  unknown program name makes a spawn return `PID_NONE` and changes nothing. On RISC-V,
  `ou_io_puts`, `ou_proc_lookup` and `ou_proc_spawn` write their argument into the
  caller's comm page: `WriteCommPage` stands for that. What follows undefined behaviour in
  the kernel is not modelled further. Allocation in `process_create` is in `Memory`, not
  in `Kernel`. Of the generated stubs, the dispatch on method ids and the layout of
  arguments. Of the devices, discovery and negotiation. Of the language, types of
  conditions, values passed, aliases and the spelling of names; sizes in the heap.
- Other filesystem servers keep their state in the host or in the vendored FatFs.
- The font header, which is nearly half of the lines of the repository, is data; drawing,
  pacing, the shells and the demos are output.
- The editor, the Tcl interpreter, msgpack, strings, vectors, hashing and the file
  abstraction are sequential code on data that one user or one caller drives, each with
  unit tests; there is no order of events to explore.
- The language's reader, compiler and bytecode translate and run programs one step
  after another; what leaves code otherwise than by returning is in `Conditions`.
- The semi-space collector copies the graph in one step; the roots it finds are in
  `Conditions`. The generational collector promises what `Heap` states; its cards, free
  lists and sweep are arithmetic on addresses that `Heap` abstracts away.
