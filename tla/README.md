# OS2023-Practices: TLA+ specifications, model checking and proofs

The repository holds the practices of an operating-systems course: independent C and C++
programs. This directory specifies the ones with logic of their own in TLA+, checks them
with TLC on small instances, and proves theorems about them with TLAPS for every value of
the constants.

## 1. Inventory

| Component | State | Operations | How it interacts |
|---|---|---|---|
| Coroutine library, `practice-1/coroutine/coroutine.c` | one `co_scheduler_t` for the process: `tinfo` (a `co_meta_t` per thread, with `running`), `cinfo` (a `co_struct_t` per coroutine: tid, parent, stack, saved context, status, ret, lock); five kinds of rwlock | `co_start`, `co_yield`, `co_wait`, `co_getret`, `co_waitall`, `co_status`, `co_getid`, `_co_func_wrapper` | every POSIX thread that uses it shares the two arrays; a thread switches between its own routines with `swapcontext` and `uc_link` |
| Thread exercises, `practice-1/practice 1-1/task1-5` | a mutex, a barrier, a condition variable with a flag, stdout | `main` and the thread bodies | pthreads |
| Buddy allocator, `practice-2/practice_2-1/buddy.c` | `meta` (status, rank, list links per page), `bucket` (free list per rank), `count` | `init_page`, `alloc_pages`, `return_pages`, `query_ranks`, `query_page_counts` | sequential; the caller owns the pool of pages |
| Segregated-fit malloc, `practice-2/practice_2-2/mm-advance.c` (and the drafts `mm.c`, `mm-basic.c`, `mm-naive.c`) on `memlib.c` | a heap of blocks with boundary tags, segregated free lists inside it, the break of `memlib` | `mm_init`, `malloc`, `free`, `realloc`, `calloc`; `mem_sbrk`, `mem_reset_brk` | sequential; driven by `mdriver` |
| Malloc driver, `mdriver.c` | trace files, blocks of a trace with the random data in them, the list of ranges, `mm_stats`, `errors`, the alarm | `read_trace`, `eval_mm_valid`, `eval_mm_util`, `eval_mm_speed`, `run_tests`, `timeout_handler` | calls the malloc package and the timing package; a signal handler jumps out of any of them |
| Timing package, `fsecs.c`, `fcyc.c`, `clock.c` | the cycle counter, the best samples | `fcyc`, `add_sample`, `has_converged`, `get_counter`, `get_comp_counter` | called by the driver for each trace |
| Chat process, `practice-4` | `Group` (members, cache, recent messages, black list), `Session` and `Client` (socket, queue, buffers), `Message` (addr, id, ttl, text) | join, leave, broadcast, send, do_read, do_write, connect, close | threads of one `io_context` run completion handlers |
| Network of chat processes | the processes, who connects to whom, the connections | the handlers of each process | TCP; circles of processes are possible |
| Chat-bot file system, `practice-3/fuse/keibot.c` | a list of entries searched by path, contents, handles that point into it, the names of the two bots | the FUSE operations | libfuse calls it from its loop, by default from several workers, without a lock |
| File-lock, memory and ioctl exercises, `practice-3/task1-6` | a mapping, a file, a lock | straight-line programs | processes share a mapping or a file lock |
| Driver library, interval timers | sockets; `setitimer` | `driver_post`, `init_timeout`; `ftimer_*` | called by the driver |

Hard behaviours, per component:

* Coroutine library: threads interleave inside the scheduler; a walk of `_tinfo` is done
  without a lock while another thread grows it; contexts are saved and resumed through
  pointers chosen from state that changes in between; a coroutine frees the stack it runs
  on; a parent may finish before its child; waiting is a loop of yields.
* Thread exercises: a mutex that is initialised after the threads were created, a broadcast
  after the unlock, waits that end without a signal.
* Buddy allocator: intrusive lists spread over an array, splitting and merging, the
  boundaries (first page, last page, full pool, one page), calls with foreign pointers.
* malloc: boundary tags overlaid on user data, coalescing in four cases, growth of the heap,
  a failing `mem_sbrk`.
* Malloc driver: records that must follow a block through moves, refusals and failures; a
  timeout that strikes anywhere; counters that wrap.
* Chat: handlers of several threads, a member list that changes during a broadcast, replay
  on joining, messages that travel round and are stopped by caches and ttl.
* File system: pairs of entries that change in two steps, handles that outlive the names,
  realloc driven by a size that shrinks, a rename that frees what other code still uses.

What makes each component correct:

* Coroutine library: `running` names the routine on the processor; only live routines run;
  answers are true; a thread has one meta and finds it without a lock; nothing is forgotten
  when the arrays grow; no lock is held over a switch; a wait comes back.
* Thread exercises: texts are whole, Thr#9 comes first, main returns.
* Buddy allocator: blocks partition the pool; lists hold the free blocks; everything that
  can merge is merged; `-ENOSPC` only if there really is no block.
* malloc: blocks tile the heap; used blocks are the caller's and keep its data; free ones
  are listed by rank and merged; the heap grows only when nothing fits.
* Malloc driver: its ranges are the live blocks; it condemns no correct package and misses
  no fault; a score is printed only for what was judged and measured; it ends.
* Chat: one write at a time on a connection and none forgotten; a session is a queue; a
  message reaches each session once; no handler waits for ever. In a network: a message is
  displayed once, after what its author knew, and its traffic ends.
* File system: a path names one entry, handles point to entries, contents fit their blocks,
  what was made in both bot directories reads the same in both.

## 2. Plan

Written, in the order of importance: `Coroutine`, `Buddy` with `BuddyAbs`, `Chat`, `Heap`
with `HeapAbs`, `KeiBot`, `Driver` with `Fcyc`, `ChatNet` with `ChatRoom`, `Threads`. What is
left: connections that fail and processes that start again in `ChatNet`.

The project keeps to a dozen runs and forty properties. A run that shows a disagreement
gives way when a component needs the place (`Buddy_shrink` next), and a property that
another one implies becomes a conjunct of it.

## 3. The modules and the code

In every module a definition has the name of the function, macro or field it stands for
where TLA+ allows it. Definitions whose name has a suffix (`InitWrite_NoRetest`,
`Keep_Front`) are variants of the one after them with one plausible fault; nothing uses
them, and the property that the fault breaks was seen to fail with each.

### Coroutine

State: `tinfo` and `cinfo` as the fields of their entries (`tid`, `status`, `ret`, `parent`,
`stack`), `running` of each meta, and the block that `_tinfo->data` points to (`tdata`, with
`tfreed` for those that are freed). `cur`, `cpu` and `uc` are the processor of each thread,
the frame it executes and the contexts saved by `swapcontext`. A frame is a label, the call,
its argument and one local variable; a label stands where another thread can see a
difference, so a section under a lock is cut only where the code publishes something in the
middle of it (`StartFree`, `StartAdd`, `StartMeta`: `co_array_add`), or where it holds the
lock over several steps.

| Function | Actions |
|---|---|
| `co_scheduler_init` | `Call` (read side), `InitWrite` |
| `co_start` | `StartCinfo`, `StartTinfo`, `StartFree`, `StartAdd`, `StartMeta`, `StartUnlock`, `StartSwap` |
| `co_yield` | `YieldMeta`, `YieldScan` |
| `co_wait`, `co_getret` | `WaitGet`, `WaitRead`, and the actions of `co_yield` between them |
| `co_waitall` | `AllLock`, `AllRead`, and those of `co_yield` |
| `co_status`, `co_getid` | `Status`; `GetIdWalk` |
| `_co_func_wrapper` | `UserReturn`, `FinRet`, `FinWalk`, `FinExit` |

Undefined behaviour is a choice: reading a freed block of `_tinfo` or resuming a context on
a freed stack either ends the behaviour (`crashed`) or goes on with what was there. The
client is any program: each routine may make any call at any time. `Structured` restricts it
to bodies that outlive their children, `WaitsOnChildren` to waits for one's own coroutines,
`AsksGivenCids` to cids that exist; each run names the ones it assumes.

### Buddy and BuddyAbs

`status`, `rank`, `index`, `prev`, `next` are the fields of `list_t` for every page,
`bucket` and `count` the arrays. The turns of the split loop of `alloc_pages` and of the
merge loop of `return_pages` are steps (`Split`, `Merge`), the rest of each call one step
before (`AllocScan`, `ReturnBegin`) and one after (`Take`, `Put`); `AllocRefuse` and
`ReturnRefuse` are the early returns. `list_push`, `list_pop`, `list_remove` are the macros
on the links.

`BuddyAbs` is what `buddy.h` promises: the set of blocks the callers hold, with `-ENOSPC`
exactly when no aligned block of the rank is free of held pages. `AbsSpec` checks that
`Buddy` implements it, `used` being the first pages marked `USED`.

### Chat

A process is its `Group`, the `Session` of each peer and the `Client` to the next process.
The threads of the `io_context` are the processes of the specification: `Takes` gives a
completion handler to an idle thread, `Step` runs it one critical section at a time.
`gmutex` and `cmutex` are variables because they are held over several steps (`join` over
its replay, `on_post` over a broadcast); the mutex of a session is held within one step.

| Code | Actions |
|---|---|
| `Group::broadcast` | `Check` (cache and black list), `Fan` (loop over members), `Post` (`client.send`), `Recent` |
| `Group::join`, `leave` | `Join`, `Replay`, `JoinEnd`; `Leave` |
| `Session` | `OnAccept`, `Run`, `OnRead`, `Again`, `DoWrite`, `OnWrite`, `Written`, `OnReadError`, `OnWriteError`, `OnAborted` |
| `Client` | `OnConnect`, `OnPost`, `Lock`, `Push`, `CDoWrite`, `OnCWrite`, `CWritten`, `OnCRead`, `CRead`, `CAgain`, `Close`, `OnClose`, `OnCReadError`, `OnCWriteError` |
| `main` of `chat.cpp` | `Type` |

A message is its identity and its ttl. A handler that touches a destroyed session is
undefined and ends the behaviour (`crashed`).

### Heap and HeapAbs

`mem` maps the word addresses of the heap to words, `brk` is `mem_brk`. Headers, footers and
links are words of it, read and written through the macros of the file, so that metadata
over user data, a stale footer or a wrong link is visible. The functions are operators from
memory to memory with the names of the code; a call is one step. `Entries` is the walk of
`find_fit` along one list, cut off at `MaxBlocks`, more entries than a list can have:
`FreeBlocksListed` includes that every walk has met the border by then. `Blocks` is the walk
by `HEAP_NEXT` from the first block, cut off in the same way. An access outside the heap
is an evaluation error, so the run shows that there is none. The client is `eval_mm_valid`
of the driver without a trace: it calls what it likes, writes only inside its blocks and
frees what it owns; `owned` remembers the size, the tag it wrote and how many bytes must
have survived. `mem_sbrk` fails with `(void *) -1`, which `extend` and `mm_init` compare
with `NULL` (`mm-advance.c:144`, `:199`): `malloc` then writes a header through it, and the
model ends (`crashed`).

`HeapAbs` is what a caller of malloc is promised: `size` says where its blocks lie and how
long they are, `data` what it reads in them, a word for each offset that was written when
the block was new and that every realloc since has left. There are no headers, lists or free
blocks, so it says nothing of when the heap grows (`GrowsWhenFull` does), only by how much.
`AbsSpec` checks that `Heap` implements it, `data` being read from `mem` at the addresses of
the blocks (`Contents`): a call that wrote in any block would take a step that `HeapAbs` has
not.

### KeiBot

The `-b` mode: `entry` is the list of `file_entry`s, by address; `fh` what `fi->fh` of each
open file points to, with the path of the node that libfuse keeps for it. A handler that finds its entry and
changes it is one step; where it turns to the other bot's directory (`swtich_bot`, then
`create_file` or `find_entry` and `write_file` again) the worker keeps a `job` and goes on
in a step of its own.

| Code | Actions |
|---|---|
| `keibot_mknod`, `keibot_mkdir` | `keibot_mknod`, `MirrorCreate` |
| `keibot_write` | `keibot_write`, `MirrorFind`, `MirrorWrite` (with `write_file`, byte by byte) |
| `keibot_unlink`, `keibot_rmdir`, `keibot_rename`, `keibot_open`, `keibot_opendir`, `keibot_release`, `keibot_destroy` | of the same name; `Hide` is libfuse's rename of a file that is removed while it is open |
| `assert(0)` of a rename that exchanges, `emoji[id]` beyond the filled ones | `Exchange`, `MissingEmoji`: the process ends |
| a use of `fi->fh` after the entry was freed | `FreedEntry`: the process ends |

The content of a file is its block, byte by byte, with the size beside it; `over` remembers
how many bytes past the block the last write of the file has put. It is the terminator of
`keibot.c:375`, for which `realloc` (line 370) asks no room.

A rename leaves the entries below a directory with their old paths, and frees the path of
what it replaces, which for a bot directory is `bot1_path` itself: `strings` records what is
still there, and `swtich_bot` may answer either way once it is not. `stale` are names that
the kernel still holds after such a rename, of a file or of a directory; `open` and
`opendir` then create one. libfuse counts the handles of a node, and its nodes do follow a
directory that is moved: the path of a handle (`Followed`) and the path of its entry then
differ (`astray`), an `unlink` of the old path is not hidden from the open file, and
`keibot_read` or `keibot_write` reach a freed entry. A node whose directory was replaced or
removed has no path, and libfuse refuses what needs one (`Usable`). What libfuse and the
kernel guarantee (no removal of what a handler holds, one writer of a file at a time) are
guards of the actions and marked in their comments.

### Driver and Fcyc

The driver judges a package that may do anything: return any address or none, spoil any byte
of the heap, fail, or never return (`Hang`); `faulty` remembers whether it has.
`eval_mm_valid` takes one step for a request (`ALLOC`, `REALLOC`, `FREE`), with the checks
before and after it (`add_range`, `remove_range`, `check_index`, `randomize_block`);
`MeasureSpace` is `eval_mm_util`, `TimeRun` one turn of the loop of `fcyc`.
`timeout_handler` may strike at any point; where `timeout_jmpbuf` is not valid (before
`run_tests` with `-l`, and after it) and where a closed stdin is read again, `pc` is
`"undefined"`. The random bytes of `randomize_block` are idealised: two fills agree in no
byte (`Datum`), while in the code each byte of two fills agrees with a chance of 1 in 256.
`Fcyc` is the timing package by itself: `Difference` is the borrow arithmetic
of two words, `Insert` and `add_sample` the K-best list. `LastOp`, `Freed` and `Holds` read
off the lines of a trace what it owns after n of them, and `Live` is that set: the list of
ranges, the tables and the totals of the driver are compared with the trace and not with one
another. `Consistent` is what `checktrace.pl` makes of a trace, without which a trace itself
may free a block twice.

### ChatNet and ChatRoom

`ChatNet` composes processes. In each one thread runs the `io_context`, so that a handler is
one step; the threads within a process are what `Chat` is about. A connection is two queues,
which is what `SessionIsFifo` and `OneWriteAtATime` of `Chat` allow: what is given to a
session arrives in order. `OnPost` is `on_post` of `Client::send` with its broadcast,
`OnRead` the session's `on_read`, `OnCRead` the client's, `Connect` the two ends of a
connection with the replay of `join`. Who connects to whom (`target`), who comes late, the
ttl and the sizes of the caches are a record of `Nets`.

`ChatRoom` is what users see: messages are said, each after what its author had read or
said, and read. While the room remembers, nobody reads a message twice or before what it
came after. `RoomSpec` checks that `ChatNet` implements it; `remembers` is `Roomy` (caches
for all messages, and a ttl of more than three times the number of processes: a hop takes at
most 3 of it, as every broadcast takes one and a client one more before its own).

### Threads

The four programs as one module: `task` says which of them runs. The mutex is the word of
the C library (0 free, 1 taken, 2 taken and perhaps waited for), because task2 initialises
it when the threads are there and a re-initialised word, unlike an abstract mutex, may wake
nobody; `late` marks the runs in which that happens. `SpuriousWakeup` is the freedom of
`pthread_cond_wait`.

## 4. What the runs check and show

| Run | Instance | Question |
|---|---|---|
| `Coroutine_1t` | 1 thread, 3 coroutines, any body, fair | `running` is right even when coroutines outlive their parents, answers are true (but for `co_status` of the cid to come next), main's waits come back, no coroutine starves meanwhile |
| `Coroutine_2t` | 2 threads, 2 coroutines, all calls, cids that exist, bodies that outlive their children | the locks: types, one meta per thread and the unlocked walk finds it, nothing is forgotten, no lock is held over a switch, a finished coroutine stays finished |
| `Coroutine_walk` | finding | the unlocked walk reads a freed block |
| `Buddy_pool` | pools of 2, 3, 4 pages, growing; every rank and pointer | partition of the pool, lists and their counts, what the queries answer of counts and of the first pages of blocks, order of allocation, `BuddyAbs` |
| `Buddy_shrink` | finding | the page one past the pool is taken back after `init_page` with a smaller pool |
| `Heap_client` | 152 bytes, ranks 32 and above, requests 0, 4, 20 | `HeapAbs`; tiling, ownership, lists, merging, data kept, growth and exhaustion |
| `Driver_traces` | 6 suites of traces, 5 command lines, a heap of 4 bytes, any package | ranges, verdict (random data that tells fills apart), score, the K best times, the end |
| `Chat_server` | 2 sessions, 2 threads, 3 messages, failures | a session is a queue, nothing is sent twice |
| `Chat_live` | 1 session, 2 threads, a client, fair | the circle `send`, `on_post`, `broadcast` ends; one write at a time; handlers return; what is queued is sent |
| `ChatNet_room` | 7 networks of up to 3 processes, one of them late; 2 messages, fair | the network is one room; its traffic ends with everyone told |
| `KeiBot_files` | 5 entries, 8 paths, 1 worker, 1 handle, 6 calls | unique paths, blocks as large as their files and written past by the terminator alone, handles of files whose directories stay, mirrors of one worker |
| `Threads` | teams of 4 (task1, task4) and 2, texts of 2 pieces, 2 spurious wake-ups, fair | whole texts, the order of task4, main returns |

The bounds. Three coroutines are a parent with two children or a chain of three, the
smallest in which an orphan, a sibling and an ancestor that is not the parent all occur; the
second thread makes `_tinfo` grow from its one entry, which is the only growth that matters
to a walk. A pool of four pages has three ranks: a block with both a parent and children,
and a list of two entries. The heap holds five smallest blocks, so that three free blocks of
one rank, none adjacent, are listed together (unlinking at the head, in the middle and at
the end), and has blocks of both ranks; its `VIEW` leaves out the words that nothing reads
before they are written (payload of free blocks, links of used ones, the memory past `brk`),
which changes no behaviour of the rest. Two threads are enough for each race of the chat:
every critical section is one step, and a third thread would interleave with the same
sections.

The traces of the driver hold two blocks, so that a payload can lie before, in, over or
after another, a block that moves and shrinks and one that a realloc to nothing frees, two
traces of one suite, the second of which allocates again under an id that it has freed, and
one that `read_trace` and one that `assert(size > 0)` refuse. A
word of the cycle counter has four values and runs cost three or six cycles, so that the low
word wraps, once and twice, with and without an interrupt; with two values kept of three the
list fills, drops and converges. Two messages are a question and its answer, or two by one
author. The networks hold a circle of three, in which a message comes back to its author; a
pair (the smallest circle) with a third at its tail; a star and a chain with a late process
at the end or in the middle; and, with caches of one message, a star and a pair in which
only the ttl stops what has been forgotten. Larger rings with small caches and the
`DEFAULT_TTL` have the same steps and too many states. Five entries are the two bots, a file
in each and one more in the way (a target of a rename, a file hidden by libfuse, a stale
name); six calls are enough to create a pair, open it, write it twice, move or remove
something and create again. Texts of one byte at offset 0 or 2 and an emoji of two bytes
make a file grow with a hole, shrink below its block and grow again. A team of four has a
last thread, one that sleeps on the mutex, one that waits for the flag and one that has not
come.

`SYMMETRY` is used only in runs without liveness. `CHECK_DEADLOCK FALSE` stands where the
system may stop: a chat with nothing left to do, a malloc that has crashed, a driver or a
team of threads that has ended, a file system with its calls made.

Fairness. `Coroutine`: the operating system runs every thread (weak fairness of each
thread's library step), and a body that gets the processor again and again eventually waits
for a child or returns (strong fairness, since the scheduler takes the processor away);
nothing is assumed of main. `Chat`: every thread runs, the `io_context` hands out what was
posted, and a write that was begun completes or fails. Mutexes are assumed no fairer than
that: the finite number of messages bounds how often a thread can be overtaken. No fairness
is assumed of peers. `ChatNet`: the thread of each process runs its handlers, and a
connection that is begun comes about; nothing is assumed of who types. `Driver`: the process
runs, and the alarm that was set comes; a package that hangs takes no step. `Threads`: the
kernel runs each thread that can run; nothing is assumed of who gets the mutex or of
spurious wake-ups.

Runs that end elsewhere. `late` in `Threads`, `strings` in `KeiBot`, `crashed` in `Chat`,
`Coroutine` and `Heap`, and `"undefined"` in `Driver` mark behaviours past a use of freed
memory, a re-initialised mutex or the like: the models reach them, and the properties speak
of the behaviours before.

Observed in the code besides the findings:

* `co_status(len)` is not refused: the test is `cid > len` (`coroutine.c:333`), while the
  comment at lines 320-323 says that an invalid cid is unauthorized. `AnswersAreTrue` says
  it of every other number that was not given out, and leaves this one out; without the
  exception `Coroutine_1t` violates it.
* A coroutine that outlives its parent gives the thread back to a routine that has finished
  (`coroutine.c:174`); and its stack is freed before it has been left (`coroutine.c:175`).
* `query_ranks` answers `-EINVAL` for a page inside a free block, while `practice_2-1.md:32`
  says that a page that is not allocated is queried by its largest rank. `QueriesTrue` says
  nothing of such a page: of the pages, it speaks of the first one of each block. `init_page` with 0
  pages or with 2^20 indexes past its arrays (`buddy.c:113`).
* `mem_sbrk` fails with `(void *) -1`, which `extend` compares with `NULL`
  (`mm-advance.c:144`): `malloc` crashes instead of answering `NULL` when the heap is
  exhausted. `GrowsWhenFull` says when that can happen at the earliest, not that it does not.
* `add_range` compares only the ends of the new payload (`mdriver.c:565`): one that covers
  another on both sides passes, against the comment at line 562, and only the random data
  shows it.
* With `-l` and a trace from stdin, stdin is read again after it was closed
  (`mdriver.c:879`).
* A session that joins after the loop of a broadcast and before its push to `recent_msg` is
  given the message neither by the loop nor by the replay (`group.h:71`), although
  `client.h:9` says that what is broadcast goes to all sessions. With one thread per process
  (`ChatNet`) it cannot happen.
* A failed write closes the client's socket and leaves `pending` as it was (`client.h:97`):
  what is sent later is queued and never written.
* The addr of a process is always `0.0.0.0` with its port (`chat.cpp:33`), and its ids begin
  at 0 (`chat.cpp:44`): processes of the same port on different hosts, and a process that is
  started again, share identities with others, and the caches drop their messages.
* task2 initialises its mutex after it has created the threads (`task2/main.c:55`): two of
  them may be inside at once, and one that sleeps on the mutex may never be woken. `late`
  marks it; `TextsWhole` excepts such runs and `MainReturns` counts them as ended.
* A write that ends where the block ends, as every write that grows its file does, puts the
  terminator one byte past the block: `realloc` asks for `offset + bytes` (`keibot.c:370`)
  and line 375 writes at that index. `BuffersHold` allows this one byte and no other.
* With more than one FUSE worker (the default; `-s` asks for one) two writes, one on each
  side of a pair, leave different contents: `MirrorsAgree` is violated by `KeiBot` with two
  workers (`keibot.c:398`).
* `rename` of a directory gives the entries below it no new path (the loop of
  `keibot.c:491-503` would, but for the `assert`, and its test `IS_DIR` is false of a
  directory of any usual mode). A file that is open below it can then be removed by its old
  path, once a directory has that name again, and is freed under its user (`FreedEntry`).
* A second create that finds its file answers `-EEXIST` for a file that was made
  (`keibot.c:316`); `rename` and `rmdir` of a bot directory free the name that `swtich_bot`
  compares with and `keibot_destroy` frees again (`keibot.c:226`).

## 5. What is proved

TLAPS checks eight proof modules in full: `CoroutineProofs`, `BuddyProofs`, `HeapProofs`,
`ChatProofs`, `ChatNetProofs`, `DriverProofs`, `KeiBotProofs` and `ThreadsProofs`. Nothing is assumed but
the named assumptions of the specification modules and the hypotheses named below.

**Coroutine**, for any set of threads, any number of coroutines, any bodies and any calls:
`TypeCorrect`, `RunningCorrect`, `MetaUnique`, `AssertionHolds` (the `assert` of
`coroutine.c:173` never fails although the walk takes no lock) and `NothingLost`. They
follow from one inductive invariant `IInv`. `RunningIsCurrent` alone is not inductive: that
a resumed context is at a label that expects to be resumed needs `FrameInv`; that a
finishing routine has a parent to hand the thread to needs `LinkInv`, and that a walk meets
complete entries first needs `MetaInv`, which in turn needs `LockInv` (one thread in the
section of `co_start`) and `FreshInv` (nothing is started before the scheduler exists, so
`InitWrite` resets nothing). `LocalStep` treats all steps that only move a frame; each
remaining action has a lemma. `NoLockHeld` rests on `HoldInv` (which
label holds which lock), `LifeInv` and `AgeInv` (a finished coroutine is past its body; a
child is younger than its parent). `FinishedStays`, `LiveOnly` and `TrueAnswers` add
`TreeInv` and `RetInv`: under `Structured` a live routine has a live parent, so that a
coroutine which has given its lock back is never resumed, and takes it no second time.
`TrueAnswers` also assumes `AsksGivenCids`; what is answered of other numbers is
model-checked. That `co_status` walks exactly the
ancestors is an induction over the length of the walk, done as a least counterexample.

**Buddy**, for every `MaxRank`, every page size and all arguments, given that `init_page` is
not called for a smaller pool than before (`~Shrinks`: `Buddy_shrink` shows that it must
be): `TypeCorrect`, `PoolPartitioned`, `SplitsAreFree`, `ListsAreWhole`, `OrderKept`,
`QueriesAnswered` and `AllocatorImplements`. `Pow2` is constrained only by its law on sums
of exponents (`ShiftAssumption`). The argument: `IsBlock` describes the indices of a rank as
nodes of a binary heap; `Halves` and `Buddies` are its arithmetic; `Tiles` says that widths
of disjoint intervals add up, so that a split or a merge keeps the partition (`TilesSplit`,
`TilesMerge`). `PoolPartitioned` needs the lists (`ListInv`: the links of each rank are a
doubly linked chain over the free blocks and number them in a line, kept by `PushLinks`,
`PopLinks`, `RemoveLinks`) because a block is reached through them, and the counts
(`CountInv`), because `alloc_pages` chooses the rank to split by `count`; the line makes the
list that `Walk` meets the one that the proof speaks of (`WalkOfLine`). The order of
addresses needs that no list between the rank asked for and the one being split holds
anything (`EmptyInv`). The queries and `-ENOSPC` need that everything is merged: `TwinInv`
says that a block and its buddy are both free only between a split and the next step;
then every free aligned range lies in a free block (`Coalesced`, by the least rank at which
it would not), so that the blocks of the lists are what `BuddyAbs` calls free. The
refinement follows: only `Take`, `Put` and the refusals change what is held.

**Heap**, for a heap of any size, any ranks, requests and tags (`HeapAssumption`), and after
any calls: `HeapInvariant`, `HeapTilesHold`, `UsedAreOwnedHold`, `FreeBlocksListedHold`,
`GrowsWhenFullHolds` and `MallocImplements`. The properties read the heap off its words, and
every call rewrites words, so none of them is inductive, nor is their conjunction: they say
nothing of a word that two blocks might share. The invariant `HeapInv` says instead that the
memory is an image: there are blocks `B` with sizes `z`, apart from each other and aligned
(`Shape`), such that the words at the offsets of the macros hold the header, the footer and
the links of each (`HeapAt`), the free ones are all listed and not neighbours (`Tidy`), and
each record of the client is served by its block (`Serves`). An image is kept by showing
that the words written are not those of another block (`Cells`, `Apart`). The links are
treated apart from the words, as a structure of their own (`View`), whose lists lead through
their entries in a line (`Linked`); `list_push` and `list_remove` are proved there and
carried over. Then come the helpers, each from one image to another: `split`, `coalesce`,
`extend`, `place`, the two merges of `free`, and what `malloc` and `realloc` make of them
(`Reallocates` and its kin name the outcomes: refused, crashed, in place, moved). That
`find_fit` and the walk over the heap, which follow the memory, meet the entries and the
blocks of the image, is shown by numbering the entries along the line and each block by how
many lie below it (`Place`), since an induction over the words is out of reach. That
`malloc` grows the heap only when it must needs that the ranks below the one it starts at
hold only blocks that are too small (`RankGrows`). `HeapInv` holds in the state after a
crash as well. TLC does not evaluate it, for it speaks of some `B` and `z`; the invariants
of `Heap_client` are its parts for the blocks that the words describe. The refinement takes
two states of the invariant: in both the memory holds the client's tags (`ContentsAre`) and
its blocks lie apart (`ClientApart`), so what is left is what a call comes to for the client
(`Outcome`: nothing, a crash, a block more, a block elsewhere or of another size, a block
less, none at all), and each of these is a step of `HeapAbs` (`OutcomeRefines`).

**Chat**, for any threads, sessions, messages and sizes, with failures at any point:
`OneWriteEach`, `EachIsFifo`; `EachGetsItOnce` and `CircleEnds`, given that the cache holds
every message that is forwarded (`CacheHoldsAll`; it holds 100, `message.h:119`, and beyond
that the properties are false), the second also given that no peer uses the ids typed here.
`NamesAssumption` says that names are distinct. `WInv` is inductive: who is between `Push`
and `DoWrite` owns the flag (`Sends`), a session that was not accepted is in no list, and
`Client` and the accepting session have one handler each. What is given to a session only
grows (`StepGives`, `OthersGive`), which is `EachIsFifo`. For `EachGetsItOnce`: a message
being fanned out is in the cache and by one handler only (`Cached`, `Casting`), a replay
gives what the session has not been given (`Replaying`, `Fanning`), so that a list given is
`Distinct`. For `CircleEnds` each id is counted: at most one on its way for a handler that
passed the cache, and one for a `Type` that has not come to it.

**ChatNet**, for any set of processes, any graph of connections, any messages:
`NetworkIsRoom`, that the network implements `ChatRoom`. `RInv` holds while the room
remembers: caches are distinct, closed under what came before, and equal to the recent
messages (`Caches`); queues are in order (`Ordered`); what a target has cached is what its
client has cached and what is still on its way down (`Streams`), so that nothing is missed
and nothing comes twice; and a message has lost ttl only to groups and clients that have it
(`Costs`, by the cardinality of two sets of processes), so that the ttl of `Roomy` never
runs out. `BroadcastKeeps` treats `Group::broadcast` once for its three callers.

**Driver**, for any suite of traces, heap, addresses, word of the counter and any behaviour
of the package: `KBestHolds`, `RangesHold`, `VerdictHolds` and `ScoreHolds`. `DriverAssumption`
gives the types, `TracesAssumption` that the traces are `Consistent`. Of the sampler
(`FInv`): the borrow arithmetic of two words gives the difference of two readings through
any wrap (`TwoWords`, `DifferenceIs`), and an insertion keeps the K smallest, with an
injection that says which sample a value is (`PickMore`, `SmallestReplace`). Of the driver:
phases, positions and tables (`TInv`); the list of ranges is one record for each block that
the trace owns, apart from each other but for the overlap that `add_range` overlooks
(`RInv`); whatever was spoilt is counted already or can still be seen in a block of the
trace, since two fills agree in no byte (`Datum` idealises them so; `VInv`, `OverlayShows`), and at the end of a
balanced trace there is no such block; the total is the number of bytes owned (`SpaceInv`);
traces judged so far are good as long as nothing went wrong (`ScoreInv`).

**KeiBot**, for any entries, paths, handles and calls. For any number of workers:
`PathsUnique`, `BlocksHold` and `OpenFilesLive`. `OneEntryPerPath` is inductive with the
fields of a record beside it (`Records`); the weight is on `rename`, which takes a path that
another entry has and must delete that entry in the same step (`RenameStep`), and on
`FindEntry`: `None` is answered only when no entry has the path, so that what creates may
create. It holds at the grain of the model, in which the test of `create_file` and the
insertion are one step; with one worker the code has no other. `BlocksHold` is by
`write_file`: the size never exceeds the block, whatever the offset and the length, on both
sides of a pair (`Jobs`), and only the terminator lands past it. `OpenFilesLive` (`OpenLive`, the first half of `HandlesLive`) rests
on what libfuse promises: a path that is open is neither unlinked nor renamed over, and a
rename takes the handles of its source along (`FRename`); that the entry of a handle is the
one a removal finds is `OneEntryPerPath` again, and a handle that a directory leaves behind
is no longer claimed anything of (`FollowedFields`).

For one worker, whichever it is: `HandlesStayLive` (all of `HandlesLive`, which says nothing
of handles that are `astray`: their entries may be freed) and
`MirrorsStayEqual` (`MirrorsAgree`). With several both are false (`keibot.c:398`): the
hypothesis is `-s`. `MInv` says what the two steps of a handler hand over: the pairs are
closed under `Twin`, which is its own inverse on paths below a bot directory (`TwinBack`);
both files of a pair exist and agree in kind, size and block, except while the mirror of a
write is due, when the file of the job is what `write_file` makes of its twin (`AgreeIn`);
a create under way has made what its twin will be (`CreateOK`). `write_file` of files that
agree agrees (`WriteAgrees`), so a shorter write, a hole and an emoji are no cases. `MKept`
treats the calls that touch no file of a pair that is left.

The first attempt at `OpenLive` failed and showed the model wrong: it knew an open file by
its entry, and libfuse knows it by its node. With nodes followed, the free of an open file
below a moved directory (section 4) appeared, and the property was stated for the others.

**Threads**, for a team of any size, texts of any length and any number of spurious
wake-ups: `TextsAreWhole`. That texts are whole is not inductive: it needs that whoever is
between the lock and the unlock is alone (`MutexInv`), that a thread which has not come in
has printed nothing (`FreshInv`), that one in the middle of its text was the last to print
(`TailInv`), and for task4 that the flag is set only after Thr#9 has printed (`FlagInv`).
The last two meet in `PrintStep`.

Only model-checked: liveness, which is out of the prover's reach. Inductions over numbers
(the length of a walk, the rank of a range) are proved as least counterexamples, with the
well-foundedness of `<` on the naturals. The properties speak of lists by walks of a bounded number of links,
whose values the proofs identify by a numbering of the nodes.

## 6. What is not modelled

* `co_scheduler_destroy` (nothing calls it); failures of `getcontext`, `swapcontext` and of
  memory allocation in the coroutine library; what two routines overwrite on one stack.
* `init_page` with 0 pages or with 2^20: it indexes past its arrays.
* In the chat: the text of messages, their encoding and buffers, the colours and the log,
  SIGINT, the limit of one message in 500 ms; in the network also connections that fail,
  processes that stop, and black lists.
* `mm_checkheap`, requests that a 32-bit `word_t` cannot hold, what `memcpy` of `realloc`
  copies from past the old block (`mm-advance.c:311`): no block of the client.
* The other versions of malloc: `mm.c` does not compile (`META_SIZE` is not defined),
  `mm-basic.c` and `mm-naive.c` are earlier exercises.
* Of the driver: verbosity, `printresults`, weights beyond their range, the post of the
  result; of its timing package the clock rate, the clearing of the cache, and the counters
  of other processors. `driverlib.c` is network I/O, but for the alarm of `init_timeout`;
  `ftimer.c` is not used with `USE_FCYC` set.
* Of the file system: `getattr`, `readdir`, `access`, which only read, and times and
  permissions.
* The file-lock, memory and ioctl exercises of practice 3, which are short programs around
  one system call each, task5 of practice 1-1, which shares no state, and the sequential
  test programs.
