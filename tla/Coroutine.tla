------------------------------ MODULE Coroutine ------------------------------
(***************************************************************************)
(* The coroutine library of src/practice-1/coroutine/coroutine.c: stackful *)
(* coroutines on ucontext, any number of POSIX threads, one scheduler      *)
(* shared by all of them and guarded by three kinds of reader-writer lock. *)
(*                                                                         *)
(* A routine is a thread's main routine, named by the thread itself (the   *)
(* NULL of meta->running and coro->parent), or a coroutine, named by its   *)
(* cid.  A label (pc) stands between two accesses to state that another    *)
(* thread can see; a section that holds a lock for reading and changes     *)
(* nothing is one step guarded by the absence of a writer.                 *)
(***************************************************************************)
EXTENDS Integers, Sequences, FiniteSets

CONSTANTS
    Threads,         \* the POSIX threads
    MaxCo,           \* bound: how many coroutines are started in all
    Rets,            \* what routine bodies return
    Calls,           \* the functions of coroutine.h that the clients call
    Structured,      \* a body returns only when its children have finished
    WaitsOnChildren, \* a routine waits only for coroutines it started
    AsksGivenCids,   \* co_status is asked only for cids that were given out
    Uninit           \* what malloc leaves in a field that is not set yet

API == {"start", "yield", "wait", "getret", "waitall", "status", "getid"}

ASSUME ThreadsAssumption == Threads \cap Int = {} /\ Uninit \notin Threads \cup Int
ASSUME BoundAssumption == MaxCo \in Nat
ASSUME RetsAssumption == Rets \subseteq Int
ASSUME CallsAssumption == Calls \subseteq API
ASSUME ClientAssumption == {Structured, WaitsOnChildren, AsksGivenCids} \subseteq BOOLEAN

RUNNING == 1
FINISHED == 2
UNAUTHORIZED == -1

Cid == 0 .. (MaxCo - 1)
Routine == Threads \cup Cid

VARIABLES
    scheduler,  \* _co_scheduler is not NULL
    tinfo,      \* tid of each entry of _tinfo, Uninit until it is set
    tdata,      \* which block _tinfo->data points to; block k holds 2^k entries
    tfreed,     \* the blocks of _tinfo below this one are freed
    clen,       \* _cinfo->len
    cinfoW,     \* who holds _cinfo_lock for writing (at most one thread)
    cinfoR,     \* who holds _cinfo_lock for reading across steps
    tinfoW,     \* who holds _tinfo_lock for writing
    tid, status, ret, parent, stack, \* the fields of co_struct_t
    colock,     \* who holds coro->lock for writing
    freed,      \* stack blocks given back to malloc
    running,    \* meta->running of each thread
    cur,        \* the routine that is really on each thread's processor
    cpu,        \* what that routine is executing
    uc,         \* the context saved for each routine that is switched out
    crashed     \* the program has died of undefined behaviour

arrays == <<scheduler, tinfo, tdata, tfreed, clen>>
locks == <<cinfoW, cinfoR, tinfoW, colock>>
coro == <<tid, status, ret, parent, stack, freed>>
switch == <<running, cur, uc>>
vars == <<arrays, locks, coro, switch, cpu, crashed>>

-----------------------------------------------------------------------------
(* Frames: the label a routine is at, the call it is in, its argument and  *)
(* a local variable of that call.                                          *)

Labels == {"user", "init_wr", "start_cinfo", "start_tinfo", "start_free",
           "start_add", "start_meta", "start_unlock", "start_swap",
           "yield_meta", "yield_scan", "wait_get", "wait_read", "all_lock",
           "all_read", "status", "getid_walk", "fin_ret", "fin_walk",
           "fin_exit", "answered"}

Frame == [pc : Labels, op : API \cup {"none"}, arg : Int, val : Int]
UserFrame == [pc |-> "user", op |-> "none", arg |-> -1, val |-> 0]

\* the same call at another label, with another value of its local variable
Move(f, pc, v) == [pc |-> pc, op |-> f.op, arg |-> f.arg, val |-> v]

\* where each function goes on once co_scheduler_init has returned
Entry(op) ==
    IF op = "start" THEN "start_cinfo"
    ELSE IF op = "yield" THEN "yield_meta"
    ELSE IF op \in {"wait", "getret"} THEN "wait_get"
    ELSE IF op = "waitall" THEN "all_lock"
    ELSE IF op = "status" THEN "status"
    ELSE "getid_walk"

\* where a function that calls co_yield goes on when the routine is resumed
AfterYield(f) ==
    IF f.op = "yield" THEN UserFrame
    ELSE Move(f, IF f.op = "waitall" THEN "all_lock" ELSE "wait_read", f.val)

At(t, pc) == ~crashed /\ cpu[t].pc = pc
MoveTo(t, pc, v) == cpu' = [cpu EXCEPT ![t] = Move(@, pc, v)]
Goto(t, pc) == cpu' = [cpu EXCEPT ![t] = Move(@, pc, @.val)]
Answer(t, v) == MoveTo(t, "answered", v)

Started == 0 .. (clen - 1)
HasMeta(t) == \E i \in DOMAIN tinfo : tinfo[i] = t
Children(r) == {c \in Started : parent[c] = r}

\* the coroutines that the walk from c along parent meets
Lineage[c \in Cid] ==
    {c} \cup (IF parent[c] \in Cid THEN Lineage[parent[c]] ELSE {})

-----------------------------------------------------------------------------
Init ==
    /\ scheduler = FALSE
    /\ tinfo = <<>> /\ tdata = 0 /\ tfreed = 0
    /\ clen = 0
    /\ cinfoW = {} /\ cinfoR = {} /\ tinfoW = {}
    /\ tid = [c \in Cid |-> Uninit] /\ parent = [c \in Cid |-> Uninit]
    /\ status = [c \in Cid |-> 0] /\ ret = [c \in Cid |-> 0]
    /\ stack = [c \in Cid |-> c]
    /\ colock = [c \in Cid |-> {}]
    /\ freed = {}
    /\ running = [t \in Threads |-> t]
    /\ cur = [t \in Threads |-> t]
    /\ cpu = [t \in Threads |-> UserFrame]
    /\ uc = [r \in Routine |-> UserFrame]
    /\ crashed = FALSE

-----------------------------------------------------------------------------
(* The client: a routine calls a function of coroutine.h or returns.       *)

\* The arguments the functions are made for; co_status takes any number.
Legal(t, op, arg) ==
    /\ op \in {"wait", "getret"} =>
         arg \in IF WaitsOnChildren THEN Children(cur[t]) ELSE Started
    /\ op = "status" => arg \in IF AsksGivenCids THEN Started ELSE -1 .. (clen + 1)
    /\ op = "getid" => HasMeta(t)
    /\ op \notin {"wait", "getret", "status"} => arg = -1

\* co_scheduler_init (its read side) opens every function but co_getid, which
\* loads _tinfo->data at once and takes no lock.
Call(t, op, arg) ==
    /\ At(t, "user") /\ op \in Calls /\ Legal(t, op, arg)
    /\ cpu' = [cpu EXCEPT ![t] =
                 [pc |-> IF op = "getid" \/ scheduler THEN Entry(op) ELSE "init_wr",
                  op |-> op, arg |-> arg, val |-> IF op = "getid" THEN tdata ELSE 0]]
    /\ UNCHANGED <<arrays, locks, coro, switch, crashed>>

\* Fault: _co_func_wrapper does not take the lock of the coroutine.
UserReturn_NoLock(t) ==
    /\ At(t, "user") /\ cur[t] \in Cid
    /\ Structured => \A c \in Children(cur[t]) : status[c] = FINISHED
    /\ \E r \in Rets :
         MoveTo(t, "fin_ret", r)
    /\ status' = [status EXCEPT ![cur[t]] = FINISHED]
    /\ UNCHANGED <<arrays, locks, tid, ret, parent, stack, freed, switch, crashed>>

\* The body of the running coroutine returns r to _co_func_wrapper, which takes
\* the coroutine's lock and marks it finished.
UserReturn(t) ==
    /\ At(t, "user") /\ cur[t] \in Cid
    /\ Structured => \A c \in Children(cur[t]) : status[c] = FINISHED
    /\ \E r \in Rets :
         MoveTo(t, "fin_ret", r)
    /\ colock' = [colock EXCEPT ![cur[t]] = @ \cup {t}]
    /\ status' = [status EXCEPT ![cur[t]] = FINISHED]
    /\ UNCHANGED <<arrays, cinfoW, cinfoR, tinfoW, tid, ret, parent, stack, freed,
                   switch, crashed>>

\* A function returns to its caller.
Return(t) ==
    /\ At(t, "answered")
    /\ cpu' = [cpu EXCEPT ![t] = UserFrame]
    /\ UNCHANGED <<arrays, locks, coro, switch, crashed>>

-----------------------------------------------------------------------------
(* co_scheduler_init: the write side, which tests again.                   *)

\* Fault: no second test of _co_scheduler after the lock was released.
InitWrite_NoRetest(t) ==
    /\ At(t, "init_wr")
    /\ scheduler' = TRUE /\ tinfo' = <<>> /\ tdata' = 0 /\ tfreed' = 0 /\ clen' = 0
    /\ Goto(t, Entry(cpu[t].op))
    /\ UNCHANGED <<locks, coro, switch, crashed>>

InitWrite(t) ==
    /\ At(t, "init_wr")
    /\ IF scheduler THEN UNCHANGED arrays
       ELSE scheduler' = TRUE /\ tinfo' = <<>> /\ tdata' = 0 /\ tfreed' = 0 /\ clen' = 0
    /\ Goto(t, Entry(cpu[t].op))
    /\ UNCHANGED <<locks, coro, switch, crashed>>

-----------------------------------------------------------------------------
(* co_start                                                                *)

StartCinfo(t) ==
    /\ At(t, "start_cinfo") /\ cinfoW = {} /\ cinfoR = {} /\ clen < MaxCo
    /\ cinfoW' = {t}
    /\ Goto(t, "start_tinfo")
    /\ UNCHANGED <<arrays, cinfoR, tinfoW, colock, coro, switch, crashed>>

\* The bound of the model: past MaxCo coroutines the call is not made.
StartBound(t) ==
    /\ At(t, "start_cinfo") /\ clen = MaxCo
    /\ cpu' = [cpu EXCEPT ![t] = UserFrame]
    /\ UNCHANGED <<arrays, locks, coro, switch, crashed>>

\* Under both locks: fill in the new coroutine, append it to _cinfo and look for
\* the thread's own meta.
StartTinfo(t) ==
    /\ At(t, "start_tinfo") /\ tinfoW = {}
    /\ tinfoW' = {t}
    /\ tid' = [tid EXCEPT ![clen] = t]
    /\ status' = [status EXCEPT ![clen] = RUNNING]
    /\ ret' = [ret EXCEPT ![clen] = -1]
    /\ clen' = clen + 1
    /\ MoveTo(t, IF HasMeta(t) THEN "start_unlock"
                 ELSE IF Len(tinfo) = 2^tdata THEN "start_free" ELSE "start_add", clen)
    /\ UNCHANGED <<scheduler, tinfo, tdata, tfreed, cinfoW, cinfoR, colock, parent,
                   stack, freed, switch, crashed>>

\* co_array_add: a full block is copied and freed, and only then ...
StartFree(t) ==
    /\ At(t, "start_free")
    /\ tfreed' = tdata + 1
    /\ Goto(t, "start_add")
    /\ UNCHANGED <<scheduler, tinfo, tdata, clen, locks, coro, switch, crashed>>

\* Fault: the locks are released before the new entry is filled in.
StartAdd_UnlocksEarly(t) ==
    /\ At(t, "start_add")
    /\ tdata' = tfreed
    /\ tinfo' = Append(tinfo, Uninit)
    /\ cinfoW' = {} /\ tinfoW' = {}
    /\ Goto(t, "start_meta")
    /\ UNCHANGED <<scheduler, tfreed, clen, cinfoR, colock, coro, switch, crashed>>

\* ... arr->data is replaced; the entry counts before its tid is set.
StartAdd(t) ==
    /\ At(t, "start_add")
    /\ tdata' = tfreed
    /\ tinfo' = Append(tinfo, Uninit)
    /\ Goto(t, "start_meta")
    /\ UNCHANGED <<scheduler, tfreed, clen, locks, coro, switch, crashed>>

StartMeta(t) ==
    /\ At(t, "start_meta")
    /\ tinfo' = [tinfo EXCEPT ![Len(tinfo)] = t]
    /\ running' = [running EXCEPT ![t] = t]
    /\ Goto(t, "start_unlock")
    /\ UNCHANGED <<scheduler, tdata, tfreed, clen, locks, coro, cur, uc, crashed>>

StartUnlock(t) ==
    /\ At(t, "start_unlock")
    /\ cinfoW' = {} /\ tinfoW' = {}
    /\ Goto(t, "start_swap")
    /\ UNCHANGED <<arrays, cinfoR, colock, coro, switch, crashed>>

\* Fault: the parent is recorded only when it is a coroutine.
StartSwap_NoMainParent(t) ==
    LET c == cpu[t].val IN
    /\ At(t, "start_swap")
    /\ parent' = IF running[t] = t THEN parent ELSE [parent EXCEPT ![c] = running[t]]
    /\ \E s \in {c} \cup freed : stack' = [stack EXCEPT ![c] = s] /\ freed' = freed \ {s}
    /\ running' = [running EXCEPT ![t] = c]
    /\ uc' = [uc EXCEPT ![running[t]] = UserFrame]
    /\ cur' = [cur EXCEPT ![t] = c]
    /\ cpu' = [cpu EXCEPT ![t] = UserFrame]
    /\ UNCHANGED <<arrays, locks, tid, status, ret, crashed>>

\* Link the coroutine to the routine that starts it, give it a stack, which may be
\* one that was freed, and switch to it: it enters its body.
StartSwap(t) ==
    LET c == cpu[t].val IN
    /\ At(t, "start_swap")
    /\ parent' = [parent EXCEPT ![c] = running[t]]
    /\ \E s \in {c} \cup freed : stack' = [stack EXCEPT ![c] = s] /\ freed' = freed \ {s}
    /\ running' = [running EXCEPT ![t] = c]
    /\ uc' = [uc EXCEPT ![running[t]] = UserFrame]
    /\ cur' = [cur EXCEPT ![t] = c]
    /\ cpu' = [cpu EXCEPT ![t] = UserFrame]
    /\ UNCHANGED <<arrays, locks, tid, status, ret, crashed>>

-----------------------------------------------------------------------------
(* co_yield                                                                *)

YieldMeta(t) ==
    /\ At(t, "yield_meta") /\ tinfoW = {}
    /\ cpu' = [cpu EXCEPT ![t] = IF HasMeta(t) THEN Move(@, "yield_scan", @.val)
                                 ELSE AfterYield(@)]
    /\ UNCHANGED <<arrays, locks, coro, switch, crashed>>

\* Faults: the search does not look at the status, passes over the next coroutine,
\* or begins at 1 for the main routine.
Ready_AnyStatus(t) == {c \in Started : tid[c] = t /\ (running[t] = t \/ c > running[t])}

Ready_SkipsNext(t) == {c \in Started : /\ tid[c] = t /\ status[c] = RUNNING
                                       /\ running[t] = t \/ c > running[t] + 1}

\* The runnable coroutines of the thread past the one that yields.
Ready(t) == {c \in Started : /\ tid[c] = t /\ status[c] = RUNNING
                             /\ running[t] = t \/ c > running[t]}

\* co_yield resumes r: the first that is ready, or else the main routine.
Resumes(t, r) == \/ r \in Ready(t) /\ \A c \in Ready(t) : r <= c
                 \/ r = t /\ Ready(t) = {}

\* Fault: meta->running is left alone when the search finds nothing.
YieldScan_KeepsRunning(t) ==
    /\ At(t, "yield_scan") /\ cinfoW = {}
    /\ \E r \in Started \cup {t} :
         /\ Resumes(t, r)
         /\ running' = IF r = t THEN running ELSE [running EXCEPT ![t] = r]
         /\ IF r = running[t]
            THEN cpu' = [cpu EXCEPT ![t] = AfterYield(@)] /\ UNCHANGED <<cur, uc>>
            ELSE /\ uc' = [uc EXCEPT ![running[t]] = AfterYield(cpu[t])]
                 /\ cur' = [cur EXCEPT ![t] = r]
                 /\ cpu' = [cpu EXCEPT ![t] = uc[r]]
    /\ UNCHANGED <<arrays, locks, coro, crashed>>

YieldScan(t) ==
    /\ At(t, "yield_scan") /\ cinfoW = {}
    /\ \E r \in Started \cup {t} :
         /\ Resumes(t, r)
         /\ running' = [running EXCEPT ![t] = r]
         /\ IF r = running[t]
            THEN cpu' = [cpu EXCEPT ![t] = AfterYield(@)] /\ UNCHANGED <<cur, uc>>
            ELSE /\ uc' = [uc EXCEPT ![running[t]] = AfterYield(cpu[t])]
                 /\ cur' = [cur EXCEPT ![t] = r]
                 /\ cpu' = [cpu EXCEPT ![t] = uc[r]]
    /\ UNCHANGED <<arrays, locks, coro, crashed>>

-----------------------------------------------------------------------------
(* co_wait and co_getret                                                   *)

WaitGet(t) ==
    /\ At(t, "wait_get") /\ cinfoW = {}
    /\ cpu[t].op = "wait" => tinfoW = {}
    /\ Goto(t, "wait_read")
    /\ UNCHANGED <<arrays, locks, coro, switch, crashed>>

\* Fault: status and ret are read without the lock of the coroutine.
WaitRead_NoLock(t) ==
    LET c == cpu[t].arg IN
    /\ At(t, "wait_read")
    /\ IF status[c] = FINISHED
       THEN Answer(t, IF cpu[t].op = "getret" THEN ret[c] ELSE 0)
       ELSE Goto(t, "yield_meta")
    /\ UNCHANGED <<arrays, locks, coro, switch, crashed>>

WaitRead(t) ==
    LET c == cpu[t].arg IN
    /\ At(t, "wait_read") /\ colock[c] = {}
    /\ IF status[c] = FINISHED
       THEN Answer(t, IF cpu[t].op = "getret" THEN ret[c] ELSE 0)
       ELSE Goto(t, "yield_meta")
    /\ UNCHANGED <<arrays, locks, coro, switch, crashed>>

-----------------------------------------------------------------------------
(* co_waitall: val is the index of its loop, which holds _cinfo_lock.      *)

AllLock(t) ==
    /\ At(t, "all_lock") /\ cinfoW = {}
    /\ cinfoR' = cinfoR \cup {t}
    /\ MoveTo(t, "all_read", 0)
    /\ UNCHANGED <<arrays, cinfoW, tinfoW, colock, coro, switch, crashed>>

\* Fault: the break out of the loop does not release _cinfo_lock.
AllRead_KeepsLock(t) ==
    LET c == cpu[t].val IN
    /\ At(t, "all_read")
    /\ c < clen => colock[c] = {}
    /\ IF c < clen /\ status[c] = FINISHED
       THEN MoveTo(t, "all_read", c + 1) /\ UNCHANGED cinfoR
       ELSE /\ cinfoR' = IF c = clen THEN cinfoR \ {t} ELSE cinfoR
            /\ Goto(t, IF c = clen THEN "answered" ELSE "yield_meta")
    /\ UNCHANGED <<arrays, cinfoW, tinfoW, colock, coro, switch, crashed>>

AllRead(t) ==
    LET c == cpu[t].val IN
    /\ At(t, "all_read")
    /\ c < clen => colock[c] = {}
    /\ IF c < clen /\ status[c] = FINISHED
       THEN MoveTo(t, "all_read", c + 1) /\ UNCHANGED cinfoR
       ELSE /\ cinfoR' = cinfoR \ {t}
            /\ Goto(t, IF c = clen THEN "answered" ELSE "yield_meta")
    /\ UNCHANGED <<arrays, cinfoW, tinfoW, colock, coro, switch, crashed>>

-----------------------------------------------------------------------------
(* co_status.  The cid just past the last one is let through: the array is  *)
(* read past its end, and whatever is found there is dereferenced.          *)

\* Fault: only the direct parent is asked for, not the ancestors.
StatusOf_ParentOnly(t, c) ==
    IF /\ tid[c] = t /\ HasMeta(t)
       /\ running[t] \in {t, c, parent[c]}
    THEN status[c] ELSE UNAUTHORIZED

StatusOf(t, c) ==
    IF /\ tid[c] = t /\ HasMeta(t)
       /\ running[t] = t \/ running[t] \in Lineage[c]
    THEN status[c] ELSE UNAUTHORIZED

Status(t) ==
    LET c == cpu[t].arg IN
    /\ At(t, "status") /\ tinfoW = {} /\ cinfoW = {}
    /\ \/ c \in Started /\ Answer(t, StatusOf(t, c)) /\ UNCHANGED crashed
       \/ (c < 0 \/ c > clen) /\ Answer(t, UNAUTHORIZED) /\ UNCHANGED crashed
       \/ /\ c = clen
          /\ \/ crashed' = TRUE /\ UNCHANGED cpu
             \/ /\ \E s \in {UNAUTHORIZED, RUNNING, FINISHED} : Answer(t, s)
                /\ UNCHANGED crashed
    /\ UNCHANGED <<arrays, locks, coro, switch>>

-----------------------------------------------------------------------------
(* _co_getmeta without a lock.  val is the block the walk goes through: once *)
(* it is freed, the walk may die or still find the old entries in it.       *)

Dies(t) == cpu[t].val < tfreed /\ crashed' = TRUE /\ UNCHANGED cpu

GetIdWalk(t) ==
    /\ At(t, "getid_walk")
    /\ \/ Dies(t)
       \/ Answer(t, IF running[t] = t THEN -1 ELSE running[t]) /\ UNCHANGED crashed
    /\ UNCHANGED <<arrays, locks, coro, switch>>

-----------------------------------------------------------------------------
(* _co_func_wrapper, once the body has returned                            *)

FinRet(t) ==
    /\ At(t, "fin_ret")
    /\ ret' = [ret EXCEPT ![cur[t]] = cpu[t].val]
    /\ MoveTo(t, "fin_walk", tdata)
    /\ UNCHANGED <<arrays, locks, tid, status, parent, stack, freed, switch, crashed>>

\* Hand the thread back to the parent and free the stack that is still in use.
FinWalk(t) ==
    /\ At(t, "fin_walk")
    /\ \/ Dies(t) /\ UNCHANGED <<running, freed>>
       \/ /\ running' = [running EXCEPT ![t] = parent[cur[t]]]
          /\ freed' = freed \cup {stack[cur[t]]}
          /\ Goto(t, "fin_exit")
          /\ UNCHANGED crashed
    /\ UNCHANGED <<arrays, locks, tid, status, ret, parent, stack, cur, uc>>

\* Release the lock and fall off the end of the context into uc_link.  The saved
\* context of a parent that has finished lies on a stack that is gone.
FinExit(t) ==
    LET c == cur[t] p == parent[c] IN
    /\ At(t, "fin_exit")
    /\ colock' = [colock EXCEPT ![c] = @ \ {t}]
    /\ cur' = [cur EXCEPT ![t] = p]
    /\ cpu' = [cpu EXCEPT ![t] = uc[p]]
    /\ \/ UNCHANGED crashed
       \/ p \in Cid /\ status[p] = FINISHED /\ crashed' = TRUE
    /\ UNCHANGED <<arrays, cinfoW, cinfoR, tinfoW, coro, running, uc>>

-----------------------------------------------------------------------------
Library(t) ==
    \/ InitWrite(t) \/ Return(t)
    \/ StartCinfo(t) \/ StartBound(t) \/ StartTinfo(t) \/ StartFree(t)
    \/ StartAdd(t) \/ StartMeta(t) \/ StartUnlock(t) \/ StartSwap(t)
    \/ YieldMeta(t) \/ YieldScan(t)
    \/ WaitGet(t) \/ WaitRead(t) \/ AllLock(t) \/ AllRead(t)
    \/ Status(t) \/ GetIdWalk(t)
    \/ FinRet(t) \/ FinWalk(t) \/ FinExit(t)

Client(t) == UserReturn(t) \/ \E op \in API, arg \in -1 .. (MaxCo + 1) : Call(t, op, arg)

Dead == crashed /\ UNCHANGED vars

Next == (\E t \in Threads : Library(t) \/ Client(t)) \/ Dead

Spec == Init /\ [][Next]_vars

\* The processor runs every thread.  The body of a coroutine does not spin for ever:
\* given the processor again and again, it waits for a child or returns.
Finishes(c) ==
    \E t \in Threads :
        /\ cur[t] = c
        /\ \/ UserReturn(t)
           \/ \E d \in Children(c) : status[d] = RUNNING /\ Call(t, "wait", d)

Fairness ==
    /\ \A t \in Threads : WF_vars(Library(t))
    /\ \A c \in Cid : SF_vars(Finishes(c))

FairSpec == Spec /\ Fairness
=============================================================================
