-------------------------- MODULE CoroutineProofs --------------------------
(***************************************************************************)
(* Proofs about the coroutine library, for any number of threads and of    *)
(* coroutines, any bodies and any calls.                                   *)
(***************************************************************************)
EXTENDS CoroutineProperties, WellFoundedInduction, TLAPS

-----------------------------------------------------------------------------
(* The inductive invariant *)

\* The labels of co_start that hold _cinfo_lock, and those that hold both locks.
CinfoSection == {"start_tinfo", "start_free", "start_add", "start_meta", "start_unlock"}
TinfoSection == {"start_free", "start_add", "start_meta", "start_unlock"}

\* The locks of co_start are held by the one thread that is in their section.
LockInv ==
    /\ \A t \in Threads : t \in cinfoW <=> cpu[t].pc \in CinfoSection
    /\ \A t \in Threads : t \in tinfoW <=> cpu[t].pc \in TinfoSection
    /\ \A t, u \in Threads : t \in cinfoW /\ u \in cinfoW => t = u

\* Before the scheduler exists nothing was started.
FreshInv ==
    ~scheduler =>
        /\ clen = 0 /\ tinfo = <<>>
        /\ \A t \in Threads : cpu[t].pc \in {"user", "init_wr"} /\ cur[t] = t

\* A frame waits only for a coroutine that exists and is in a call that has its label.
FrameOK(f) ==
    /\ f.op \in {"wait", "getret"} => f.arg \in Started
    /\ f.pc \in {"wait_get", "wait_read"} => f.op \in {"wait", "getret"}
    /\ f.pc \in {"yield_meta", "yield_scan"} => f.op \in {"yield", "wait", "getret", "waitall"}
    /\ f.pc = "init_wr" => f.op \in API \ {"getid"}
    /\ f.pc \in {"all_lock", "all_read"} => f.op = "waitall"

FrameInv ==
    /\ \A t \in Threads : FrameOK(cpu[t])
    /\ \A r \in Routine : FrameOK(uc[r]) /\ uc[r].pc \in {"user", "wait_read", "all_lock"}

\* co_start has room for the coroutine it appends, and then works on its own one.
StartInv ==
    /\ \A t \in Threads : cpu[t].pc = "start_tinfo" => clen < MaxCo
    /\ \A t \in Threads : cpu[t].pc \in TinfoSection \cup {"start_swap"} =>
                              cpu[t].val \in Started /\ tid[cpu[t].val] = t

\* The coroutine c is linked to its parent: to the main routine of its thread or to an
\* older coroutine of that thread.
Linked(c) == parent[c] = tid[c] \/ (parent[c] \in Started /\ tid[parent[c]] = tid[c])

\* A started coroutine is linked, unless its thread is still inside its co_start; only
\* linked coroutines run, each on its own thread.
LinkInv ==
    /\ \A c \in Started : tid[c] \in Threads
    /\ \A c \in Started :
         \/ Linked(c)
         \/ /\ parent[c] = Uninit
            /\ cpu[tid[c]].pc \in TinfoSection \cup {"start_swap"} /\ cpu[tid[c]].val = c
    /\ \A c \in Cid \ Started : parent[c] = Uninit
    /\ \A c \in Started : parent[c] \in Started => Linked(parent[c])
    /\ \A t \in Threads : cur[t] = t \/ (cur[t] \in Started /\ tid[cur[t]] = t /\ Linked(cur[t]))

\* Entries of _tinfo are complete, except the last one while its owner is filling it in;
\* a thread that runs coroutines has an entry, and never gets a second one.
MetaInv ==
    /\ \A i \in DOMAIN tinfo : tinfo[i] = Uninit =>
         i = Len(tinfo) /\ \E t \in Threads : cpu[t].pc = "start_meta"
    /\ \A t \in Threads : cpu[t].pc = "start_meta" =>
         Len(tinfo) \in DOMAIN tinfo /\ tinfo[Len(tinfo)] = Uninit
    /\ \A i, j \in DOMAIN tinfo : tinfo[i] = tinfo[j] => i = j
    /\ \A t \in Threads : cpu[t].pc \in {"start_free", "start_add", "start_meta"} => ~HasMeta(t)
    /\ \A t \in Threads : cur[t] # t \/ cpu[t].pc \in {"start_unlock", "start_swap", "getid_walk", "yield_scan"} => HasMeta(t)

\* Only a coroutine is inside _co_func_wrapper.
FinishInv == \A t \in Threads : Finishing(t) => cur[t] # t

IInv == /\ TypeOK /\ LockInv /\ FreshInv /\ FrameInv /\ StartInv
        /\ LinkInv /\ MetaInv /\ FinishInv /\ RunningIsCurrent

-----------------------------------------------------------------------------
(* Steps that move one thread from label to label *)

\* A step that only moves thread t from one frame to another, outside the sections of
\* co_start and _co_func_wrapper, keeps the invariant.
LEMMA LocalStep ==
    ASSUME IInv, ~crashed, NEW t \in Threads, NEW f \in Frame,
           cpu' = [cpu EXCEPT ![t] = f],
           UNCHANGED <<arrays, cinfoW, tinfoW, tid, parent, stack, freed, switch>>,
           status' \in [Cid -> {0, RUNNING, FINISHED}], ret' \in [Cid -> Int],
           cinfoR' \subseteq Threads, colock' \in [Cid -> SUBSET Threads],
           crashed' \in BOOLEAN,
           cpu[t].pc \notin CinfoSection \cup {"start_swap", "fin_exit"},
           f.pc \notin CinfoSection \cup {"start_swap", "fin_exit"},
           FrameOK(f),
           f.pc \in {"user", "init_wr"} \/ scheduler,
           f.pc \in {"getid_walk", "yield_scan"} => HasMeta(t),
           f.pc \in {"fin_ret", "fin_walk"} => cur[t] # t
    PROVE  IInv'
<1> USE DEF IInv, TypeOK, CinfoSection, TinfoSection
<1>1. /\ cpu'[t] = f /\ \A u \in Threads : u # t => cpu'[u] = cpu[u]
      /\ cpu' \in [Threads -> Frame]
  OBVIOUS
<1>2. TypeOK'
  BY <1>1 DEF arrays, switch
<1>3. LockInv'
  BY <1>1 DEF LockInv
<1>4. FreshInv'
  BY <1>1 DEF FreshInv, arrays, switch
<1>5. FrameInv'
  BY <1>1 DEF FrameInv, FrameOK, Started, arrays, switch
<1>6. LinkInv' /\ StartInv'
  BY <1>1 DEF LinkInv, StartInv, Linked, Started, arrays, switch
<1>7. MetaInv'
  BY <1>1 DEF MetaInv, HasMeta, arrays, switch
<1>8. FinishInv'
  BY <1>1 DEF FinishInv, Finishing, switch
<1>9. RunningIsCurrent'
  BY <1>1 DEF RunningIsCurrent, switch
<1> QED
  BY <1>2, <1>3, <1>4, <1>5, <1>6, <1>7, <1>8, <1>9

\* Calls, answers and the read-only sections of the library are such steps.
LEMMA LocalActions ==
    ASSUME IInv, NEW t \in Threads,
           \/ \E op \in API, arg \in -1 .. (MaxCo + 1) : Call(t, op, arg)
           \/ Return(t) \/ StartBound(t) \/ YieldMeta(t) \/ WaitGet(t) \/ WaitRead(t)
           \/ AllLock(t) \/ AllRead(t) \/ Status(t) \/ GetIdWalk(t)
    PROVE  IInv'
<1> USE DEF At, Frame, Labels, CinfoSection, TinfoSection, locks, coro
<1>0. /\ cpu \in [Threads -> Frame] /\ FrameOK(cpu[t]) /\ MaxCo \in Nat
      /\ clen \in Nat /\ cinfoR \subseteq Threads /\ colock \in [Cid -> SUBSET Threads]
      /\ crashed \in BOOLEAN /\ tdata \in Nat /\ ret \in [Cid -> Int]
      /\ status \in [Cid -> {0, RUNNING, FINISHED}] /\ running \in [Threads -> Routine] /\ clen <= MaxCo
  BY BoundAssumption DEF IInv, TypeOK, FrameInv
<1>1. ASSUME NEW op \in API, NEW arg \in -1 .. (MaxCo + 1), Call(t, op, arg)
      PROVE  IInv'
  <2> DEFINE f == [pc |-> IF op = "getid" \/ scheduler THEN Entry(op) ELSE "init_wr",
                   op |-> op, arg |-> arg, val |-> IF op = "getid" THEN tdata ELSE 0]
  <2>1. f \in Frame
    BY <1>0, <1>1 DEF API, Entry
  <2>2. FrameOK(f)
    BY <1>1 DEF Call, Legal, FrameOK, Children, API, Entry
  <2>3. f.pc \in {"init_wr", "start_cinfo", "yield_meta", "wait_get", "all_lock", "status", "getid_walk"}
    BY DEF API, Entry
  <2>4. f.pc = "getid_walk" => HasMeta(t)
    BY <1>1 DEF Call, Legal, API, Entry
  <2>5. f.pc = "init_wr" \/ scheduler
    <3>1. op = "getid" => DOMAIN tinfo # {}
      BY <1>1 DEF Call, Legal, HasMeta
    <3> QED
      BY <3>1 DEF IInv, FreshInv, Entry
  <2> QED
    BY <1>0, <1>1, <2>1, <2>2, <2>3, <2>4, <2>5, LocalStep DEF Call
<1>2. CASE Return(t) \/ StartBound(t)
  <2>1. UserFrame \in Frame /\ FrameOK(UserFrame) /\ UserFrame.pc = "user"
    BY DEF UserFrame, FrameOK, API
  <2> QED
    BY <1>0, <1>2, <2>1, LocalStep DEF Return, StartBound
<1>4. scheduler \/ cpu[t].pc \in {"user", "init_wr"}
  BY DEF IInv, FreshInv
<1>6. CASE YieldMeta(t)
  <2> DEFINE f == IF HasMeta(t) THEN Move(cpu[t], "yield_scan", cpu[t].val)
                  ELSE AfterYield(cpu[t])
  <2>1. /\ f \in Frame /\ FrameOK(f) /\ f.pc \in {"yield_scan", "user", "all_lock", "wait_read"}
        /\ f.pc = "yield_scan" => HasMeta(t)
    BY <1>0, <1>6 DEF YieldMeta, AfterYield, UserFrame, FrameOK, API, Move
  <2>2. cpu' = [cpu EXCEPT ![t] = f]
    BY <1>6 DEF YieldMeta
  <2> HIDE DEF f
  <2> QED
    BY <1>0, <1>4, <1>6, <2>1, <2>2, LocalStep DEF YieldMeta
<1>7. CASE WaitGet(t)
  <2> DEFINE f == Move(cpu[t], "wait_read", cpu[t].val)
  <2>1. f \in Frame /\ FrameOK(f) /\ f.pc = "wait_read"
    BY <1>0, <1>7 DEF WaitGet, FrameOK, Move
  <2>2. cpu' = [cpu EXCEPT ![t] = f]
    BY <1>7 DEF WaitGet, Goto
  <2> HIDE DEF f
  <2> QED
    BY <1>0, <1>4, <1>7, <2>1, <2>2, LocalStep DEF WaitGet
<1>8. CASE WaitRead(t)
  <2> DEFINE v == IF cpu[t].op = "getret" THEN ret[cpu[t].arg] ELSE 0
             f == IF status[cpu[t].arg] = FINISHED THEN Move(cpu[t], "answered", v)
                  ELSE Move(cpu[t], "yield_meta", cpu[t].val)
  <2>1. v \in Int
    BY <1>0, <1>8 DEF WaitRead, FrameOK, Started, Cid
  <2>2. f \in Frame /\ FrameOK(f) /\ f.pc \in {"answered", "yield_meta"}
    BY <1>0, <1>8, <2>1 DEF WaitRead, FrameOK, Move
  <2>3. cpu' = [cpu EXCEPT ![t] = f]
    BY <1>0, <1>8 DEF WaitRead, Goto, Answer, MoveTo
  <2> HIDE DEF f
  <2> QED
    BY <1>0, <1>4, <1>8, <2>2, <2>3, LocalStep DEF WaitRead
<1>9. CASE AllLock(t)
  <2> DEFINE f == Move(cpu[t], "all_read", 0)
  <2>1. f \in Frame /\ FrameOK(f) /\ f.pc = "all_read"
    BY <1>0, <1>9 DEF AllLock, FrameOK, Move
  <2>2. cpu' = [cpu EXCEPT ![t] = f]
    BY <1>9 DEF AllLock, MoveTo
  <2> HIDE DEF f
  <2> QED
    BY <1>0, <1>4, <1>9, <2>1, <2>2, LocalStep DEF AllLock
<1>10. CASE AllRead(t)
  <2> DEFINE c == cpu[t].val
             f == IF c < clen /\ status[c] = FINISHED THEN Move(cpu[t], "all_read", c + 1)
                  ELSE Move(cpu[t], IF c = clen THEN "answered" ELSE "yield_meta", c)
  <2>1. cpu' = [cpu EXCEPT ![t] = f]
    BY <1>0, <1>10 DEF AllRead, Goto, MoveTo
  <2>2. f \in Frame /\ FrameOK(f) /\ f.pc \in {"all_read", "answered", "yield_meta"}
    BY <1>0, <1>10 DEF AllRead, FrameOK, Move
  <2> HIDE DEF f
  <2>3. cinfoR' \subseteq Threads
    BY <1>0, <1>10 DEF AllRead
  <2> QED
    BY <1>0, <1>4, <1>10, <2>1, <2>2, <2>3, LocalStep DEF AllRead
<1>11. CASE Status(t)
  <2> DEFINE c == cpu[t].arg
             f(v) == Move(cpu[t], "answered", v)
  <2>1. \A v \in Int : f(v) \in Frame /\ FrameOK(f(v)) /\ f(v).pc = "answered"
    BY <1>0, <1>11 DEF Status, FrameOK, Move
  <2>2. c \in Started => StatusOf(t, c) \in Int
    BY <1>0 DEF StatusOf, UNAUTHORIZED, RUNNING, FINISHED, Started, Cid
  <2>3. \/ \E v \in Int : cpu' = [cpu EXCEPT ![t] = f(v)]
        \/ cpu' = cpu /\ crashed' = TRUE
    BY <1>0, <1>11, <2>2 DEF Status, Answer, MoveTo, UNAUTHORIZED, RUNNING, FINISHED
  <2>4. CASE cpu' = cpu /\ crashed' = TRUE
    <3>1. cpu[t] \in Frame /\ cpu' = [cpu EXCEPT ![t] = cpu[t]]
      BY <1>0, <2>4
    <3> QED
      BY <1>0, <1>4, <1>11, <2>4, <3>1, LocalStep DEF Status
  <2>5. ASSUME NEW v \in Int, cpu' = [cpu EXCEPT ![t] = f(v)]
        PROVE  IInv'
    <3>1. crashed' \in BOOLEAN
      BY <1>0, <1>11 DEF Status
    <3> HIDE DEF f
    <3> QED
      BY <1>0, <1>4, <1>11, <2>1, <2>5, <3>1, LocalStep DEF Status
  <2> QED
    BY <2>3, <2>4, <2>5
<1>12. CASE GetIdWalk(t)
  <2> DEFINE v == IF running[t] = t THEN -1 ELSE running[t]
             f == Move(cpu[t], "answered", v)
  <2>1. v \in Int
    BY <1>0, <1>12 DEF GetIdWalk, IInv, RunningIsCurrent, LinkInv, Started
  <2>2. f \in Frame /\ FrameOK(f) /\ f.pc = "answered"
    BY <1>0, <1>12, <2>1 DEF GetIdWalk, FrameOK, Move
  <2>3. CASE cpu' = [cpu EXCEPT ![t] = f] /\ UNCHANGED crashed
    <3> HIDE DEF f
    <3> QED
      BY <1>0, <1>4, <1>12, <2>2, <2>3, LocalStep DEF GetIdWalk
  <2>4. CASE cpu' = cpu /\ crashed' = TRUE
    <3>1. cpu[t] \in Frame /\ cpu' = [cpu EXCEPT ![t] = cpu[t]]
      BY <1>0, <2>4
    <3>2. HasMeta(t)
      BY <1>12 DEF GetIdWalk, IInv, MetaInv
    <3> QED
      BY <1>0, <1>4, <1>12, <2>4, <3>1, <3>2, LocalStep DEF GetIdWalk
  <2> QED
    BY <1>12, <2>3, <2>4 DEF GetIdWalk, Answer, MoveTo, Dies
<1> QED
  BY <1>1, <1>2, <1>6, <1>7, <1>8, <1>9, <1>10, <1>11, <1>12

\* The return of a body, and the write of its result, are such steps too.
LEMMA ReturnActions ==
    ASSUME IInv, NEW t \in Threads, UserReturn(t) \/ FinRet(t)
    PROVE  IInv'
<1> USE DEF At, Frame, Labels, CinfoSection, TinfoSection, locks, MoveTo
<1>0. /\ cpu \in [Threads -> Frame] /\ FrameOK(cpu[t]) /\ cur \in [Threads -> Routine]
      /\ cinfoR \subseteq Threads /\ colock \in [Cid -> SUBSET Threads]
      /\ crashed \in BOOLEAN /\ tdata \in Nat /\ ret \in [Cid -> Int]
      /\ status \in [Cid -> {0, RUNNING, FINISHED}]
      /\ cur[t] # t => scheduler
  BY DEF IInv, TypeOK, FrameInv, FreshInv
<1>1. CASE UserReturn(t)
  <2>1. PICK r \in Rets : cpu' = [cpu EXCEPT ![t] = Move(@, "fin_ret", r)]
    BY <1>1 DEF UserReturn
  <2> DEFINE f == Move(cpu[t], "fin_ret", r)
  <2>2. f \in Frame /\ FrameOK(f) /\ f.pc = "fin_ret"
    BY <1>0, <1>1, RetsAssumption DEF UserReturn, FrameOK, Move
  <2>3. cpu' = [cpu EXCEPT ![t] = f]
    BY <2>1
  <2>4. cur[t] # t
    BY <1>1, ThreadsAssumption DEF UserReturn, Cid
  <2>5. /\ colock' \in [Cid -> SUBSET Threads]
        /\ status' \in [Cid -> {0, RUNNING, FINISHED}]
    BY <1>0, <1>1 DEF UserReturn
  <2> HIDE DEF f
  <2> QED
    BY <1>0, <1>1, <2>2, <2>3, <2>4, <2>5, LocalStep DEF UserReturn
<1>2. CASE FinRet(t)
  <2> DEFINE f == Move(cpu[t], "fin_walk", tdata)
  <2>1. f \in Frame /\ FrameOK(f) /\ f.pc = "fin_walk"
    BY <1>0, <1>2 DEF FinRet, FrameOK, Move
  <2>2. cpu' = [cpu EXCEPT ![t] = f]
    BY <1>2 DEF FinRet
  <2>3. cur[t] # t
    BY <1>2 DEF FinRet, IInv, FinishInv, Finishing
  <2>4. ret' \in [Cid -> Int]
    BY <1>0, <1>2 DEF FinRet
  <2> HIDE DEF f
  <2> QED
    BY <1>0, <1>2, <2>1, <2>2, <2>3, <2>4, LocalStep DEF FinRet
<1> QED
  BY <1>1, <1>2

-----------------------------------------------------------------------------
(* co_scheduler_init and co_start *)

\* Inside co_start's locks a thread is alone.
LEMMA Alone ==
    ASSUME IInv, NEW t \in Threads, cpu[t].pc \in CinfoSection
    PROVE  /\ scheduler
           /\ cinfoW = {t}
           /\ tinfoW = IF cpu[t].pc \in TinfoSection THEN {t} ELSE {}
           /\ \A u \in Threads : u # t => cpu[u].pc \notin CinfoSection
  BY DEF IInv, TypeOK, LockInv, FreshInv, CinfoSection, TinfoSection

\* What a step from label to label under both locks leaves intact.
LEMMA SectionMove ==
    ASSUME IInv, NEW t \in Threads, cpu[t].pc \in TinfoSection,
           NEW pc \in TinfoSection \cup {"start_swap"},
           cpu' = [cpu EXCEPT ![t] = Move(@, pc, @.val)],
           UNCHANGED <<scheduler, clen, tid, parent, cur, uc>>
    PROVE  /\ cpu' \in [Threads -> Frame]
           /\ cpu'[t].pc = pc /\ \A u \in Threads : u # t => cpu'[u] = cpu[u]
           /\ FreshInv' /\ FrameInv' /\ StartInv' /\ LinkInv' /\ FinishInv'
<1> USE DEF IInv, TypeOK, Frame, Labels, CinfoSection, TinfoSection
<1>1. /\ cpu' \in [Threads -> Frame] /\ cpu'[t] = Move(cpu[t], pc, cpu[t].val)
      /\ \A u \in Threads : u # t => cpu'[u] = cpu[u]
  BY DEF Move
<1>2. /\ cpu'[t].pc = pc /\ cpu'[t].val = cpu[t].val
      /\ cpu'[t].op = cpu[t].op /\ cpu'[t].arg = cpu[t].arg
  BY <1>1 DEF Move
<1>3. FreshInv'
  BY <1>1, <1>2, Alone DEF FreshInv
<1>4. FrameInv'
  BY <1>1, <1>2 DEF FrameInv, FrameOK, Started
<1>5. StartInv'
  <2>1. \A u \in Threads : cpu'[u].pc = "start_tinfo" => clen < MaxCo
    BY <1>1, <1>2 DEF StartInv
  <2>2. \A u \in Threads : cpu'[u].pc \in TinfoSection \cup {"start_swap"} =>
              cpu'[u].val \in Started /\ tid[cpu'[u].val] = u
    BY <1>1, <1>2 DEF StartInv
  <2> QED
    BY <2>1, <2>2 DEF StartInv, Started
<1>6. LinkInv'
  <2>1. \A c \in Started : Linked(c)' <=> Linked(c)
    BY DEF Linked, Started
  <2>2. \A u \in Threads : cpu[u].pc \in TinfoSection \cup {"start_swap"} =>
              cpu'[u].pc \in TinfoSection \cup {"start_swap"} /\ cpu'[u].val = cpu[u].val
    BY <1>1, <1>2
  <2> QED
    BY <2>1, <2>2 DEF LinkInv, Linked, Started
<1>7. FinishInv'
  <2>1. \A u \in Threads : Finishing(u)' => Finishing(u)
    BY <1>1, <1>2 DEF Finishing
  <2> QED
    BY <2>1 DEF FinishInv
<1> QED
  BY <1>1, <1>2, <1>3, <1>4, <1>5, <1>6, <1>7

\* co_array_add frees the full block.
LEMMA StartFreeStep ==
    ASSUME IInv, NEW t \in Threads, StartFree(t)
    PROVE  IInv'
<1> USE DEF IInv, CinfoSection, TinfoSection
<1>1. /\ cpu[t].pc = "start_free" /\ cpu' = [cpu EXCEPT ![t] = Move(@, "start_add", @.val)]
      /\ UNCHANGED <<scheduler, tinfo, tdata, clen, locks, coro, switch, crashed>>
      /\ tfreed' = tdata + 1
  BY DEF StartFree, At, Goto
<1>2. /\ cpu' \in [Threads -> Frame] /\ cpu'[t].pc = "start_add"
      /\ \A u \in Threads : u # t => cpu'[u] = cpu[u]
      /\ FreshInv' /\ FrameInv' /\ StartInv' /\ LinkInv' /\ FinishInv'
  BY <1>1, SectionMove DEF coro, switch
<1>3. TypeOK'
  BY <1>1, <1>2 DEF TypeOK, locks, coro, switch
<1>4. LockInv'
  BY <1>1, <1>2 DEF LockInv, locks
<1>5. MetaInv'
  BY <1>1, <1>2 DEF MetaInv, HasMeta, switch
<1>6. RunningIsCurrent'
  BY <1>1, <1>2 DEF RunningIsCurrent, coro, switch
<1> QED
  BY <1>2, <1>3, <1>4, <1>5, <1>6

\* co_array_add appends the entry.
LEMMA StartAddStep ==
    ASSUME IInv, NEW t \in Threads, StartAdd(t)
    PROVE  IInv'
<1> USE DEF IInv, CinfoSection, TinfoSection
<1>1. /\ cpu[t].pc = "start_add" /\ cpu' = [cpu EXCEPT ![t] = Move(@, "start_meta", @.val)]
      /\ UNCHANGED <<scheduler, tfreed, clen, locks, coro, switch, crashed>>
      /\ tdata' = tfreed /\ tinfo' = Append(tinfo, Uninit)
  BY DEF StartAdd, At, Goto
<1>2. /\ cpu' \in [Threads -> Frame] /\ cpu'[t].pc = "start_meta"
      /\ \A u \in Threads : u # t => cpu'[u] = cpu[u]
      /\ FreshInv' /\ FrameInv' /\ StartInv' /\ LinkInv' /\ FinishInv'
  BY <1>1, SectionMove DEF coro, switch
<1>3. tinfo \in Seq(Threads \cup {Uninit}) /\ \A u \in Threads : u # t => cpu[u].pc \notin CinfoSection
  BY <1>1, Alone DEF TypeOK
<1>4. /\ tinfo' \in Seq(Threads \cup {Uninit})
      /\ Len(tinfo') = Len(tinfo) + 1 /\ DOMAIN tinfo' = 1 .. Len(tinfo')
      /\ tinfo'[Len(tinfo')] = Uninit
      /\ \A i \in DOMAIN tinfo : i \in DOMAIN tinfo' /\ tinfo'[i] = tinfo[i]
      /\ \A i \in DOMAIN tinfo' : i \in DOMAIN tinfo \/ i = Len(tinfo')
  BY <1>1, <1>3
<1>5. \A i \in DOMAIN tinfo : tinfo[i] # Uninit
  BY <1>1, <1>3 DEF MetaInv
<1>6. TypeOK'
  BY <1>1, <1>2, <1>4 DEF TypeOK, locks, coro, switch
<1>7. LockInv'
  BY <1>1, <1>2 DEF LockInv, locks
<1>8. \A u \in Threads : HasMeta(u)' <=> HasMeta(u)
  BY <1>3, <1>4, ThreadsAssumption DEF HasMeta
<1>9. MetaInv'
  <2>1. \A i \in DOMAIN tinfo' : tinfo'[i] = Uninit =>
          i = Len(tinfo') /\ \E u \in Threads : cpu'[u].pc = "start_meta"
    BY <1>2, <1>4, <1>5
  <2>2. \A u \in Threads : cpu'[u].pc = "start_meta" =>
          Len(tinfo') \in DOMAIN tinfo' /\ tinfo'[Len(tinfo')] = Uninit
    BY <1>3, <1>4
  <2>3. \A i, j \in DOMAIN tinfo' : tinfo'[i] = tinfo'[j] => i = j
    BY <1>4, <1>5 DEF MetaInv
  <2>4. \A u \in Threads : cpu'[u].pc \in {"start_free", "start_add", "start_meta"} => ~HasMeta(u)'
    BY <1>1, <1>2, <1>3, <1>8 DEF MetaInv
  <2>5. \A u \in Threads : cur'[u] # u \/ cpu'[u].pc \in {"start_unlock", "start_swap", "getid_walk", "yield_scan"} => HasMeta(u)'
    BY <1>1, <1>2, <1>8 DEF MetaInv, switch
  <2> QED
    BY <2>1, <2>2, <2>3, <2>4, <2>5 DEF MetaInv
<1>10. RunningIsCurrent'
  BY <1>1, <1>2 DEF RunningIsCurrent, coro, switch
<1> QED
  BY <1>2, <1>6, <1>7, <1>9, <1>10

\* co_start fills in the entry.
LEMMA StartMetaStep ==
    ASSUME IInv, NEW t \in Threads, StartMeta(t)
    PROVE  IInv'
<1> USE DEF IInv, CinfoSection, TinfoSection
<1>1. /\ cpu[t].pc = "start_meta" /\ cpu' = [cpu EXCEPT ![t] = Move(@, "start_unlock", @.val)]
      /\ UNCHANGED <<scheduler, tdata, tfreed, clen, locks, coro, cur, uc, crashed>>
      /\ tinfo' = [tinfo EXCEPT ![Len(tinfo)] = t]
      /\ running' = [running EXCEPT ![t] = t] /\ ~crashed
  BY DEF StartMeta, At, Goto
<1>2. /\ cpu' \in [Threads -> Frame] /\ cpu'[t].pc = "start_unlock"
      /\ \A u \in Threads : u # t => cpu'[u] = cpu[u]
      /\ FreshInv' /\ FrameInv' /\ StartInv' /\ LinkInv' /\ FinishInv'
  BY <1>1, SectionMove DEF coro
<1>3. /\ tinfo \in Seq(Threads \cup {Uninit})
      /\ \A u \in Threads : u # t => cpu[u].pc \notin CinfoSection
      /\ ~HasMeta(t) /\ cur[t] = t
      /\ Len(tinfo) \in DOMAIN tinfo /\ tinfo[Len(tinfo)] = Uninit
  BY <1>1, Alone DEF TypeOK, MetaInv
<1>4. /\ tinfo' \in Seq(Threads \cup {Uninit})
      /\ Len(tinfo') = Len(tinfo) /\ DOMAIN tinfo' = DOMAIN tinfo
      /\ tinfo'[Len(tinfo)] = t
      /\ \A i \in DOMAIN tinfo : i # Len(tinfo) => tinfo'[i] = tinfo[i]
  BY <1>1, <1>3
<1>5. TypeOK'
  BY <1>1, <1>2, <1>4 DEF TypeOK, locks, coro, Routine
<1>6. LockInv'
  BY <1>1, <1>2 DEF LockInv, locks
<1>7. \A u \in Threads : HasMeta(u)' <=> HasMeta(u) \/ u = t
  BY <1>3, <1>4, ThreadsAssumption DEF HasMeta
<1>8. \A i \in DOMAIN tinfo : tinfo'[i] # Uninit
  BY <1>3, <1>4, ThreadsAssumption DEF MetaInv
<1>9. MetaInv'
  <2>1. \A i, j \in DOMAIN tinfo' : tinfo'[i] = tinfo'[j] => i = j
    BY <1>3, <1>4 DEF MetaInv, HasMeta
  <2>2. \A u \in Threads : cpu'[u].pc \in {"start_free", "start_add", "start_meta"} => ~HasMeta(u)'
    BY <1>2, <1>3
  <2>3. \A u \in Threads : cur'[u] # u \/ cpu'[u].pc \in {"start_unlock", "start_swap", "getid_walk", "yield_scan"} => HasMeta(u)'
    BY <1>1, <1>2, <1>7 DEF MetaInv
  <2>4. \A u \in Threads : cpu'[u].pc # "start_meta"
    BY <1>2, <1>3
  <2> QED
    BY <1>4, <1>8, <2>1, <2>2, <2>3, <2>4 DEF MetaInv
<1>10. RunningIsCurrent'
  BY <1>1, <1>2, <1>3 DEF RunningIsCurrent, coro, TypeOK
<1> QED
  BY <1>2, <1>5, <1>6, <1>9, <1>10

\* co_start releases both locks.
LEMMA StartUnlockStep ==
    ASSUME IInv, NEW t \in Threads, StartUnlock(t)
    PROVE  IInv'
<1> USE DEF IInv, CinfoSection, TinfoSection
<1>1. /\ cpu[t].pc = "start_unlock" /\ cpu' = [cpu EXCEPT ![t] = Move(@, "start_swap", @.val)]
      /\ UNCHANGED <<arrays, cinfoR, colock, coro, switch, crashed>>
      /\ cinfoW' = {} /\ tinfoW' = {}
  BY DEF StartUnlock, At, Goto
<1>2. /\ cpu' \in [Threads -> Frame] /\ cpu'[t].pc = "start_swap"
      /\ \A u \in Threads : u # t => cpu'[u] = cpu[u]
      /\ FreshInv' /\ FrameInv' /\ StartInv' /\ LinkInv' /\ FinishInv'
  BY <1>1, SectionMove DEF arrays, coro, switch
<1>3. TypeOK'
  BY <1>1, <1>2 DEF TypeOK, arrays, coro, switch
<1>4. LockInv'
  BY <1>1, <1>2, Alone DEF LockInv
<1>5. MetaInv'
  BY <1>1, <1>2 DEF MetaInv, HasMeta, arrays, switch
<1>6. RunningIsCurrent'
  BY <1>1, <1>2 DEF RunningIsCurrent, coro, switch
<1> QED
  BY <1>2, <1>3, <1>4, <1>5, <1>6

\* The write side of co_scheduler_init.
LEMMA InitWriteStep ==
    ASSUME IInv, NEW t \in Threads, InitWrite(t)
    PROVE  IInv'
<1> DEFINE f == Move(cpu[t], Entry(cpu[t].op), cpu[t].val)
<1>1. /\ cpu \in [Threads -> Frame] /\ FrameOK(cpu[t]) /\ cpu[t].pc = "init_wr" /\ ~crashed
      /\ cpu' = [cpu EXCEPT ![t] = f] /\ UNCHANGED <<locks, coro, switch, crashed>>
  BY DEF IInv, TypeOK, FrameInv, InitWrite, At, Goto
<1>2. /\ f \in Frame /\ FrameOK(f)
      /\ f.pc \in {"start_cinfo", "yield_meta", "wait_get", "all_lock", "status"}
  BY <1>1 DEF Frame, Labels, FrameOK, Move, Entry, API
<1> HIDE DEF f
<1>3. CASE scheduler
  BY <1>1, <1>2, <1>3, LocalStep DEF InitWrite, locks, coro, IInv, TypeOK, CinfoSection
<1>4. CASE ~scheduler
  <2> USE DEF IInv, CinfoSection, TinfoSection
  <2>1. /\ scheduler' = TRUE /\ tinfo' = tinfo /\ tdata' = 0 /\ tfreed' = 0 /\ clen' = clen
    BY <1>4 DEF InitWrite, FreshInv
  <2>2. /\ cpu' \in [Threads -> Frame] /\ cpu'[t] = f
        /\ \A u \in Threads : u # t => cpu'[u] = cpu[u]
    BY <1>1, <1>2
  <2>3. TypeOK'
    BY <1>1, <2>1, <2>2 DEF TypeOK, locks, coro, switch
  <2>4. LockInv'
    BY <1>1, <1>2, <2>2 DEF LockInv, locks
  <2>5. FreshInv'
    BY <2>1 DEF FreshInv
  <2>6. FrameInv' /\ StartInv'
    BY <1>1, <1>2, <2>1, <2>2 DEF FrameInv, StartInv, FrameOK, Started, coro, switch
  <2>7. LinkInv'
    BY <1>1, <1>2, <2>1, <2>2 DEF LinkInv, Linked, Started, coro, switch
  <2>8. MetaInv'
    BY <1>1, <1>2, <2>1, <2>2 DEF MetaInv, HasMeta, switch
  <2>9. FinishInv' /\ RunningIsCurrent'
    BY <1>1, <1>2, <2>1, <2>2 DEF FinishInv, Finishing, RunningIsCurrent, coro, switch
  <2> QED
    BY <2>3, <2>4, <2>5, <2>6, <2>7, <2>8, <2>9
<1> QED
  BY <1>3, <1>4

\* co_start takes _cinfo_lock.
LEMMA StartCinfoStep ==
    ASSUME IInv, NEW t \in Threads, StartCinfo(t)
    PROVE  IInv'
<1> USE DEF IInv, CinfoSection, TinfoSection
<1>1. /\ cpu[t].pc = "start_cinfo" /\ ~crashed /\ cinfoW = {} /\ cinfoW' = {t} /\ clen < MaxCo
      /\ cpu' = [cpu EXCEPT ![t] = Move(@, "start_tinfo", @.val)]
      /\ UNCHANGED <<arrays, cinfoR, tinfoW, colock, coro, switch, crashed>>
  BY DEF StartCinfo, At, Goto
<1>2. /\ cpu' \in [Threads -> Frame] /\ cpu'[t] = Move(cpu[t], "start_tinfo", cpu[t].val)
      /\ \A u \in Threads : u # t => cpu'[u] = cpu[u]
  BY <1>1 DEF TypeOK, Move, Frame, Labels
<1>3. /\ cpu'[t].pc = "start_tinfo" /\ cpu'[t].val = cpu[t].val
      /\ cpu'[t].op = cpu[t].op /\ cpu'[t].arg = cpu[t].arg
  BY <1>2 DEF Move
<1>4. TypeOK'
  BY <1>1, <1>2 DEF TypeOK, arrays, coro, switch
<1>5. LockInv'
  BY <1>1, <1>2, <1>3 DEF LockInv
<1>6. FreshInv'
  BY <1>1 DEF FreshInv, arrays
<1>7. FrameInv'
  BY <1>1, <1>2, <1>3 DEF FrameInv, FrameOK, Started, arrays, switch
<1>8. StartInv'
  BY <1>1, <1>2, <1>3 DEF StartInv, Started, arrays, coro
<1>9. LinkInv'
  BY <1>1, <1>2, <1>3 DEF LinkInv, Linked, Started, arrays, coro, switch
<1>10. MetaInv'
  BY <1>1, <1>2, <1>3 DEF MetaInv, HasMeta, arrays, switch
<1>11. FinishInv' /\ RunningIsCurrent'
  BY <1>1, <1>2, <1>3 DEF FinishInv, Finishing, RunningIsCurrent, coro, switch
<1> QED
  BY <1>4, <1>5, <1>6, <1>7, <1>8, <1>9, <1>10, <1>11

\* co_start appends the new coroutine and looks for the thread's meta.
LEMMA StartTinfoStep ==
    ASSUME IInv, NEW t \in Threads, StartTinfo(t)
    PROVE  IInv'
<1> USE DEF IInv, CinfoSection, TinfoSection
<1> DEFINE pc == IF HasMeta(t) THEN "start_unlock"
                 ELSE IF Len(tinfo) = 2^tdata THEN "start_free" ELSE "start_add"
<1>1. /\ cpu[t].pc = "start_tinfo" /\ ~crashed /\ tinfoW = {} /\ tinfoW' = {t}
      /\ cpu' = [cpu EXCEPT ![t] = Move(@, pc, clen)] /\ clen' = clen + 1
      /\ tid' = [tid EXCEPT ![clen] = t] /\ status' = [status EXCEPT ![clen] = RUNNING]
      /\ ret' = [ret EXCEPT ![clen] = -1]
      /\ UNCHANGED <<scheduler, tinfo, tdata, tfreed, cinfoW, cinfoR, colock, parent,
                     stack, freed, switch, crashed>>
  BY DEF StartTinfo, At, MoveTo
<1>2. /\ pc \in {"start_unlock", "start_free", "start_add"}
      /\ pc = "start_unlock" <=> HasMeta(t)
  OBVIOUS
<1> HIDE DEF pc
<1>3. clen \in Nat /\ clen < MaxCo /\ clen \in Cid /\ clen \notin Started
      /\ Started' = Started \cup {clen} /\ MaxCo \in Nat
  BY <1>1, BoundAssumption DEF TypeOK, StartInv, Started, Cid
<1>4. /\ cpu' \in [Threads -> Frame] /\ cpu'[t] = Move(cpu[t], pc, clen)
      /\ \A u \in Threads : u # t => cpu'[u] = cpu[u]
  BY <1>1, <1>2, <1>3 DEF TypeOK, Move, Frame, Labels
<1>5. /\ cpu'[t].pc = pc /\ cpu'[t].val = clen
      /\ cpu'[t].op = cpu[t].op /\ cpu'[t].arg = cpu[t].arg
  BY <1>4 DEF Move
<1>6. TypeOK'
  BY <1>1, <1>3, <1>4 DEF TypeOK, switch
<1>7. LockInv'
  BY <1>1, <1>2, <1>4, <1>5, Alone DEF LockInv
<1>8. FreshInv'
  BY <1>1, Alone DEF FreshInv
<1>9. FrameInv'
  BY <1>1, <1>2, <1>3, <1>4, <1>5 DEF FrameInv, FrameOK, switch
<1>10. /\ tid'[clen] = t /\ \A c \in Started : tid'[c] = tid[c]
  BY <1>1, <1>3 DEF TypeOK, Started, Cid
<1>11. \A u \in Threads : u # t => cpu[u].pc \notin CinfoSection
  BY <1>1, Alone
<1>12. StartInv'
  BY <1>1, <1>2, <1>3, <1>4, <1>5, <1>10, <1>11 DEF StartInv
<1>13. LinkInv'
  <2>1. parent' = parent /\ cur' = cur /\ parent[clen] = Uninit
    BY <1>1, <1>3 DEF switch, LinkInv
  <2>2. \A c \in Started : parent[c] # clen
    BY <1>3, ThreadsAssumption DEF LinkInv, Linked, Started
  <2>3. \A c \in Started : Linked(c) => Linked(c)'
    BY <1>3, <1>10, <2>1 DEF Linked
  <2>4. \A c \in Started' : tid'[c] \in Threads
    BY <1>3, <1>10 DEF LinkInv
  <2>5. \A c \in Started' :
          \/ Linked(c)'
          \/ /\ parent'[c] = Uninit
             /\ cpu'[tid'[c]].pc \in TinfoSection \cup {"start_swap"} /\ cpu'[tid'[c]].val = c
    <3>1. ASSUME NEW c \in Started
          PROVE  \/ Linked(c)'
                 \/ /\ parent'[c] = Uninit
                    /\ cpu'[tid'[c]].pc \in TinfoSection \cup {"start_swap"} /\ cpu'[tid'[c]].val = c
      BY <1>1, <1>4, <1>10, <2>1, <2>3 DEF LinkInv
    <3>2. /\ parent'[clen] = Uninit
          /\ cpu'[tid'[clen]].pc \in TinfoSection \cup {"start_swap"} /\ cpu'[tid'[clen]].val = clen
      BY <1>2, <1>5, <1>10, <2>1
    <3> QED
      BY <1>3, <3>1, <3>2
  <2>6. \A c \in Cid \ Started' : parent'[c] = Uninit
    BY <1>3, <2>1 DEF LinkInv
  <2>7. \A c \in Started' : parent'[c] \in Started' => Linked(parent[c])'
    BY <1>3, <2>1, <2>2, <2>3, ThreadsAssumption DEF LinkInv
  <2>8. \A u \in Threads :
          cur'[u] = u \/ (cur'[u] \in Started' /\ tid'[cur'[u]] = u /\ Linked(cur[u])')
    BY <1>3, <1>10, <2>1, <2>3 DEF LinkInv
  <2> QED
    BY <2>1, <2>4, <2>5, <2>6, <2>7, <2>8 DEF LinkInv
<1>14. MetaInv'
  BY <1>1, <1>2, <1>4, <1>5 DEF MetaInv, HasMeta, switch
<1>15. FinishInv' /\ RunningIsCurrent'
  BY <1>1, <1>2, <1>4, <1>5 DEF FinishInv, Finishing, RunningIsCurrent, switch
<1> QED
  BY <1>6, <1>7, <1>8, <1>9, <1>12, <1>13, <1>14, <1>15

-----------------------------------------------------------------------------
(* The steps that switch contexts *)

\* co_start switches to the new coroutine.
LEMMA StartSwapStep ==
    ASSUME IInv, NEW t \in Threads, StartSwap(t)
    PROVE  IInv'
<1> USE DEF IInv, CinfoSection, TinfoSection
<1>0. PICK c \in Started : cpu[t].val = c /\ tid[c] = t
  BY DEF StartSwap, At, StartInv
<1>1. PICK s \in {c} \cup freed :
        stack' = [stack EXCEPT ![c] = s] /\ freed' = freed \ {s}
  BY <1>0 DEF StartSwap
<1>2. /\ cpu[t].pc = "start_swap" /\ ~crashed
      /\ parent' = [parent EXCEPT ![c] = running[t]]
      /\ running' = [running EXCEPT ![t] = c] /\ uc' = [uc EXCEPT ![running[t]] = UserFrame]
      /\ cur' = [cur EXCEPT ![t] = c] /\ cpu' = [cpu EXCEPT ![t] = UserFrame]
      /\ UNCHANGED <<arrays, locks, tid, status, ret, crashed>>
  BY <1>0 DEF StartSwap, At
<1>3. /\ c \in Started /\ c \in Cid /\ c \in Routine /\ tid[c] = t /\ c # t
      /\ running[t] = cur[t] /\ HasMeta(t) /\ scheduler
  <2>1. c \in Started /\ tid[c] = t
    BY <1>0
  <2>2. c \in Cid /\ c \in Routine /\ c # t
    BY <2>1, ThreadsAssumption, BoundAssumption DEF Started, Cid, Routine, TypeOK
  <2>3. running[t] = cur[t] /\ HasMeta(t) /\ scheduler
    BY <1>2 DEF RunningIsCurrent, MetaInv, FreshInv
  <2> QED
    BY <2>1, <2>2, <2>3
<1>4. UserFrame \in Frame /\ UserFrame.pc = "user" /\ FrameOK(UserFrame)'
  BY DEF UserFrame, Frame, Labels, API, FrameOK
<1>5. /\ cpu' \in [Threads -> Frame] /\ cpu'[t] = UserFrame
      /\ \A u \in Threads : u # t => cpu'[u] = cpu[u]
      /\ cur' \in [Threads -> Routine] /\ cur'[t] = c /\ \A u \in Threads : u # t => cur'[u] = cur[u]
      /\ running' \in [Threads -> Routine] /\ running'[t] = c
      /\ \A u \in Threads : u # t => running'[u] = running[u]
      /\ parent' \in [Cid -> Routine \cup {Uninit}] /\ parent'[c] = cur[t]
      /\ \A d \in Cid : d # c => parent'[d] = parent[d]
  BY <1>2, <1>3, <1>4 DEF TypeOK
<1>6. uc' \in [Routine -> Frame] /\ \A r \in Routine : uc'[r] \in {uc[r], UserFrame}
  BY <1>2, <1>4 DEF TypeOK
<1>7. TypeOK'
  BY <1>1, <1>2, <1>3, <1>5, <1>6 DEF TypeOK, arrays, locks
<1>8. LockInv'
  BY <1>2, <1>4, <1>5 DEF LockInv, locks
<1>9. FreshInv'
  BY <1>2, <1>3 DEF FreshInv, arrays
<1>10. FrameInv'
  BY <1>2, <1>4, <1>5, <1>6 DEF FrameInv, FrameOK, Started, arrays
<1>11. StartInv'
  BY <1>2, <1>4, <1>5 DEF StartInv, Started, arrays
<1>12. LinkInv'
  <2>1. Started' = Started /\ tid' = tid /\ Started \subseteq Cid
    BY <1>2, BoundAssumption DEF Started, Cid, arrays, TypeOK
  <2>2. \A d \in Started : d # c => parent'[d] = parent[d]
    BY <1>5, <2>1
  <2>3. Linked(c)'
    BY <1>3, <1>5, <2>1 DEF LinkInv, Linked
  <2>4. \A d \in Started : Linked(d) => Linked(d)'
    BY <2>1, <2>2, <2>3 DEF Linked
  <2>5. \A d \in Started' :
          \/ Linked(d)'
          \/ /\ parent'[d] = Uninit
             /\ cpu'[tid'[d]].pc \in TinfoSection \cup {"start_swap"} /\ cpu'[tid'[d]].val = d
    BY <1>2, <1>5, <2>1, <2>2, <2>3, <2>4, <1>0 DEF LinkInv
  <2>6. \A d \in Cid \ Started' : parent'[d] = Uninit
    BY <1>3, <1>5, <2>1 DEF LinkInv
  <2>7. \A d \in Started' : parent'[d] \in Started' => Linked(parent[d])'
    <3>1. PICK p : p = cur[t]
      OBVIOUS
    <3>2. p \in Started => Linked(p)'
      BY <2>4, <3>1, ThreadsAssumption DEF LinkInv, Started
    <3>3. \A d \in Started : d # c /\ parent[d] \in Started =>
            \E q \in Started : q = parent[d] /\ Linked(q)'
      BY <2>4 DEF LinkInv
    <3> QED
      BY <1>5, <2>1, <2>2, <3>1, <3>2, <3>3 DEF Linked
  <2>8. \A u \in Threads :
          cur'[u] = u \/ (cur'[u] \in Started' /\ tid'[cur'[u]] = u /\ Linked(cur[u])')
    <3>1. ASSUME NEW u \in Threads, u # t
          PROVE  cur'[u] = u \/ (cur'[u] \in Started' /\ tid'[cur'[u]] = u /\ Linked(cur[u])')
      <4>1. PICK d : d = cur[u] /\ cur'[u] = d
        BY <1>5, <3>1
      <4> QED
        BY <2>1, <2>4, <4>1 DEF LinkInv, Linked
    <3> QED
      BY <1>3, <1>5, <2>1, <2>3, <3>1 DEF Linked
  <2>9. \A d \in Started' : tid'[d] \in Threads
    BY <2>1 DEF LinkInv
  <2> QED
    BY <2>5, <2>6, <2>7, <2>8, <2>9 DEF LinkInv
<1>13. MetaInv'
  BY <1>2, <1>3, <1>4, <1>5 DEF MetaInv, HasMeta, arrays
<1>14. FinishInv' /\ RunningIsCurrent'
  <2>1. ASSUME NEW u \in Threads, u # t, cpu[u].pc = "fin_exit"
        PROVE  parent'[cur[u]] = parent[cur[u]]
    <3>1. cur[u] \in Started /\ tid[cur[u]] = u
      BY <2>1 DEF FinishInv, Finishing, LinkInv
    <3>2. cur[u] \in Cid
      BY <3>1, BoundAssumption DEF Started, Cid, TypeOK
    <3> QED
      BY <1>3, <1>5, <2>1, <3>1, <3>2
  <2> QED
    BY <1>2, <1>3, <1>4, <1>5, <2>1 DEF FinishInv, Finishing, RunningIsCurrent
<1> QED
  BY <1>7, <1>8, <1>9, <1>10, <1>11, <1>12, <1>13, <1>14

\* co_yield resumes another routine, or goes on with the main routine.
LEMMA YieldScanStep ==
    ASSUME IInv, NEW t \in Threads, YieldScan(t)
    PROVE  IInv'
<1> USE DEF IInv, CinfoSection, TinfoSection
<1>1. PICK r \in Started \cup {t} :
        /\ Resumes(t, r)
        /\ running' = [running EXCEPT ![t] = r]
        /\ IF r = running[t]
           THEN cpu' = [cpu EXCEPT ![t] = AfterYield(@)] /\ UNCHANGED <<cur, uc>>
           ELSE /\ uc' = [uc EXCEPT ![running[t]] = AfterYield(cpu[t])]
                /\ cur' = [cur EXCEPT ![t] = r]
                /\ cpu' = [cpu EXCEPT ![t] = uc[r]]
  BY DEF YieldScan
<1>2. /\ cpu[t].pc = "yield_scan" /\ ~crashed /\ UNCHANGED <<arrays, locks, coro, crashed>>
      /\ cpu[t].op \in {"yield", "wait", "getret", "waitall"}
  BY DEF YieldScan, At, FrameInv, FrameOK
<1>3. Started' = Started /\ Started \subseteq Cid
  BY <1>2, BoundAssumption DEF Started, Cid, arrays, TypeOK
<1>4. /\ running[t] = cur[t] /\ r \in Routine /\ scheduler
      /\ r = t \/ (r \in Started /\ tid[r] = t /\ Linked(r))
  BY <1>1, <1>2, <1>3 DEF RunningIsCurrent, FreshInv, Resumes, Ready, Routine, LinkInv
<1>5. /\ AfterYield(cpu[t]) \in Frame /\ FrameOK(AfterYield(cpu[t]))
      /\ AfterYield(cpu[t]).pc \in {"user", "wait_read", "all_lock"}
  BY <1>2 DEF AfterYield, UserFrame, Move, FrameInv, FrameOK, Frame, Labels, API, TypeOK
<1>6. PICK f \in Frame : /\ cpu' = [cpu EXCEPT ![t] = f] /\ FrameOK(f)
                         /\ f.pc \in {"user", "wait_read", "all_lock"}
  <2>1. CASE r = running[t]
    BY <1>1, <1>5, <2>1
  <2>2. CASE r # running[t]
    BY <1>1, <1>4, <2>2 DEF FrameInv, TypeOK
  <2> QED
    BY <2>1, <2>2
<1>7. /\ cpu' \in [Threads -> Frame] /\ cpu'[t] = f
      /\ \A u \in Threads : u # t => cpu'[u] = cpu[u]
  BY <1>6 DEF TypeOK
<1>8. /\ cur' \in [Threads -> Routine] /\ cur'[t] = r
      /\ \A u \in Threads : u # t => cur'[u] = cur[u]
      /\ running' \in [Threads -> Routine] /\ running'[t] = r
      /\ \A u \in Threads : u # t => running'[u] = running[u]
  BY <1>1, <1>4 DEF TypeOK
<1>9. /\ uc' \in [Routine -> Frame]
      /\ \A q \in Routine : uc'[q] \in {uc[q], AfterYield(cpu[t])}
  BY <1>1, <1>5 DEF TypeOK
<1>10. TypeOK'
  BY <1>2, <1>7, <1>8, <1>9 DEF TypeOK, arrays, locks, coro
<1>11. LockInv'
  BY <1>2, <1>6, <1>7 DEF LockInv, locks
<1>12. FreshInv'
  BY <1>2, <1>4 DEF FreshInv, arrays
<1>13. FrameInv'
  BY <1>2, <1>3, <1>5, <1>6, <1>7, <1>9 DEF FrameInv, FrameOK
<1>14. StartInv'
  BY <1>2, <1>3, <1>6, <1>7 DEF StartInv, arrays, coro
<1>15. LinkInv'
  BY <1>2, <1>3, <1>4, <1>7, <1>8 DEF LinkInv, Linked, coro
<1>16. MetaInv'
  BY <1>2, <1>6, <1>7, <1>8 DEF MetaInv, HasMeta, arrays
<1>17. FinishInv' /\ RunningIsCurrent'
  BY <1>2, <1>6, <1>7, <1>8 DEF FinishInv, Finishing, RunningIsCurrent, coro
<1> QED
  BY <1>10, <1>11, <1>12, <1>13, <1>14, <1>15, <1>16, <1>17

\* _co_func_wrapper gives the thread back to the parent.
LEMMA FinWalkStep ==
    ASSUME IInv, NEW t \in Threads, FinWalk(t)
    PROVE  IInv'
<1> USE DEF IInv, CinfoSection, TinfoSection
<1>1. /\ cpu[t].pc = "fin_walk" /\ ~crashed
      /\ UNCHANGED <<arrays, locks, tid, status, ret, parent, stack, cur, uc>>
  BY DEF FinWalk, At
<1>2. PICK c \in Started : cur[t] = c /\ tid[c] = t /\ Linked(c)
  BY <1>1 DEF FinishInv, Finishing, LinkInv
<1>3. Started' = Started /\ Started \subseteq Cid
  BY <1>1, BoundAssumption DEF Started, Cid, arrays, TypeOK
<1>4. CASE Dies(t) /\ UNCHANGED <<running, freed>>
  <2>1. cpu[t] \in Frame /\ cpu' = [cpu EXCEPT ![t] = cpu[t]] /\ crashed' = TRUE /\ FrameOK(cpu[t])
    BY <1>4 DEF Dies, TypeOK, FrameInv
  <2> QED
    BY <1>1, <1>2, <1>3, <1>4, <2>1, LocalStep, ThreadsAssumption
       DEF FreshInv, FinishInv, Finishing, TypeOK, locks, switch
<1>5. CASE /\ running' = [running EXCEPT ![t] = parent[cur[t]]]
           /\ freed' = freed \cup {stack[cur[t]]}
           /\ Goto(t, "fin_exit")
           /\ UNCHANGED crashed
  <2>1. /\ cpu' \in [Threads -> Frame] /\ cpu'[t].pc = "fin_exit" /\ cpu'[t].val = cpu[t].val
        /\ cpu'[t].op = cpu[t].op /\ cpu'[t].arg = cpu[t].arg
        /\ \A u \in Threads : u # t => cpu'[u] = cpu[u]
    BY <1>5 DEF Goto, Move, Frame, Labels, TypeOK
  <2>2. parent[c] \in Routine
    BY <1>2, <1>3 DEF Linked, Routine
  <2>3. TypeOK'
    BY <1>1, <1>2, <1>3, <1>5, <2>1, <2>2 DEF TypeOK, arrays, locks
  <2>4. LockInv'
    BY <1>1, <2>1 DEF LockInv, locks
  <2>5. FreshInv' /\ FrameInv'
    BY <1>1, <1>3, <2>1 DEF FreshInv, FrameInv, FrameOK, arrays
  <2>6. StartInv' /\ LinkInv'
    BY <1>1, <1>3, <2>1 DEF StartInv, LinkInv, Linked, arrays
  <2>7. MetaInv'
    BY <1>1, <2>1 DEF MetaInv, HasMeta, arrays
  <2>8. FinishInv' /\ RunningIsCurrent'
    BY <1>1, <1>2, <1>3, <1>5, <2>1, ThreadsAssumption
       DEF FinishInv, Finishing, RunningIsCurrent, TypeOK
  <2> QED
    BY <2>3, <2>4, <2>5, <2>6, <2>7, <2>8
<1> QED
  BY <1>4, <1>5 DEF FinWalk

\* _co_func_wrapper ends and the thread resumes the parent.
LEMMA FinExitStep ==
    ASSUME IInv, NEW t \in Threads, FinExit(t)
    PROVE  IInv'
<1> USE DEF IInv, CinfoSection, TinfoSection
<1>1. PICK c \in Started : cur[t] = c /\ tid[c] = t /\ Linked(c)
  BY DEF FinExit, At, FinishInv, Finishing, LinkInv
<1>2. /\ cpu[t].pc = "fin_exit" /\ ~crashed /\ crashed' \in BOOLEAN
      /\ colock' = [colock EXCEPT ![c] = @ \ {t}]
      /\ cur' = [cur EXCEPT ![t] = parent[c]] /\ cpu' = [cpu EXCEPT ![t] = uc[parent[c]]]
      /\ UNCHANGED <<arrays, cinfoW, cinfoR, tinfoW, coro, running, uc>>
  BY <1>1 DEF FinExit, At, TypeOK
<1>3. Started' = Started /\ Started \subseteq Cid
  BY <1>2, BoundAssumption DEF Started, Cid, arrays, TypeOK
<1>4. PICK p \in Routine : /\ p = parent[c]
                           /\ p = t \/ (p \in Started /\ tid[p] = t /\ Linked(p))
  BY <1>1, <1>3 DEF Linked, Routine, LinkInv
<1>5. PICK f \in Frame : /\ f = uc[p] /\ FrameOK(f)
                         /\ f.pc \in {"user", "wait_read", "all_lock"}
  BY DEF TypeOK, FrameInv
<1>6. /\ cpu' \in [Threads -> Frame] /\ cpu'[t] = f
      /\ \A u \in Threads : u # t => cpu'[u] = cpu[u]
      /\ cur' \in [Threads -> Routine] /\ cur'[t] = p
      /\ \A u \in Threads : u # t => cur'[u] = cur[u]
  BY <1>2, <1>4, <1>5 DEF TypeOK
<1>7. running[t] = p
  BY <1>1, <1>2, <1>4 DEF RunningIsCurrent
<1>8. TypeOK'
  BY <1>1, <1>2, <1>3, <1>6 DEF TypeOK, arrays, coro
<1>9. LockInv'
  BY <1>2, <1>5, <1>6 DEF LockInv
<1>10. FreshInv' /\ FrameInv'
  BY <1>2, <1>3, <1>5, <1>6 DEF FreshInv, FrameInv, FrameOK, arrays
<1>11. StartInv'
  BY <1>2, <1>3, <1>5, <1>6 DEF StartInv, arrays, coro
<1>12. LinkInv'
  BY <1>2, <1>3, <1>4, <1>6 DEF LinkInv, Linked, coro
<1>13. MetaInv'
  BY <1>1, <1>2, <1>3, <1>5, <1>6, ThreadsAssumption DEF MetaInv, HasMeta, arrays, Cid
<1>14. FinishInv' /\ RunningIsCurrent'
  BY <1>2, <1>5, <1>6, <1>7 DEF FinishInv, Finishing, RunningIsCurrent, coro
<1> QED
  BY <1>8, <1>9, <1>10, <1>11, <1>12, <1>13, <1>14

-----------------------------------------------------------------------------
(* The theorems *)

\* The invariant holds from the start and is kept by every step.
LEMMA InitInv == Init => IInv
<1> SUFFICES ASSUME Init PROVE IInv
  OBVIOUS
<1> USE ThreadsAssumption, BoundAssumption DEF Init
<1>1. UserFrame \in Frame /\ FrameOK(UserFrame) /\ UserFrame.pc = "user"
  BY DEF UserFrame, Frame, Labels, API, FrameOK
<1>2. Started = {}
  BY DEF Started
<1>3. TypeOK
  <2>1. /\ tinfo \in Seq(Threads \cup {Uninit}) /\ clen \in 0 .. MaxCo
        /\ tid \in [Cid -> Threads \cup {Uninit}] /\ parent \in [Cid -> Routine \cup {Uninit}]
        /\ status \in [Cid -> {0, RUNNING, FINISHED}] /\ ret \in [Cid -> Int]
        /\ stack \in [Cid -> Cid] /\ colock \in [Cid -> SUBSET Threads]
    OBVIOUS
  <2>2. running \in [Threads -> Routine] /\ cur \in [Threads -> Routine]
    BY DEF Routine
  <2>3. cpu \in [Threads -> Frame] /\ uc \in [Routine -> Frame]
    BY <1>1
  <2> QED
    BY <2>1, <2>2, <2>3 DEF TypeOK
<1>4. LockInv /\ FreshInv /\ FrameInv /\ StartInv
  BY <1>1 DEF LockInv, FreshInv, FrameInv, StartInv, CinfoSection, TinfoSection
<1>5. LinkInv /\ MetaInv /\ FinishInv /\ RunningIsCurrent
  BY <1>1, <1>2 DEF LinkInv, MetaInv, FinishInv, Finishing, RunningIsCurrent
<1> QED
  BY <1>3, <1>4, <1>5 DEF IInv

LEMMA NextInv == IInv /\ [Next]_vars => IInv'
<1> SUFFICES ASSUME IInv, [Next]_vars PROVE IInv'
  OBVIOUS
<1>1. ASSUME NEW t \in Threads, Library(t) PROVE IInv'
  BY <1>1, LocalActions, ReturnActions, InitWriteStep, StartCinfoStep, StartTinfoStep,
     StartFreeStep, StartAddStep, StartMetaStep, StartUnlockStep, StartSwapStep,
     YieldScanStep, FinWalkStep, FinExitStep DEF Library
<1>2. ASSUME NEW t \in Threads, Client(t) PROVE IInv'
  BY <1>2, LocalActions, ReturnActions DEF Client
<1>3. CASE UNCHANGED vars
  BY <1>3 DEF vars, arrays, locks, coro, switch, IInv, TypeOK, LockInv, FreshInv, FrameInv,
     FrameOK, StartInv, LinkInv, Linked, MetaInv, HasMeta, FinishInv, Finishing,
     RunningIsCurrent, Started
<1> QED
  BY <1>1, <1>2, <1>3 DEF Next, Dead

\* Every variable keeps to its domain, for any number of threads and coroutines.
THEOREM TypeCorrect == Spec => []TypeOK
<1>1. Init => IInv
  BY InitInv
<1>2. IInv /\ [Next]_vars => IInv'
  BY NextInv
<1>3. IInv => TypeOK
  BY DEF IInv
<1> QED
  BY <1>1, <1>2, <1>3, PTL DEF Spec

\* meta->running always names the routine that is on the processor of its thread (the
\* parent, at the end of _co_func_wrapper), whatever the threads interleave.
THEOREM RunningCorrect == Spec => []RunningIsCurrent
<1>1. Init => IInv
  BY InitInv
<1>2. IInv /\ [Next]_vars => IInv'
  BY NextInv
<1>3. IInv => RunningIsCurrent
  BY DEF IInv
<1> QED
  BY <1>1, <1>2, <1>3, PTL DEF Spec

\* No thread ever gets two entries of _tinfo, and under the lock all are complete.
THEOREM MetaUnique == Spec => []OneMetaPerThread
<1>1. Init => IInv
  BY InitInv
<1>2. IInv /\ [Next]_vars => IInv'
  BY NextInv
<1>3. IInv => OneMetaPerThread
  BY DEF IInv, MetaInv, LockInv, OneMetaPerThread, TinfoSection
<1> QED
  BY <1>1, <1>2, <1>3, PTL DEF Spec

\* The assertion of coroutine.c:173 holds: the walk of _co_getmeta without a lock
\* meets the thread's own entry, before any that is still being filled in.
THEOREM AssertionHolds == Spec => []WalkFindsOwnMeta
<1>1. Init => IInv
  BY InitInv
<1>2. IInv /\ [Next]_vars => IInv'
  BY NextInv
<1>3. IInv => OneMetaPerThread
  BY DEF IInv, MetaInv, LockInv, OneMetaPerThread, TinfoSection
<1>4. IInv => WalkFindsOwnMeta
  <2> SUFFICES ASSUME IInv, NEW t \in Threads, cpu[t].pc \in {"getid_walk", "fin_walk"}
               PROVE  \E i \in DOMAIN tinfo :
                        tinfo[i] = t /\ \A j \in DOMAIN tinfo : j < i => tinfo[j] # Uninit
    BY <1>3 DEF WalkFindsOwnMeta
  <2>1. PICK i \in DOMAIN tinfo : tinfo[i] = t
    BY DEF IInv, MetaInv, FinishInv, Finishing, HasMeta
  <2>2. tinfo \in Seq(Threads \cup {Uninit})
    BY DEF IInv, TypeOK
  <2>3. i \in 1 .. Len(tinfo)
    BY <2>2
  <2>4. \A j \in DOMAIN tinfo : j < i => j # Len(tinfo)
    BY <2>2, <2>3
  <2> QED
    BY <2>1, <2>4 DEF IInv, MetaInv
<1> QED
  BY <1>1, <1>2, <1>4, PTL DEF Spec

\* The scheduler is created once: no step forgets a coroutine, a thread or the owner of
\* a coroutine.
THEOREM NothingLost == Spec => NothingForgotten
<1> DEFINE Keeps == /\ scheduler => scheduler'
                    /\ clen' \in {clen, clen + 1}
                    /\ Len(tinfo') >= Len(tinfo)
                    /\ \A c \in Started : tid'[c] = tid[c]
<1>1. Init => IInv
  BY InitInv
<1>2. IInv /\ [Next]_vars => IInv'
  BY NextInv
<1>3. IInv /\ [Next]_vars => [Keeps]_vars
  <2> SUFFICES ASSUME IInv, Next PROVE Keeps \/ UNCHANGED vars
    OBVIOUS
  <2>1. tinfo \in Seq(Threads \cup {Uninit}) /\ clen \in Nat /\ tid \in [Cid -> Threads \cup {Uninit}]
    BY BoundAssumption DEF IInv, TypeOK
  <2>2. UNCHANGED <<arrays, tid>> => Keeps
    BY <2>1 DEF arrays, Started
  <2>3. ASSUME NEW t \in Threads, Library(t) \/ Client(t)
        PROVE  Keeps
    <3>1. CASE InitWrite(t)
      BY <2>1, <3>1 DEF InitWrite, arrays, coro, IInv, FreshInv, Started
    <3>2. CASE StartTinfo(t)
      BY <2>1, <3>2 DEF StartTinfo, Started
    <3>3. CASE StartFree(t) \/ StartAdd(t) \/ StartMeta(t)
      BY <2>1, <3>3 DEF StartFree, StartAdd, StartMeta, coro, Started
    <3>4. CASE Return(t) \/ StartCinfo(t) \/ StartBound(t) \/ StartUnlock(t) \/ StartSwap(t)
      BY <2>2, <3>4 DEF Return, StartCinfo, StartBound, StartUnlock, StartSwap, coro
    <3>5. CASE YieldMeta(t) \/ YieldScan(t) \/ WaitGet(t) \/ WaitRead(t) \/ AllLock(t) \/ AllRead(t)
      BY <2>2, <3>5 DEF YieldMeta, YieldScan, WaitGet, WaitRead, AllLock, AllRead, coro
    <3>6. CASE Status(t) \/ GetIdWalk(t) \/ FinRet(t) \/ FinWalk(t) \/ FinExit(t)
      BY <2>2, <3>6 DEF Status, GetIdWalk, FinRet, FinWalk, FinExit, coro
    <3>7. CASE Client(t)
      BY <2>2, <3>7 DEF Client, Call, UserReturn, coro
    <3> QED
      BY <2>3, <3>1, <3>2, <3>3, <3>4, <3>5, <3>6, <3>7 DEF Library
  <2>4. CASE Dead
    BY <2>4 DEF Dead
  <2> QED
    BY <2>3, <2>4 DEF Next
<1> QED
  BY <1>1, <1>2, <1>3, PTL DEF Spec, NothingForgotten

-----------------------------------------------------------------------------
(* The locks and the life of a coroutine *)

Starting(t) == cpu[t].pc \in TinfoSection \cup {"start_swap"}

\* _cinfo_lock is held for reading across steps only by the loop of co_waitall, and the
\* lock of a coroutine only by the thread that executes its _co_func_wrapper.
HoldInv ==
    /\ \A t \in Threads : t \in cinfoR <=> cpu[t].pc = "all_read"
    /\ \A t \in Threads : \A c \in Cid : t \in colock[c] <=> Finishing(t) /\ cur[t] = c

\* A coroutine has a status once it is started; past the return of its body it is FINISHED.
LifeInv ==
    /\ \A c \in Cid \ Started : status[c] = 0
    /\ \A t \in Threads : Finishing(t) => status[cur[t]] = FINISHED

\* A parent is older than its child.
AgeInv ==
    /\ \A c \in Started : parent[c] \in Cid => parent[c] < c
    /\ \A t \in Threads : Starting(t) /\ cur[t] \in Cid => cur[t] < cpu[t].val

LInv == HoldInv /\ LifeInv /\ AgeInv

\* The labels at which a routine holds a lock that these invariants speak of.
Busy == {"all_read", "fin_ret", "fin_walk", "fin_exit"}

\* A step that only moves its thread from label to label, taking and giving back none of
\* these locks and neither starting nor finishing a coroutine.
Quiet(t) ==
    /\ \A u \in Threads : u # t => cpu'[u] = cpu[u]
    /\ cpu[t].pc \notin Busy /\ cpu'[t].pc \notin Busy
    /\ Starting(t)' => Starting(t) /\ cpu'[t].val = cpu[t].val
    /\ UNCHANGED <<cinfoR, colock, tid, status, ret, parent, cur, clen>>

\* Calls, answers and the sections of the library that only read are quiet.
LEMMA QuietReads ==
    ASSUME IInv, NEW t \in Threads,
           \/ \E op \in API, arg \in -1 .. (MaxCo + 1) : Call(t, op, arg)
           \/ Return(t) \/ StartBound(t) \/ YieldMeta(t) \/ WaitGet(t) \/ WaitRead(t)
           \/ Status(t) \/ GetIdWalk(t)
    PROVE  Quiet(t)
<1> USE DEF At, Quiet, Busy, Starting, TinfoSection, locks, coro, arrays, switch
<1>0. cpu \in [Threads -> Frame] /\ FrameOK(cpu[t])
  BY DEF IInv, TypeOK, FrameInv
<1>1. ASSUME NEW op \in API, NEW arg \in -1 .. (MaxCo + 1), Call(t, op, arg)
      PROVE  Quiet(t)
  BY <1>0, <1>1 DEF Call, Entry, API
<1>2. CASE Return(t) \/ StartBound(t)
  BY <1>0, <1>2 DEF Return, StartBound, UserFrame
<1>3. CASE YieldMeta(t)
  BY <1>0, <1>3 DEF YieldMeta, AfterYield, UserFrame, Move
<1>4. CASE WaitGet(t)
  BY <1>0, <1>4 DEF WaitGet, Goto, Move
<1>5. CASE WaitRead(t)
  BY <1>0, <1>5 DEF WaitRead, Goto, Answer, MoveTo, Move
<1>6. CASE Status(t)
  BY <1>0, <1>6 DEF Status, Answer, MoveTo, Move
<1>7. CASE GetIdWalk(t)
  BY <1>0, <1>7 DEF GetIdWalk, Dies, Answer, MoveTo, Move
<1> QED
  BY <1>1, <1>2, <1>3, <1>4, <1>5, <1>6, <1>7

\* So are co_scheduler_init and the steps of co_start that work on _tinfo and the locks.
LEMMA QuietStarts ==
    ASSUME IInv, NEW t \in Threads,
           InitWrite(t) \/ StartCinfo(t) \/ StartFree(t) \/ StartAdd(t) \/ StartMeta(t) \/ StartUnlock(t)
    PROVE  Quiet(t)
<1> USE DEF At, Goto, Move, Quiet, Busy, Starting, TinfoSection, locks, coro, arrays, switch
<1>0. cpu \in [Threads -> Frame] /\ FrameOK(cpu[t])
  BY DEF IInv, TypeOK, FrameInv
<1>1. CASE InitWrite(t)
  <2>1. clen' = clen
    BY <1>1 DEF InitWrite, IInv, FreshInv
  <2> QED
    BY <1>0, <1>1, <2>1 DEF InitWrite, Entry, FrameOK, API
<1>2. CASE StartCinfo(t) \/ StartFree(t) \/ StartAdd(t)
  BY <1>0, <1>2 DEF StartCinfo, StartFree, StartAdd
<1>3. CASE StartMeta(t) \/ StartUnlock(t)
  BY <1>0, <1>3 DEF StartMeta, StartUnlock
<1> QED
  BY <1>1, <1>2, <1>3

\* Where every started coroutine, and every routine that runs, is found.
LEMMA Domains ==
    ASSUME IInv
    PROVE  /\ clen \in Nat /\ MaxCo \in Nat /\ clen <= MaxCo /\ Started \subseteq Cid
           /\ \A t \in Threads : t \notin Cid /\ t # Uninit
           /\ Uninit \notin Cid
           /\ \A t \in Threads : cur[t] \in Cid => cur[t] \in Started /\ tid[cur[t]] = t
           /\ \A t \in Threads : cur[t] \notin Cid => cur[t] = t
  BY ThreadsAssumption, BoundAssumption DEF IInv, TypeOK, LinkInv, Started, Cid

\* A quiet step keeps them.
LEMMA QuietStep ==
    ASSUME IInv, LInv, NEW t \in Threads, Quiet(t)
    PROVE  LInv'
<1> USE DEF Quiet
<1>1. \A u \in Threads : (Finishing(u)' <=> Finishing(u)) /\ (cpu'[u].pc = "all_read" <=> cpu[u].pc = "all_read")
  BY DEF Finishing, Busy
<1>2. HoldInv'
  BY <1>1 DEF LInv, HoldInv
<1>3. LifeInv'
  BY <1>1 DEF LInv, LifeInv, Started
<1>4. \A u \in Threads : Starting(u)' => Starting(u) /\ cpu'[u].val = cpu[u].val
  BY DEF Starting
<1>5. AgeInv'
  BY <1>4 DEF LInv, AgeInv, Started
<1> QED
  BY <1>2, <1>3, <1>5 DEF LInv

\* The loop of co_waitall takes and gives back _cinfo_lock.
LEMMA AllHolds ==
    ASSUME IInv, LInv, NEW t \in Threads, AllLock(t) \/ AllRead(t)
    PROVE  LInv'
<1> USE DEF At, Goto, MoveTo, Move, coro, arrays, switch
<1>1. /\ cpu \in [Threads -> Frame] /\ \A u \in Threads : u # t => cpu'[u] = cpu[u]
      /\ UNCHANGED <<colock, tid, status, parent, cur, clen>>
  BY DEF AllLock, AllRead, IInv, TypeOK
<1>2. /\ cpu[t].pc \in {"all_lock", "all_read"}
      /\ cpu'[t].pc \in {"all_read", "answered", "yield_meta"}
      /\ t \in cinfoR' <=> cpu'[t].pc = "all_read"
      /\ \A u \in Threads : u # t => (u \in cinfoR' <=> u \in cinfoR)
  <2>1. CASE AllLock(t)
    BY <1>1, <2>1 DEF AllLock
  <2>2. CASE AllRead(t)
    BY <1>1, <2>2 DEF AllRead, LInv, HoldInv
  <2> QED
    BY <2>1, <2>2
<1>3. \A u \in Threads : Finishing(u)' <=> Finishing(u)
  BY <1>1, <1>2 DEF Finishing
<1>4. HoldInv'
  BY <1>1, <1>2, <1>3 DEF LInv, HoldInv
<1>5. LifeInv'
  BY <1>1, <1>3 DEF LInv, LifeInv, Started
<1>6. AgeInv'
  BY <1>1, <1>2 DEF LInv, AgeInv, Starting, TinfoSection, Started
<1> QED
  BY <1>4, <1>5, <1>6 DEF LInv

\* co_start gives the new coroutine its status, and links it to a routine that is older.
LEMMA StartHolds ==
    ASSUME IInv, LInv, NEW t \in Threads, StartTinfo(t) \/ StartSwap(t)
    PROVE  LInv'
<1> USE DEF At, MoveTo, Move, coro, arrays, switch, locks
<1>1. /\ cpu \in [Threads -> Frame] /\ \A u \in Threads : u # t => cpu'[u] = cpu[u]
      /\ UNCHANGED <<colock, cinfoR>> /\ ~crashed
      /\ cpu[t].pc \in {"start_tinfo", "start_swap"}
      /\ cpu'[t].pc \in {"start_unlock", "start_free", "start_add", "user"}
  BY DEF StartTinfo, StartSwap, UserFrame, IInv, TypeOK
<1>2. /\ \A u \in Threads : Finishing(u)' <=> Finishing(u)
      /\ \A u \in Threads : cpu'[u].pc = "all_read" <=> cpu[u].pc = "all_read"
      /\ ~Finishing(t)
  BY <1>1 DEF Finishing
<1>3. /\ status \in [Cid -> {0, RUNNING, FINISHED}] /\ parent \in [Cid -> Routine \cup {Uninit}]
      /\ cur \in [Threads -> Routine]
  BY DEF IInv, TypeOK
<1>4. CASE StartTinfo(t)
  <2>1. /\ clen \in Cid /\ clen \notin Started /\ Started' = Started \cup {clen} /\ clen \in Nat
        /\ parent[clen] = Uninit
    BY <1>4, Domains DEF StartTinfo, IInv, StartInv, LinkInv, Started, Cid
  <2>2. /\ status' = [status EXCEPT ![clen] = RUNNING] /\ parent' = parent /\ cur' = cur
        /\ cpu'[t].val = clen
    BY <1>1, <1>4 DEF StartTinfo
  <2>3. HoldInv'
    BY <1>1, <1>2, <2>2 DEF LInv, HoldInv
  <2>4. LifeInv'
    <3>1. \A u \in Threads : Finishing(u) => cur[u] \in Cid /\ cur[u] # clen
      BY <2>1, Domains DEF IInv, FinishInv
    <3> QED
      BY <1>2, <1>3, <2>1, <2>2, <3>1 DEF LInv, LifeInv
  <2>5. AgeInv'
    <3>1. cur[t] \in Cid => cur[t] < clen
      BY <2>1, Domains DEF Started
    <3> QED
      BY <1>1, <2>1, <2>2, <3>1, Domains DEF LInv, AgeInv, Starting
  <2> QED
    BY <2>3, <2>4, <2>5 DEF LInv
<1>5. CASE StartSwap(t)
  <2>1. PICK c \in Started : cpu[t].val = c /\ tid[c] = t
    BY <1>5 DEF StartSwap, IInv, StartInv
  <2>2. /\ parent' = [parent EXCEPT ![c] = cur[t]] /\ cur' = [cur EXCEPT ![t] = c]
        /\ status' = status /\ clen' = clen /\ cpu'[t].pc = "user"
    BY <1>1, <1>5, <2>1 DEF StartSwap, IInv, RunningIsCurrent, UserFrame
  <2>3. c \in Cid /\ Started' = Started
    BY <2>2, Domains DEF Started
  <2>4. cur'[t] = c /\ \A u \in Threads : u # t => cur'[u] = cur[u]
    BY <1>3, <2>2
  <2>5. HoldInv'
    BY <1>1, <1>2, <2>4 DEF LInv, HoldInv
  <2>6. LifeInv'
    BY <1>2, <2>2, <2>3, <2>4 DEF LInv, LifeInv
  <2>7. AgeInv'
    <3>1. cur[t] \in Cid => cur[t] < c
      BY <1>5, <2>1 DEF StartSwap, LInv, AgeInv, Starting
    <3>2. parent'[c] = cur[t] /\ \A d \in Cid : d # c => parent'[d] = parent[d]
      BY <1>3, <2>2, <2>3
    <3>3. \A d \in Started' : parent'[d] \in Cid => parent'[d] < d
      BY <2>3, <3>1, <3>2, Domains DEF LInv, AgeInv
    <3>4. ~Starting(t)'
      BY <2>2 DEF Starting, TinfoSection
    <3>5. \A u \in Threads : Starting(u)' => u # t /\ Starting(u) /\ cpu'[u] = cpu[u]
      BY <1>1, <3>4 DEF Starting
    <3> QED
      BY <2>4, <3>3, <3>5 DEF LInv, AgeInv
  <2> QED
    BY <2>5, <2>6, <2>7 DEF LInv
<1> QED
  BY <1>4, <1>5

\* co_yield switches without a lock.
LEMMA YieldHolds ==
    ASSUME IInv, LInv, NEW t \in Threads, YieldScan(t)
    PROVE  LInv'
<1> USE DEF At, coro, arrays, locks
<1>1. /\ cpu[t].pc = "yield_scan" /\ UNCHANGED <<colock, cinfoR, tid, status, parent, clen>>
  BY DEF YieldScan
<1>2. cpu \in [Threads -> Frame] /\ cur \in [Threads -> Routine] /\ running \in [Threads -> Routine]
  BY DEF IInv, TypeOK
<1>3. /\ \A u \in Threads : u # t => cpu'[u] = cpu[u] /\ cur'[u] = cur[u]
      /\ cpu'[t].pc \in {"user", "wait_read", "all_lock"}
  <2>1. PICK r \in Started \cup {t} :
         IF r = running[t]
         THEN cpu' = [cpu EXCEPT ![t] = AfterYield(@)] /\ UNCHANGED <<cur, uc>>
         ELSE /\ uc' = [uc EXCEPT ![running[t]] = AfterYield(cpu[t])]
              /\ cur' = [cur EXCEPT ![t] = r]
              /\ cpu' = [cpu EXCEPT ![t] = uc[r]]
    BY DEF YieldScan
  <2>2. AfterYield(cpu[t]).pc \in {"user", "wait_read", "all_lock"}
    BY DEF AfterYield, UserFrame, Move
  <2>3. uc[r].pc \in {"user", "wait_read", "all_lock"}
    BY Domains DEF IInv, FrameInv, Routine
  <2> QED
    BY <1>2, <2>1, <2>2, <2>3
<1>4. /\ \A u \in Threads : Finishing(u)' <=> Finishing(u)
      /\ \A u \in Threads : cpu'[u].pc = "all_read" <=> cpu[u].pc = "all_read"
      /\ ~Finishing(t)
  BY <1>1, <1>3 DEF Finishing
<1>5. HoldInv'
  BY <1>1, <1>3, <1>4 DEF LInv, HoldInv
<1>6. LifeInv'
  BY <1>1, <1>3, <1>4 DEF LInv, LifeInv, Started
<1>7. AgeInv'
  BY <1>1, <1>3 DEF LInv, AgeInv, Starting, TinfoSection, Started
<1> QED
  BY <1>5, <1>6, <1>7 DEF LInv

\* The lock of a coroutine is held from the return of its body to the end of its wrapper.
LEMMA FinishHolds ==
    ASSUME IInv, LInv, NEW t \in Threads, UserReturn(t) \/ FinRet(t) \/ FinWalk(t) \/ FinExit(t)
    PROVE  LInv'
<1> USE DEF At, MoveTo, Goto, Move, coro, arrays, locks, switch
<1>1. PICK c \in Started : cur[t] = c /\ tid[c] = t /\ c \in Cid
  BY Domains DEF UserReturn, FinRet, FinWalk, FinExit, IInv, FinishInv, Finishing
<1>2. /\ cpu \in [Threads -> Frame] /\ \A u \in Threads : u # t => cpu'[u] = cpu[u]
      /\ UNCHANGED <<cinfoR, tid, parent, clen>>
      /\ cpu[t].pc \in {"user", "fin_ret", "fin_walk", "fin_exit"}
      /\ cur \in [Threads -> Routine]
      /\ colock \in [Cid -> SUBSET Threads] /\ status \in [Cid -> {0, RUNNING, FINISHED}]
  BY DEF UserReturn, FinRet, FinWalk, FinExit, Dies, IInv, TypeOK
<1>3. \A u \in Threads : u # t => cur[u] # c
  BY <1>1, Domains
<1>4. CASE UserReturn(t)
  <2>1. /\ cpu'[t].pc = "fin_ret" /\ colock' = [colock EXCEPT ![c] = @ \cup {t}]
        /\ status' = [status EXCEPT ![c] = FINISHED] /\ cur' = cur
    BY <1>1, <1>2, <1>4 DEF UserReturn
  <2>2. /\ \A u \in Threads : u # t => (Finishing(u)' <=> Finishing(u))
        /\ Finishing(t)'
        /\ \A u \in Threads : cpu'[u].pc = "all_read" <=> cpu[u].pc = "all_read"
    BY <1>2, <1>4, <2>1 DEF Finishing, UserReturn
  <2>3. HoldInv'
    <3>1. \A u \in Threads, d \in Cid : u \in colock'[d] <=> u \in colock[d] \/ (u = t /\ d = c)
      BY <1>1, <1>2, <2>1
    <3>2. \A u \in Threads, d \in Cid : u \in colock'[d] <=> Finishing(u)' /\ cur'[u] = d
      BY <1>1, <1>3, <1>4, <2>1, <2>2, <3>1 DEF LInv, HoldInv, UserReturn, Finishing
    <3> QED
      BY <1>2, <2>2, <3>2 DEF LInv, HoldInv
  <2>4. LifeInv'
    <3>1. status'[c] = FINISHED /\ \A d \in Cid : d # c => status'[d] = status[d]
      BY <1>1, <1>2, <2>1
    <3>2. \A d \in Cid \ Started' : status'[d] = 0
      BY <1>1, <1>2, <3>1 DEF LInv, LifeInv, Started
    <3>3. \A u \in Threads : Finishing(u)' => status'[cur'[u]] = FINISHED
      BY <1>1, <1>3, <2>1, <2>2, <3>1, Domains DEF LInv, LifeInv, IInv, FinishInv
    <3> QED
      BY <3>2, <3>3 DEF LifeInv
  <2>5. AgeInv'
    BY <1>2, <2>1 DEF LInv, AgeInv, Starting, TinfoSection, Started
  <2> QED
    BY <2>3, <2>4, <2>5 DEF LInv
<1>5. CASE FinRet(t) \/ FinWalk(t)
  <2>1. /\ cpu[t].pc \in {"fin_ret", "fin_walk"} /\ cpu'[t].pc \in {"fin_walk", "fin_exit"}
        /\ UNCHANGED <<colock, status, cur>>
    BY <1>2, <1>5 DEF FinRet, FinWalk, Dies
  <2>2. /\ \A u \in Threads : Finishing(u)' <=> Finishing(u)
        /\ \A u \in Threads : cpu'[u].pc = "all_read" <=> cpu[u].pc = "all_read"
    BY <1>2, <2>1 DEF Finishing
  <2>3. HoldInv'
    BY <1>2, <2>1, <2>2 DEF LInv, HoldInv
  <2>4. LifeInv'
    BY <1>2, <2>1, <2>2 DEF LInv, LifeInv, Started
  <2>5. AgeInv'
    BY <1>2, <2>1 DEF LInv, AgeInv, Starting, TinfoSection, Started
  <2> QED
    BY <2>3, <2>4, <2>5 DEF LInv
<1>6. CASE FinExit(t)
  <2>1. /\ cpu[t].pc = "fin_exit" /\ cpu'[t] = uc[parent[c]]
        /\ colock' = [colock EXCEPT ![c] = @ \ {t}]
        /\ status' = status /\ cur' = [cur EXCEPT ![t] = parent[c]]
    BY <1>1, <1>2, <1>6 DEF FinExit
  <2>2. parent[c] \in Routine
    BY <1>1, <1>6, Domains DEF FinExit, IInv, LinkInv, Linked, Routine, Started, TinfoSection
  <2>3. cpu'[t].pc \in {"user", "wait_read", "all_lock"}
    BY <2>1, <2>2 DEF IInv, FrameInv
  <2>4. /\ \A u \in Threads : u # t => (Finishing(u)' <=> Finishing(u))
        /\ ~Finishing(t)' /\ Finishing(t)
        /\ \A u \in Threads : cpu'[u].pc = "all_read" <=> cpu[u].pc = "all_read"
    BY <1>2, <2>1, <2>3 DEF Finishing
  <2>5. \A u \in Threads : u # t => cur'[u] = cur[u]
    BY <1>2, <2>1
  <2>6. HoldInv'
    <3>1. \A u \in Threads, d \in Cid : u \in colock'[d] <=> u \in colock[d] /\ ~(u = t /\ d = c)
      BY <1>1, <1>2, <2>1
    <3>2. \A u \in Threads, d \in Cid : u \in colock'[d] <=> Finishing(u)' /\ cur'[u] = d
      BY <1>1, <2>4, <2>5, <3>1 DEF LInv, HoldInv
    <3> QED
      BY <1>2, <2>4, <3>2 DEF LInv, HoldInv
  <2>7. LifeInv'
    BY <1>2, <2>1, <2>4, <2>5 DEF LInv, LifeInv, Started
  <2>8. AgeInv'
    BY <1>2, <2>3, <2>5 DEF LInv, AgeInv, Starting, TinfoSection, Started
  <2> QED
    BY <2>6, <2>7, <2>8 DEF LInv
<1> QED
  BY <1>4, <1>5, <1>6

\* They hold from the start, and every step keeps them.
LEMMA LifeInit == Init => LInv
<1> SUFFICES ASSUME Init PROVE LInv
  OBVIOUS
<1> USE DEF Init
<1>1. Started = {} /\ \A t \in Threads : cpu[t].pc = "user"
  BY DEF Started, UserFrame
<1> QED
  BY <1>1 DEF LInv, HoldInv, LifeInv, AgeInv, Finishing, Starting, TinfoSection

LEMMA LifeNext == IInv /\ LInv /\ [Next]_vars => LInv'
<1> SUFFICES ASSUME IInv, LInv, [Next]_vars PROVE LInv'
  OBVIOUS
<1>1. ASSUME NEW t \in Threads, Library(t) PROVE LInv'
  BY <1>1, QuietReads, QuietStarts, QuietStep, AllHolds, StartHolds, YieldHolds, FinishHolds DEF Library
<1>2. ASSUME NEW t \in Threads, Client(t) PROVE LInv'
  BY <1>2, QuietReads, QuietStep, FinishHolds DEF Client
<1>3. CASE UNCHANGED vars
  BY <1>3 DEF vars, arrays, locks, coro, switch, LInv, HoldInv, LifeInv, AgeInv, Finishing, Starting, Started
<1> QED
  BY <1>1, <1>2, <1>3 DEF Next, Dead

\* No context is saved and no caller's code runs while the library holds any of its
\* locks for the thread, whatever the threads, the bodies and the calls.
THEOREM NoLockHeld == Spec => []NoLockAcrossSwitch
<1>1. Init => IInv /\ LInv
  BY InitInv, LifeInit
<1>2. IInv /\ LInv /\ [Next]_vars => IInv' /\ LInv'
  BY NextInv, LifeNext
<1>3. IInv /\ LInv => NoLockAcrossSwitch
  BY DEF IInv, LockInv, LInv, HoldInv, NoLockAcrossSwitch, Finishing, CinfoSection, TinfoSection
<1> QED
  BY <1>1, <1>2, <1>3, PTL DEF Spec

-----------------------------------------------------------------------------
(* Clients whose bodies return only after their children *)

\* What runs, or is about to be entered, has not finished; nor has the parent of a
\* coroutine that still has to come back to it.
TreeInv == ~crashed =>
    /\ \A t \in Threads : cur[t] \in Cid /\ ~Finishing(t) => status[cur[t]] = RUNNING
    /\ \A t \in Threads : Starting(t) => status[cpu[t].val] = RUNNING
    /\ \A c \in Started :
         /\ parent[c] \in Started
         /\ status[c] = RUNNING \/ \E t \in Threads : Finishing(t) /\ cur[t] = c
         => status[parent[c]] = RUNNING

\* A coroutine that has finished has its return value, unless its wrapper still holds it.
RetInv == ~crashed =>
    /\ \A t \in Threads : cpu[t].pc = "fin_ret" => cpu[t].val \in Rets
    /\ \A c \in Cid : status[c] = FINISHED =>
         ret[c] \in Rets \/ \E t \in Threads : cpu[t].pc = "fin_ret" /\ cur[t] = c

\* What a step of t leaves alone when it neither starts nor finishes a coroutine.
Still(t) ==
    /\ \A u \in Threads : u # t => cpu'[u] = cpu[u]
    /\ ~Finishing(t) /\ ~Finishing(t)'
    /\ Starting(t)' => Starting(t) /\ cpu'[t].val = cpu[t].val
    /\ ~crashed /\ UNCHANGED <<tid, status, ret, parent, cur, clen>>

\* Quiet steps and the loop of co_waitall are such steps.
LEMMA StillSteps ==
    ASSUME IInv, NEW t \in Threads, ~crashed, Quiet(t) \/ AllLock(t) \/ AllRead(t)
    PROVE  Still(t)
<1> USE DEF Still, Finishing, At, arrays, coro, switch
<1>1. CASE Quiet(t)
  BY <1>1 DEF Quiet, Busy
<1>2. CASE AllLock(t)
  BY <1>2 DEF AllLock, MoveTo, Move, Starting, TinfoSection, IInv, TypeOK
<1>3. CASE AllRead(t)
  BY <1>3 DEF AllRead, MoveTo, Goto, Move, Starting, TinfoSection, IInv, TypeOK
<1> QED
  BY <1>1, <1>2, <1>3

\* Such a step keeps what runs alive.
LEMMA StillKeeps ==
    ASSUME IInv, TreeInv, RetInv, NEW t \in Threads, Still(t)
    PROVE  TreeInv' /\ RetInv'
<1> USE DEF Still
<1>1. \A u \in Threads : (Finishing(u)' <=> Finishing(u)) /\ (cpu'[u].pc = "fin_ret" <=> cpu[u].pc = "fin_ret")
  BY DEF Finishing
<1>2. \A u \in Threads : Starting(u)' => Starting(u) /\ cpu'[u].val = cpu[u].val
  BY DEF Starting
<1>3. \A u \in Threads : cpu'[u].pc = "fin_ret" => cpu'[u] = cpu[u]
  BY DEF Finishing
<1>4. TreeInv'
  BY <1>1, <1>2 DEF TreeInv, Started
<1>5. RetInv'
  BY <1>1, <1>3 DEF RetInv
<1> QED
  BY <1>4, <1>5

\* co_start enters a coroutine that runs, from one that runs.
LEMMA TreeStart ==
    ASSUME IInv, LInv, TreeInv, RetInv, NEW t \in Threads, StartTinfo(t) \/ StartSwap(t)
    PROVE  TreeInv' /\ RetInv'
<1> USE DEF At, MoveTo, Move, coro, arrays, switch, locks
<1>1. /\ cpu \in [Threads -> Frame] /\ \A u \in Threads : u # t => cpu'[u] = cpu[u]
      /\ ~crashed
      /\ cpu[t].pc \in {"start_tinfo", "start_swap"}
      /\ cpu'[t].pc \in {"start_unlock", "start_free", "start_add", "user"}
  BY DEF StartTinfo, StartSwap, UserFrame, IInv, TypeOK
<1>2. /\ \A u \in Threads : Finishing(u)' <=> Finishing(u)
      /\ \A u \in Threads : cpu'[u].pc = "fin_ret" => cpu'[u] = cpu[u]
      /\ \A u \in Threads : cpu[u].pc = "fin_ret" <=> cpu'[u].pc = "fin_ret"
      /\ ~Finishing(t) /\ ~Finishing(t)'
  BY <1>1 DEF Finishing
<1>3. /\ status \in [Cid -> {0, RUNNING, FINISHED}] /\ parent \in [Cid -> Routine \cup {Uninit}]
      /\ ret \in [Cid -> Int]
      /\ cur \in [Threads -> Routine]
  BY DEF IInv, TypeOK
<1>4. CASE StartTinfo(t)
  <2>1. /\ clen \in Cid /\ clen \notin Started /\ Started' = Started \cup {clen} /\ clen \in Nat
        /\ parent[clen] = Uninit
    BY <1>4, Domains DEF StartTinfo, IInv, StartInv, LinkInv, Started, Cid
  <2>2. /\ status' = [status EXCEPT ![clen] = RUNNING] /\ parent' = parent /\ cur' = cur
        /\ ret' = [ret EXCEPT ![clen] = -1]
        /\ cpu'[t].val = clen
    BY <1>1, <1>4 DEF StartTinfo
  <2>3. status'[clen] = RUNNING /\ \A c \in Cid : c # clen => status'[c] = status[c] /\ ret'[c] = ret[c]
    BY <1>3, <2>1, <2>2
  <2>4. \A u \in Threads : cur[u] \in Cid => cur[u] # clen
    BY <2>1, Domains
  <2>5. \A u \in Threads : Starting(u)' /\ u # t => Starting(u) /\ cpu'[u] = cpu[u] /\ cpu[u].val \in Cid /\ cpu[u].val # clen
    BY <1>1, <2>1, Domains DEF Starting, IInv, StartInv
  <2>6. \A c \in Started : parent[c] # clen
    BY <2>1, Domains DEF LInv, AgeInv, Started
  <2>7. \A u \in Threads : cur'[u] \in Cid /\ ~Finishing(u)' => status'[cur'[u]] = RUNNING
    BY <1>1, <1>2, <2>2, <2>3, <2>4 DEF TreeInv
  <2>8. \A u \in Threads : Starting(u)' => status'[cpu'[u].val] = RUNNING
    BY <1>1, <2>2, <2>3, <2>5 DEF TreeInv
  <2>9. \A c \in Started' :
          /\ parent'[c] \in Started'
          /\ status'[c] = RUNNING \/ \E u \in Threads : Finishing(u)' /\ cur'[u] = c
          => status'[parent'[c]] = RUNNING
    <3>1. ASSUME NEW c \in Started, parent[c] \in Started,
                 status'[c] = RUNNING \/ \E u \in Threads : Finishing(u)' /\ cur'[u] = c
          PROVE  status'[parent[c]] = RUNNING
      <4>1. c # clen /\ c \in Cid /\ parent[c] \in Cid /\ parent[c] # clen
        BY <2>1, <3>1, Domains
      <4> QED
        BY <1>1, <1>2, <2>2, <2>3, <3>1, <4>1 DEF TreeInv
    <3>2. parent[clen] \notin Started'
      BY <2>1, Domains
    <3> QED
      BY <2>1, <2>2, <2>6, <3>1, <3>2
  <2>10. TreeInv'
    BY <2>7, <2>8, <2>9 DEF TreeInv
  <2>11. RetInv'
    BY <1>1, <1>2, <2>2, <2>3 DEF RetInv, RUNNING, FINISHED
  <2> QED
    BY <2>10, <2>11
<1>5. CASE StartSwap(t)
  <2>1. PICK c \in Started : cpu[t].val = c /\ tid[c] = t
    BY <1>5 DEF StartSwap, IInv, StartInv
  <2>2. /\ parent' = [parent EXCEPT ![c] = cur[t]] /\ cur' = [cur EXCEPT ![t] = c]
        /\ status' = status /\ ret' = ret /\ clen' = clen /\ cpu'[t].pc = "user"
    BY <1>1, <1>5, <2>1 DEF StartSwap, IInv, RunningIsCurrent, UserFrame
  <2>3. c \in Cid /\ Started' = Started
    BY <2>2, Domains DEF Started
  <2>4. cur'[t] = c /\ \A u \in Threads : u # t => cur'[u] = cur[u]
    BY <1>3, <2>2
  <2>5. status[c] = RUNNING
    BY <1>1, <1>5, <2>1 DEF StartSwap, TreeInv, Starting
  <2>6. parent'[c] = cur[t] /\ \A d \in Cid : d # c => parent'[d] = parent[d]
    BY <1>3, <2>2, <2>3
  <2>7. \A u \in Threads : Starting(u)' => Starting(u) /\ cpu'[u] = cpu[u]
    BY <1>1, <2>2 DEF Starting, TinfoSection
  <2>8. \A u \in Threads : cur'[u] \in Cid /\ ~Finishing(u)' => status'[cur'[u]] = RUNNING
    BY <1>1, <1>2, <2>2, <2>4, <2>5 DEF TreeInv
  <2>9. \A u \in Threads : Starting(u)' => status'[cpu'[u].val] = RUNNING
    BY <1>1, <2>2, <2>7 DEF TreeInv
  <2>10. \A d \in Started' :
          /\ parent'[d] \in Started'
          /\ status'[d] = RUNNING \/ \E u \in Threads : Finishing(u)' /\ cur'[u] = d
          => status'[parent'[d]] = RUNNING
    <3>1. cur[t] \in Started => status[cur[t]] = RUNNING
      BY <1>1, <1>2, Domains DEF TreeInv
    <3>2. \A d \in Started : d # c /\ parent[d] \in Started
            /\ (status[d] = RUNNING \/ \E u \in Threads : Finishing(u)' /\ cur'[u] = d)
            => status[parent[d]] = RUNNING
      BY <1>1, <1>2, <2>4 DEF TreeInv
    <3> QED
      BY <2>2, <2>3, <2>6, <3>1, <3>2, Domains
  <2>11. TreeInv'
    BY <2>8, <2>9, <2>10 DEF TreeInv
  <2>12. RetInv'
    <3>1. \A u \in Threads : cpu[u].pc = "fin_ret" => u # t
      BY <1>1
    <3> QED
      BY <1>1, <1>2, <2>2, <2>4, <3>1 DEF RetInv
  <2> QED
    BY <2>11, <2>12
<1> QED
  BY <1>4, <1>5

\* co_yield resumes only what still runs.
LEMMA TreeYield ==
    ASSUME IInv, LInv, TreeInv, RetInv, NEW t \in Threads, YieldScan(t)
    PROVE  TreeInv' /\ RetInv'
<1> USE DEF At, coro, arrays, locks
<1>1. PICK r \in Started \cup {t} :
        /\ Resumes(t, r)
        /\ IF r = running[t]
           THEN cpu' = [cpu EXCEPT ![t] = AfterYield(@)] /\ UNCHANGED <<cur, uc>>
           ELSE /\ uc' = [uc EXCEPT ![running[t]] = AfterYield(cpu[t])]
                /\ cur' = [cur EXCEPT ![t] = r]
                /\ cpu' = [cpu EXCEPT ![t] = uc[r]]
  BY DEF YieldScan
<1>2. /\ cpu[t].pc = "yield_scan" /\ UNCHANGED <<status, ret, parent, clen>> /\ ~crashed
      /\ running[t] = cur[t]
      /\ cpu \in [Threads -> Frame] /\ cur \in [Threads -> Routine]
  BY DEF YieldScan, IInv, TypeOK, RunningIsCurrent
<1>3. /\ \A u \in Threads : u # t => cpu'[u] = cpu[u] /\ cur'[u] = cur[u]
      /\ cpu'[t].pc \in {"user", "wait_read", "all_lock"}
      /\ cur'[t] = r
  <2>1. AfterYield(cpu[t]).pc \in {"user", "wait_read", "all_lock"}
    BY DEF AfterYield, UserFrame, Move
  <2>2. uc[r].pc \in {"user", "wait_read", "all_lock"}
    BY Domains DEF IInv, FrameInv, Routine
  <2> QED
    BY <1>1, <1>2, <2>1, <2>2
<1>4. r \in Cid => status[r] = RUNNING
  BY <1>1, Domains DEF Resumes, Ready
<1>5. /\ \A u \in Threads : Finishing(u)' <=> Finishing(u)
      /\ \A u \in Threads : Finishing(u)' => u # t
      /\ \A u \in Threads : cpu[u].pc = "fin_ret" => u # t
      /\ \A u \in Threads : cpu'[u].pc = "fin_ret" => u # t
      /\ \A u \in Threads : Starting(u)' => Starting(u) /\ cpu'[u] = cpu[u]
  BY <1>2, <1>3 DEF Finishing, Starting, TinfoSection
<1>6. TreeInv'
  BY <1>2, <1>3, <1>4, <1>5 DEF TreeInv, Started
<1>7. RetInv'
  BY <1>2, <1>3, <1>5 DEF RetInv
<1> QED
  BY <1>6, <1>7

\* A body that returns leaves no child behind that still runs, or is in its wrapper.
LEMMA TreeReturn ==
    ASSUME Structured, IInv, LInv, TreeInv, RetInv, NEW t \in Threads, UserReturn(t)
    PROVE  TreeInv' /\ RetInv'
<1> USE DEF At, coro, arrays, locks, switch
<1>1. PICK c \in Started : cur[t] = c /\ tid[c] = t /\ c \in Cid
  BY Domains DEF UserReturn
<1>2. PICK x \in Rets : cpu' = [cpu EXCEPT ![t] = Move(@, "fin_ret", x)]
  BY DEF UserReturn, MoveTo
<1>3. /\ cpu \in [Threads -> Frame] /\ status \in [Cid -> {0, RUNNING, FINISHED}]
      /\ ~crashed /\ cpu[t].pc = "user" /\ status' = [status EXCEPT ![c] = FINISHED]
      /\ UNCHANGED <<ret, parent, clen, cur>>
      /\ \A d \in Children(c) : status[d] = FINISHED
  BY <1>1 DEF UserReturn, IInv, TypeOK
<1>4. /\ \A u \in Threads : u # t => cpu'[u] = cpu[u]
      /\ cpu'[t].pc = "fin_ret" /\ cpu'[t].val = x
      /\ status'[c] = FINISHED /\ \A d \in Cid : d # c => status'[d] = status[d]
  BY <1>1, <1>2, <1>3 DEF Move
<1>5. /\ \A u \in Threads : u # t => (Finishing(u)' <=> Finishing(u)) /\ cur[u] # c
      /\ Finishing(t)' /\ ~Finishing(t) /\ ~Starting(t)'
      /\ \A u \in Threads : Starting(u)' => u # t /\ Starting(u) /\ cpu[u].val # c /\ cpu[u].val \in Cid
  BY <1>1, <1>3, <1>4, Domains DEF Finishing, Starting, TinfoSection, IInv, StartInv
<1>6. \A u \in Threads : cur'[u] \in Cid /\ ~Finishing(u)' => status'[cur'[u]] = RUNNING
  BY <1>3, <1>4, <1>5 DEF TreeInv
<1>7. \A u \in Threads : Starting(u)' => status'[cpu'[u].val] = RUNNING
  BY <1>3, <1>4, <1>5 DEF TreeInv
<1>8. ASSUME NEW d \in Started, parent[d] \in Started,
             status'[d] = RUNNING \/ \E u \in Threads : Finishing(u)' /\ cur[u] = d
      PROVE  status'[parent[d]] = RUNNING
  <2>1. parent[d] < d /\ d \in Cid /\ parent[d] \in Cid /\ parent[d] \in Nat
    BY <1>8, Domains DEF LInv, AgeInv, Started
  <2>2. CASE d = c
    <3>1. status[c] = RUNNING
      BY <1>1, <1>3, <1>5 DEF TreeInv
    <3>2. status[parent[c]] = RUNNING
      BY <1>1, <1>3, <1>8, <2>2, <3>1 DEF TreeInv
    <3> QED
      BY <1>4, <2>1, <2>2, <3>2
  <2>3. CASE d # c
    <3>1. status[d] = RUNNING \/ \E u \in Threads : Finishing(u) /\ cur[u] = d
      BY <1>1, <1>4, <1>5, <1>8, <2>1, <2>3
    <3>2. status[parent[d]] = RUNNING
      BY <1>3, <1>8, <3>1 DEF TreeInv
    <3>3. parent[d] # c
      <4> SUFFICES ASSUME parent[d] = c PROVE FALSE
        OBVIOUS
      <4>1. status[d] = FINISHED
        BY <1>3 DEF Children
      <4>2. PICK u \in Threads : Finishing(u) /\ cur[u] = d
        BY <3>1, <4>1 DEF RUNNING, FINISHED
      <4>3. tid[d] = u
        BY <2>1, <4>2, Domains
      <4>4. parent[d] = Uninit \/ tid[parent[d]] = tid[d] \/ parent[d] = tid[d]
        BY DEF IInv, LinkInv, Linked
      <4> QED
        BY <1>1, <1>5, <4>2, <4>3, <4>4, Domains
    <3> QED
      BY <1>4, <2>1, <3>2, <3>3
  <2> QED
    BY <2>2, <2>3
<1>9. TreeInv'
  BY <1>3, <1>6, <1>7, <1>8 DEF TreeInv, Started
<1>10. RetInv'
  BY <1>1, <1>3, <1>4, <1>5 DEF RetInv, Finishing
<1> QED
  BY <1>9, <1>10

\* The wrapper writes the return value and comes back to a parent that still runs.
LEMMA TreeFinish ==
    ASSUME IInv, LInv, TreeInv, RetInv, NEW t \in Threads, FinRet(t) \/ FinWalk(t) \/ FinExit(t)
    PROVE  TreeInv' /\ RetInv'
<1> USE DEF At, MoveTo, Goto, Move, coro, arrays, locks, switch
<1>1. PICK c \in Started : cur[t] = c /\ tid[c] = t /\ c \in Cid
  BY Domains DEF FinRet, FinWalk, FinExit, IInv, FinishInv, Finishing
<1>2. /\ cpu \in [Threads -> Frame] /\ cur \in [Threads -> Routine] /\ ret \in [Cid -> Int]
      /\ ~crashed /\ \A u \in Threads : u # t => cpu'[u] = cpu[u]
      /\ UNCHANGED <<status, parent, clen>>
      /\ Finishing(t)
      /\ \A u \in Threads : u # t => cur[u] # c
  BY <1>1, Domains DEF FinRet, FinWalk, FinExit, Dies, Finishing, IInv, TypeOK
<1>3. CASE FinRet(t) \/ FinWalk(t)
  <2>1. /\ cpu'[t].pc \in {"fin_walk", "fin_exit"} /\ cur' = cur
    BY <1>2, <1>3 DEF FinRet, FinWalk, Dies
  <2>2. \A u \in Threads : (Finishing(u)' <=> Finishing(u)) /\ (Starting(u)' => Starting(u) /\ cpu'[u] = cpu[u])
    BY <1>2, <2>1 DEF Finishing, Starting, TinfoSection
  <2>3. TreeInv'
    BY <1>2, <2>1, <2>2 DEF TreeInv, Started
  <2>4. CASE FinRet(t)
    <3>1. ret' = [ret EXCEPT ![c] = cpu[t].val] /\ cpu[t].pc = "fin_ret"
      BY <1>1, <2>4 DEF FinRet
    <3>2. ret'[c] \in Rets /\ \A d \in Cid : d # c => ret'[d] = ret[d]
      BY <1>1, <1>2, <3>1 DEF RetInv
    <3> QED
      BY <1>1, <1>2, <2>1, <2>3, <3>2 DEF RetInv
  <2>5. CASE FinWalk(t)
    <3>1. ret' = ret /\ cpu[t].pc = "fin_walk"
      BY <2>5 DEF FinWalk
    <3> QED
      BY <1>2, <2>1, <2>3, <3>1 DEF RetInv
  <2> QED
    BY <1>3, <2>4, <2>5
<1>4. CASE FinExit(t)
  <2>1. /\ cpu[t].pc = "fin_exit" /\ cpu'[t] = uc[parent[c]] /\ ret' = ret
        /\ cur' = [cur EXCEPT ![t] = parent[c]]
    BY <1>1, <1>2, <1>4 DEF FinExit
  <2>2. parent[c] \in Routine /\ (parent[c] \in Cid => parent[c] \in Started)
    BY <1>1, <2>1, Domains DEF IInv, LinkInv, Linked, Routine, Started, TinfoSection
  <2>3. cpu'[t].pc \in {"user", "wait_read", "all_lock"}
    BY <2>1, <2>2 DEF IInv, FrameInv
  <2>4. cur'[t] = parent[c] /\ \A u \in Threads : u # t => cur'[u] = cur[u]
    BY <1>2, <2>1
  <2>5. /\ \A u \in Threads : u # t => (Finishing(u)' <=> Finishing(u))
        /\ ~Finishing(t)'
        /\ \A u \in Threads : Starting(u)' => Starting(u) /\ cpu'[u] = cpu[u]
    BY <1>2, <2>3 DEF Finishing, Starting, TinfoSection
  <2>6. parent[c] \in Cid => status[parent[c]] = RUNNING
    BY <1>1, <1>2, <2>2 DEF TreeInv
  <2>7. TreeInv'
    BY <1>2, <2>4, <2>5, <2>6 DEF TreeInv, Started
  <2>8. RetInv'
    BY <1>2, <2>1, <2>3, <2>4 DEF RetInv
  <2> QED
    BY <2>7, <2>8
<1> QED
  BY <1>3, <1>4

\* A program that has died takes no step.
LEMMA Alive ==
    ASSUME NEW t \in Threads, Library(t) \/ Client(t)
    PROVE  ~crashed
<1> USE DEF At
<1>1. CASE InitWrite(t) \/ Return(t) \/ StartCinfo(t) \/ StartBound(t) \/ StartTinfo(t)
  BY <1>1 DEF InitWrite, Return, StartCinfo, StartBound, StartTinfo
<1>2. CASE StartFree(t) \/ StartAdd(t) \/ StartMeta(t) \/ StartUnlock(t) \/ StartSwap(t)
  BY <1>2 DEF StartFree, StartAdd, StartMeta, StartUnlock, StartSwap
<1>3. CASE YieldMeta(t) \/ YieldScan(t) \/ WaitGet(t) \/ WaitRead(t) \/ AllLock(t) \/ AllRead(t)
  BY <1>3 DEF YieldMeta, YieldScan, WaitGet, WaitRead, AllLock, AllRead
<1>4. CASE Status(t) \/ GetIdWalk(t) \/ FinRet(t) \/ FinWalk(t) \/ FinExit(t) \/ Client(t)
  BY <1>4 DEF Status, GetIdWalk, FinRet, FinWalk, FinExit, Client, UserReturn, Call
<1> QED
  BY <1>1, <1>2, <1>3, <1>4 DEF Library

\* Both hold from the start, and every step keeps them when bodies are structured.
LEMMA TreeInit == Init => TreeInv /\ RetInv
<1> SUFFICES ASSUME Init PROVE TreeInv /\ RetInv
  OBVIOUS
<1> USE DEF Init
<1>1. Started = {} /\ \A t \in Threads : cpu[t].pc = "user" /\ cur[t] \notin Cid
  BY ThreadsAssumption DEF Started, UserFrame, Cid
<1> QED
  BY <1>1 DEF TreeInv, RetInv, Starting, TinfoSection, FINISHED

LEMMA TreeNext ==
    ASSUME Structured
    PROVE  IInv /\ LInv /\ TreeInv /\ RetInv /\ [Next]_vars => TreeInv' /\ RetInv'
<1> SUFFICES ASSUME IInv, LInv, TreeInv, RetInv, [Next]_vars PROVE TreeInv' /\ RetInv'
  OBVIOUS
<1>1. CASE crashed
  <2>1. crashed'
    BY <1>1, Alive DEF Next, Dead, vars
  <2> QED
    BY <2>1 DEF TreeInv, RetInv
<1>2. CASE ~crashed
  <2>1. ASSUME NEW t \in Threads, Library(t) PROVE TreeInv' /\ RetInv'
    BY <1>2, <2>1, QuietReads, QuietStarts, StillSteps, StillKeeps, TreeStart, TreeYield, TreeFinish
       DEF Library
  <2>2. ASSUME NEW t \in Threads, Client(t) PROVE TreeInv' /\ RetInv'
    BY <1>2, <2>2, QuietReads, StillSteps, StillKeeps, TreeReturn DEF Client
  <2>3. CASE UNCHANGED vars
    BY <2>3 DEF vars, arrays, locks, coro, switch, TreeInv, RetInv, Finishing, Starting, Started
  <2> QED
    BY <2>1, <2>2, <2>3 DEF Next, Dead
<1> QED
  BY <1>1, <1>2

\* When a body returns only after its children, no thread ever executes, and meta->running
\* never names, a coroutine that has finished or belongs to another thread.
THEOREM LiveOnly == ASSUME Structured PROVE Spec => []OnlyLiveRoutinesRun
<1>1. Init => IInv /\ LInv /\ TreeInv /\ RetInv
  BY InitInv, LifeInit, TreeInit
<1>2. IInv /\ LInv /\ TreeInv /\ RetInv /\ [Next]_vars => IInv' /\ LInv' /\ TreeInv' /\ RetInv'
  BY NextInv, LifeNext, TreeNext
<1>3. IInv /\ LInv /\ TreeInv /\ RetInv => OnlyLiveRoutinesRun
  <2> SUFFICES ASSUME IInv, LInv, TreeInv, ~crashed, NEW t \in Threads
               PROVE  /\ cur[t] \in Cid /\ ~Finishing(t) =>
                           cur[t] \in Started /\ tid[cur[t]] = t /\ status[cur[t]] = RUNNING
                      /\ running[t] \in Cid /\ ~Finishing(t) => status[running[t]] = RUNNING
                      /\ cpu[t].pc = "fin_exit" /\ running[t] \in Cid => status[running[t]] = RUNNING
    BY DEF OnlyLiveRoutinesRun
  <2>1. cur[t] \in Cid /\ ~Finishing(t) => cur[t] \in Started /\ tid[cur[t]] = t /\ status[cur[t]] = RUNNING
    BY Domains DEF TreeInv
  <2>2. ~Finishing(t) => running[t] = cur[t]
    BY DEF IInv, RunningIsCurrent, Finishing
  <2>3. ASSUME cpu[t].pc = "fin_exit", running[t] \in Cid
        PROVE  status[running[t]] = RUNNING
    <3>1. running[t] = parent[cur[t]] /\ Finishing(t) /\ cur[t] \in Started
      BY <2>3, Domains DEF IInv, RunningIsCurrent, Finishing, FinishInv
    <3>2. running[t] \in Started
      BY <2>3, <3>1, Domains DEF IInv, LinkInv, Linked, Finishing, TinfoSection
    <3> QED
      BY <3>1, <3>2 DEF TreeInv
  <2> QED
    BY <2>1, <2>2, <2>3
<1> QED
  BY <1>1, <1>2, <1>3, PTL DEF Spec

\* When a body returns only after its children, a coroutine finishes once: no step takes it
\* back from FINISHED, and once _co_func_wrapper has given its lock back (coroutine.c:176) no
\* step takes the lock for writing again, as a second return of the body would, or changes
\* the value that co_getret returns.
THEOREM FinishedStays == ASSUME Structured PROVE Spec => FinishedIsFinal
<1> DEFINE Final == \A c \in Cid : status[c] = FINISHED =>
                      /\ status'[c] = FINISHED
                      /\ colock[c] = {} => colock'[c] = {} /\ ret'[c] = ret[c]
<1>1. Init => IInv /\ LInv /\ TreeInv /\ RetInv
  BY InitInv, LifeInit, TreeInit
<1>2. IInv /\ LInv /\ TreeInv /\ RetInv /\ [Next]_vars => IInv' /\ LInv' /\ TreeInv' /\ RetInv'
  BY NextInv, LifeNext, TreeNext
<1>3. IInv /\ LInv /\ TreeInv /\ RetInv /\ [Next]_vars => [Final]_vars
  <2> SUFFICES ASSUME IInv, LInv, TreeInv, Next PROVE Final \/ UNCHANGED vars
    OBVIOUS
  <2>1. /\ status \in [Cid -> {0, RUNNING, FINISHED}] /\ ret \in [Cid -> Int]
        /\ colock \in [Cid -> SUBSET Threads]
    BY DEF IInv, TypeOK
  <2>2. ASSUME NEW t \in Threads, Library(t) \/ Client(t)
        PROVE  Final
    <3>1. CASE StartTinfo(t)
      <4>1. clen \in Cid /\ status[clen] = 0
        BY <3>1, Domains DEF StartTinfo, At, IInv, StartInv, LInv, LifeInv, Started, Cid
      <4> QED
        BY <2>1, <3>1, <4>1 DEF StartTinfo, RUNNING, FINISHED
    <3>2. CASE UserReturn(t)
      <4>1. cur[t] \in Cid /\ status[cur[t]] = RUNNING
        BY <3>2 DEF UserReturn, At, TreeInv, Finishing
      <4>2. \A c \in Cid \ {cur[t]} : status'[c] = status[c] /\ colock'[c] = colock[c] /\ ret' = ret
        BY <2>1, <3>2 DEF UserReturn
      <4> QED
        BY <4>1, <4>2 DEF RUNNING, FINISHED
    <3>3. CASE FinRet(t)
      <4>1. cur[t] \in Cid /\ colock[cur[t]] # {}
        BY <3>3, Domains DEF FinRet, At, IInv, FinishInv, Finishing, LInv, HoldInv
      <4> QED
        BY <2>1, <3>3, <4>1 DEF FinRet, locks
    <3>4. UNCHANGED <<status, ret, colock>> => Final
      OBVIOUS
    <3>5. CASE AllLock(t) \/ AllRead(t) \/ StartSwap(t) \/ YieldScan(t) \/ FinWalk(t)
      BY <3>4, <3>5 DEF AllLock, AllRead, StartSwap, YieldScan, FinWalk, coro, locks
    <3>7. CASE FinExit(t)
      <4>1. \A c \in Cid : colock'[c] \subseteq colock[c]
        BY <2>1, <3>7 DEF FinExit
      <4> QED
        BY <3>7, <4>1 DEF FinExit, coro
    <3>6. CASE Quiet(t)
      BY <3>4, <3>6 DEF Quiet
    <3> QED
      BY <2>2, <3>1, <3>2, <3>3, <3>5, <3>6, <3>7, QuietReads, QuietStarts DEF Library, Client
  <2>3. CASE Dead
    BY <2>3 DEF Dead
  <2> QED
    BY <2>2, <2>3 DEF Next
<1> QED
  BY <1>1, <1>2, <1>3, PTL DEF Spec, FinishedIsFinal

-----------------------------------------------------------------------------
(* Lineage: the walk along parent of co_status *)

\* Every nonempty set of natural numbers has a least element.
LEMMA Least ==
    ASSUME NEW S \in SUBSET Nat, S # {}
    PROVE  \E n \in S : \A m \in S : n =< m
<1> DEFINE R == {ss \in Nat \X Nat : ss[1] < ss[2]}
<1>1. IsWellFoundedOn(R, Nat)
  BY NatLessThanWellFounded DEF OpToRel
<1>2. \A m, n \in Nat : m < n => <<m, n>> \in R
  OBVIOUS
<1>3. \E n \in S : \A m \in S : ~ (<<m, n>> \in R)
  <2> HIDE DEF R
  <2> QED BY <1>1, WFMin
<1>4. PICK n \in S : \A m \in S : ~ (<<m, n>> \in R)
  BY <1>3
<1> HIDE DEF R
<1>5. \A m \in S : ~ (m < n)
  BY <1>2, <1>4
<1> QED
  BY <1>5

\* A set that holds the children of its members.
Closed(S) == \A d \in Started : parent[d] \in S => d \in S

\* The ancestors of c are c itself and those of its parent.
LEMMA AncestorStep ==
    ASSUME IInv, LInv, NEW a \in Cid, NEW c \in Cid
    PROVE  Ancestor(a, c) <=> a = c \/ (parent[c] \in Cid /\ Ancestor(a, parent[c]))
<1>1. parent[c] \in Cid => c \in Started
  BY Domains DEF IInv, LinkInv
<1>2. ASSUME a = c \/ (parent[c] \in Cid /\ Ancestor(a, parent[c]))
      PROVE  Ancestor(a, c)
  BY <1>1, <1>2 DEF Ancestor
<1>3. ASSUME Ancestor(a, c), a # c
      PROVE  parent[c] \in Cid /\ Ancestor(a, parent[c])
  <2>1. CASE parent[c] \notin Cid
    <3>1. a \in Cid \ {c} /\ Closed(Cid \ {c})
      BY <1>3, <2>1, Domains DEF Closed
    <3> QED
      BY <1>3, <3>1 DEF Ancestor, Closed
  <2>2. ASSUME NEW S \in SUBSET Cid, a \in S, Closed(S), parent[c] \notin S
        PROVE  FALSE
    <3>1. a \in S \ {c} /\ Closed(S \ {c})
      BY <1>3, <2>2 DEF Closed
    <3> QED
      BY <1>3, <3>1 DEF Ancestor, Closed
  <2> QED
    BY <2>1, <2>2 DEF Ancestor, Closed
<1> QED
  BY <1>2, <1>3

\* The walk of co_status meets exactly the ancestors.
LEMMA LineageIsAncestors ==
    ASSUME IInv, LInv, NEW a \in Cid, NEW c \in Cid
    PROVE  a \in Lineage[c] <=> Ancestor(a, c)
<1> DEFINE Walk(g) == [d \in Cid |-> {d} \cup (IF parent[d] \in Cid THEN g[parent[d]] ELSE {})]
           A == [d \in Cid |-> {b \in Cid : Ancestor(b, d)}]
<1>1. A = Walk(A)
  <2>1. \A d \in Cid : A[d] = Walk(A)[d]
    <3>1. ASSUME NEW d \in Cid, NEW b \in Cid
          PROVE  b \in A[d] <=> b \in Walk(A)[d]
      BY AncestorStep
    <3> QED
      BY <3>1
  <2> QED
    BY <2>1
<1>2. Lineage = Walk(Lineage)
  <2>1. Lineage = CHOOSE g : g = Walk(g)
    BY DEF Lineage
  <2> HIDE DEF Walk, A
  <2> QED
    BY <1>1, <2>1
<1>3. \A d \in Cid : Lineage[d] = A[d]
  <2> DEFINE Bad == {d \in Cid : Lineage[d] # A[d]}
  <2> SUFFICES ASSUME Bad # {} PROVE FALSE
    OBVIOUS
  <2>1. Bad \in SUBSET Nat /\ \A d \in Cid : d \in Nat
    BY DEF Cid
  <2>2. PICK n \in Bad : \A m \in Bad : n =< m
    BY <2>1, Least
  <2>3. parent[n] \in Cid => parent[n] < n
    BY Domains DEF IInv, LinkInv, LInv, AgeInv
  <2>4. parent[n] \in Cid => parent[n] \notin Bad
    <3> HIDE DEF Bad
    <3> QED
      BY <2>1, <2>2, <2>3
  <2>5. Walk(Lineage)[n] = Walk(A)[n]
    BY <2>4
  <2> HIDE DEF Walk, A
  <2> QED
    BY <1>1, <1>2, <2>2, <2>5
<1> QED
  BY <1>3

-----------------------------------------------------------------------------
(* The answers of the library *)

\* What holds of the answer of a thread until its caller has it.
Answered(t) ==
    LET f == cpu[t] IN
    /\ f.op = "wait" => status[f.arg] = FINISHED
    /\ f.op = "getret" => /\ status[f.arg] = FINISHED /\ colock[f.arg] = {}
                          /\ f.val = ret[f.arg] /\ f.val \in Rets
    /\ f.op = "waitall" => \A c \in Cid : c < f.val => status[c] = FINISHED
    /\ f.op = "getid" => f.val = IF cur[t] = t THEN -1 ELSE cur[t]
    /\ f.op = "status" =>
         /\ f.arg \in Started
         /\ f.val = IF tid[f.arg] = t /\ (cur[t] = t \/ Ancestor(cur[t], f.arg))
                    THEN status[f.arg] ELSE UNAUTHORIZED

\* What a thread knows on its way to an answer.
Asking(t) ==
    LET f == cpu[t] IN
    /\ f.pc \in {"init_wr", "status"} /\ f.op = "status" => f.arg \in Started
    /\ f.pc = "status" => f.op = "status"
    /\ f.pc = "getid_walk" => f.op = "getid"
    /\ f.pc = "all_read" => \A c \in Cid : c < f.val => status[c] = FINISHED

AnswerInv == ~crashed => \A t \in Threads :
    Asking(t) /\ (cpu[t].pc = "answered" => Answered(t))

\* What every step of t leaves to the other threads: their frames, all that has finished,
\* and the status and the links of their own coroutines.
Kept(t) ==
    /\ \A u \in Threads : u # t => cpu'[u] = cpu[u] /\ cur'[u] = cur[u]
    /\ Started \subseteq Started'
    /\ \A c \in Started :
         /\ tid'[c] = tid[c]
         /\ status[c] = FINISHED =>
              status'[c] = FINISHED /\ (colock[c] = {} => colock'[c] = {} /\ ret'[c] = ret[c])
         /\ tid[c] # t => status'[c] = status[c] /\ parent'[c] = parent[c]

\* Every step of a thread does.
LEMMA KeptSteps ==
    ASSUME IInv, LInv, TreeInv, ~crashed, NEW t \in Threads, Library(t) \/ Client(t)
    PROVE  Kept(t)
<1> USE DEF coro, arrays, locks, switch, Kept
<1>1. /\ cpu \in [Threads -> Frame] /\ cur \in [Threads -> Routine]
      /\ status \in [Cid -> {0, RUNNING, FINISHED}] /\ ret \in [Cid -> Int]
      /\ parent \in [Cid -> Routine \cup {Uninit}] /\ tid \in [Cid -> Threads \cup {Uninit}]
      /\ colock \in [Cid -> SUBSET Threads]
  BY DEF IInv, TypeOK
<1>2. CASE Quiet(t) \/ AllLock(t) \/ AllRead(t)
  <2>1. /\ \A u \in Threads : u # t => cpu'[u] = cpu[u]
        /\ UNCHANGED <<colock, tid, status, ret, parent, cur, clen>>
    BY <1>1, <1>2 DEF Quiet, AllLock, AllRead, MoveTo, Goto
  <2> QED
    BY <2>1 DEF Started
<1>3. CASE StartTinfo(t)
  <2>1. /\ clen \in Cid /\ clen \notin Started /\ Started' = Started \cup {clen}
    BY <1>3, Domains DEF StartTinfo, At, IInv, StartInv, Started, Cid
  <2>2. /\ status' = [status EXCEPT ![clen] = RUNNING] /\ tid' = [tid EXCEPT ![clen] = t]
        /\ ret' = [ret EXCEPT ![clen] = -1] /\ UNCHANGED <<parent, colock, cur>>
        /\ \A u \in Threads : u # t => cpu'[u] = cpu[u]
    BY <1>1, <1>3 DEF StartTinfo, MoveTo
  <2>3. \A c \in Started : c \in Cid /\ c # clen
    BY <2>1, Domains
  <2> QED
    BY <1>1, <2>1, <2>2, <2>3
<1>4. CASE StartSwap(t)
  <2>1. PICK c \in Started : cpu[t].val = c /\ tid[c] = t /\ c \in Cid
    BY <1>4, Domains DEF StartSwap, At, IInv, StartInv
  <2>2. /\ parent' = [parent EXCEPT ![c] = running[t]] /\ cur' = [cur EXCEPT ![t] = c]
        /\ UNCHANGED <<tid, status, ret, colock, clen>>
        /\ \A u \in Threads : u # t => cpu'[u] = cpu[u]
    BY <1>1, <1>4, <2>1 DEF StartSwap
  <2> QED
    BY <1>1, <2>1, <2>2, Domains DEF Started
<1>5. CASE YieldScan(t) \/ FinWalk(t)
  <2>1. /\ \A u \in Threads : u # t => cpu'[u] = cpu[u] /\ cur'[u] = cur[u]
        /\ UNCHANGED <<colock, tid, status, ret, parent, clen>>
    BY <1>1, <1>5 DEF YieldScan, FinWalk, Dies, Goto
  <2> QED
    BY <2>1 DEF Started
<1>6. CASE UserReturn(t)
  <2>1. cur[t] \in Started /\ tid[cur[t]] = t /\ status[cur[t]] = RUNNING /\ cur[t] \in Cid
    BY <1>6, Domains DEF UserReturn, At, TreeInv, Finishing
  <2>2. /\ status' = [status EXCEPT ![cur[t]] = FINISHED]
        /\ colock' = [colock EXCEPT ![cur[t]] = @ \cup {t}]
        /\ UNCHANGED <<tid, ret, parent, cur, clen>>
        /\ \A u \in Threads : u # t => cpu'[u] = cpu[u]
    BY <1>1, <1>6 DEF UserReturn, MoveTo
  <2> QED
    BY <1>1, <2>1, <2>2, Domains DEF Started, RUNNING, FINISHED
<1>7. CASE FinRet(t)
  <2>1. cur[t] \in Cid /\ t \in colock[cur[t]]
    BY <1>7, Domains DEF FinRet, At, IInv, FinishInv, Finishing, LInv, HoldInv
  <2>2. /\ ret' = [ret EXCEPT ![cur[t]] = cpu[t].val]
        /\ UNCHANGED <<tid, status, colock, parent, cur, clen>>
        /\ \A u \in Threads : u # t => cpu'[u] = cpu[u]
    BY <1>1, <1>7 DEF FinRet, MoveTo
  <2> QED
    BY <1>1, <2>1, <2>2, Domains DEF Started
<1>8. CASE FinExit(t)
  <2>1. cur[t] \in Cid
    BY <1>8, Domains DEF FinExit, At, IInv, FinishInv, Finishing
  <2>2. /\ colock' = [colock EXCEPT ![cur[t]] = @ \ {t}]
        /\ UNCHANGED <<tid, status, ret, parent, clen>>
        /\ \A u \in Threads : u # t => cpu'[u] = cpu[u] /\ cur'[u] = cur[u]
    BY <1>1, <1>8 DEF FinExit
  <2> QED
    BY <1>1, <2>1, <2>2, Domains DEF Started
<1> QED
  BY <1>2, <1>3, <1>4, <1>5, <1>6, <1>7, <1>8, QuietReads, QuietStarts DEF Library, Client

\* The first coroutines, up to the bound, are coroutines.
LEMMA Prefix == \A n \in Nat : n <= MaxCo => 0 .. (n - 1) \subseteq Cid
  BY BoundAssumption DEF Cid

\* The ancestors of a coroutine are on its thread, so no other thread changes them.
LEMMA AncestorsKept ==
    ASSUME IInv, IInv', NEW t \in Threads, Kept(t), NEW u \in Threads, u # t,
           NEW c \in Started, tid[c] = u, NEW a
    PROVE  Ancestor(a, c)' <=> Ancestor(a, c)
<1>1. PICK M : M = {d \in Started : tid[d] = u}
  OBVIOUS
<1>2. /\ M \subseteq Cid /\ M \subseteq Started /\ M \subseteq Started' /\ c \in M
      /\ \A d \in M : parent'[d] = parent[d]
      /\ \A d \in M : parent[d] \in Cid => parent[d] \in M
      /\ Started \subseteq Cid
  <2>1. \A d \in Started : parent[d] \in Cid => parent[d] \in Started /\ tid[parent[d]] = tid[d]
    <3>1. \A d \in Started : tid[d] \in Threads /\ (Linked(d) \/ parent[d] = Uninit)
      BY DEF IInv, LinkInv
    <3> QED
      BY <3>1, Domains DEF Linked
  <2>2. M \subseteq Started' /\ \A d \in M : parent'[d] = parent[d]
    BY <1>1 DEF Kept
  <2> QED
    BY <1>1, <2>1, <2>2, Domains
<1>3. clen' \in Nat /\ clen' <= MaxCo /\ MaxCo \in Nat
  <2>1. TypeOK'
    BY DEF IInv
  <2> QED
    BY <2>1, BoundAssumption DEF TypeOK
<1>4. Started' \subseteq Cid
  BY <1>3, Prefix DEF Started
<1>5. ASSUME Ancestor(a, c), NEW S \in SUBSET Cid, a \in S, Closed(S)'
      PROVE  c \in S
  <2>1. Closed(S \cup (Cid \ M))
    BY <1>2, <1>5 DEF Closed
  <2> QED
    BY <1>2, <1>5, <2>1 DEF Ancestor, Closed
<1>6. ASSUME Ancestor(a, c)', NEW S \in SUBSET Cid, a \in S, Closed(S)
      PROVE  c \in S
  <2>1. Closed(S \cup (Cid \ M))'
    BY <1>2, <1>4, <1>6 DEF Closed
  <2> QED
    BY <1>2, <1>6, <2>1 DEF Ancestor, Closed
<1> QED
  BY <1>5, <1>6 DEF Ancestor, Closed

\* What a thread knows stays true while other threads step.
LEMMA AnswersKept ==
    ASSUME IInv, IInv', LInv, AnswerInv, ~crashed, NEW t \in Threads, Kept(t),
           NEW u \in Threads, u # t
    PROVE  Asking(u)' /\ (cpu'[u].pc = "answered" => Answered(u)')
<1>1. /\ Asking(u) /\ (cpu[u].pc = "answered" => Answered(u))
      /\ cpu'[u] = cpu[u] /\ cur'[u] = cur[u] /\ Started \subseteq Started'
  BY DEF AnswerInv, Kept
<1>2. \A c \in Started : /\ tid'[c] = tid[c]
                         /\ status[c] = FINISHED =>
                              status'[c] = FINISHED /\ (colock[c] = {} => colock'[c] = {} /\ ret'[c] = ret[c])
                         /\ tid[c] = u => status'[c] = status[c]
  BY DEF Kept
<1>3. \A c \in Cid : status[c] = FINISHED => status'[c] = FINISHED
  BY <1>2 DEF LInv, LifeInv, FINISHED
<1>4. Asking(u)'
  BY <1>1, <1>3 DEF Asking
<1>5. ASSUME cpu[u].pc = "answered"
      PROVE  Answered(u)'
  <2>1. PICK f, a : f = cpu[u] /\ a = cur[u]
    OBVIOUS
  <2>2. f.op \in {"wait", "getret"} => f.arg \in Started
    BY <2>1 DEF IInv, FrameInv, FrameOK
  <2>3. /\ f.op = "wait" => status'[f.arg] = FINISHED
        /\ f.op = "getret" => /\ status'[f.arg] = FINISHED /\ colock'[f.arg] = {}
                              /\ f.val = ret'[f.arg] /\ f.val \in Rets
        /\ f.op = "waitall" => \A c \in Cid : c < f.val => status'[c] = FINISHED
        /\ f.op = "getid" => f.val = IF a = u THEN -1 ELSE a
    BY <1>1, <1>2, <1>3, <1>5, <2>1, <2>2 DEF Answered
  <2>4. ASSUME f.op = "status"
        PROVE  /\ f.arg \in Started'
               /\ f.val = IF tid'[f.arg] = u /\ (a = u \/ Ancestor(a, f.arg)')
                          THEN status'[f.arg] ELSE UNAUTHORIZED
    <3>1. PICK c \in Started : c = f.arg
      BY <1>1, <1>5, <2>1, <2>4 DEF Answered
    <3>2. f.val = IF tid[c] = u /\ (a = u \/ Ancestor(a, c)) THEN status[c] ELSE UNAUTHORIZED
      BY <1>1, <1>5, <2>1, <2>4, <3>1 DEF Answered
    <3>3. tid[c] = u => (Ancestor(a, c)' <=> Ancestor(a, c))
      BY AncestorsKept
    <3> QED
      BY <1>1, <1>2, <3>1, <3>2, <3>3
  <2> QED
    BY <1>1, <2>1, <2>3, <2>4 DEF Answered
<1> QED
  BY <1>1, <1>4, <1>5

\* The thread that owns a coroutine has its entry of _tinfo, or is about to fill it in.
OwnInv == \A c \in Started :
    HasMeta(tid[c]) \/ cpu[tid[c]].pc \in {"start_free", "start_add", "start_meta"}

\* No step takes an entry of _tinfo away from a thread.
LEMMA OwnNext == IInv /\ OwnInv /\ [Next]_vars => OwnInv'
<1> SUFFICES ASSUME IInv, OwnInv, [Next]_vars PROVE OwnInv'
  OBVIOUS
<1> USE DEF At, coro, arrays, locks, switch, MoveTo, Goto, Move
<1>1. /\ cpu \in [Threads -> Frame] /\ tinfo \in Seq(Threads \cup {Uninit})
      /\ tid \in [Cid -> Threads \cup {Uninit}]
      /\ \A c \in Started : tid[c] \in Threads
  BY DEF IInv, TypeOK, LinkInv
<1>2. ASSUME NEW t \in Threads, Library(t) \/ Client(t) PROVE OwnInv'
  <2>1. CASE /\ cpu[t].pc \notin {"start_free", "start_add", "start_meta"}
             /\ \A u \in Threads : u # t => cpu'[u] = cpu[u]
             /\ UNCHANGED <<tinfo, tid>> /\ Started' = Started
    BY <1>1, <2>1 DEF OwnInv, HasMeta
  <2>2. CASE InitWrite(t)
    <3>1. tinfo' = tinfo /\ Started' = Started
      BY <2>2 DEF InitWrite, IInv, FreshInv, Started
    <3> QED
      BY <1>1, <2>1, <2>2, <3>1 DEF InitWrite
  <2>3. CASE StartTinfo(t)
    <3>1. /\ clen \in Cid /\ clen \notin Started /\ Started' = Started \cup {clen}
      BY <2>3, Domains DEF StartTinfo, IInv, StartInv, Started, Cid
    <3>2. tid'[clen] = t /\ \A c \in Started : c \in Cid /\ tid'[c] = tid[c]
      BY <1>1, <2>3, <3>1, Domains DEF StartTinfo
    <3>3. /\ tinfo' = tinfo /\ \A u \in Threads : u # t => cpu'[u] = cpu[u]
          /\ HasMeta(t) \/ cpu'[t].pc \in {"start_free", "start_add"}
          /\ cpu[t].pc = "start_tinfo"
      BY <1>1, <2>3 DEF StartTinfo
    <3> QED
      BY <1>1, <3>1, <3>2, <3>3 DEF OwnInv, HasMeta
  <2>4. CASE StartFree(t)
    <3>1. /\ UNCHANGED <<tinfo, tid>> /\ Started' = Started /\ cpu'[t].pc = "start_add"
          /\ \A u \in Threads : u # t => cpu'[u] = cpu[u]
      BY <1>1, <2>4 DEF StartFree, Started
    <3> QED
      BY <1>1, <3>1 DEF OwnInv, HasMeta
  <2>5. CASE StartAdd(t)
    <3>1. /\ UNCHANGED tid /\ Started' = Started /\ cpu'[t].pc = "start_meta"
          /\ \A u \in Threads : u # t => cpu'[u] = cpu[u]
      BY <1>1, <2>5 DEF StartAdd, Started
    <3>2. \A i \in DOMAIN tinfo : i \in DOMAIN tinfo' /\ tinfo'[i] = tinfo[i]
      BY <1>1, <2>5 DEF StartAdd
    <3> QED
      BY <1>1, <3>1, <3>2 DEF OwnInv, HasMeta
  <2>6. CASE StartMeta(t)
    <3>1. /\ UNCHANGED tid /\ Started' = Started
          /\ \A u \in Threads : u # t => cpu'[u] = cpu[u]
      BY <1>1, <2>6 DEF StartMeta, Started
    <3>2. /\ \A i \in DOMAIN tinfo : i \in DOMAIN tinfo' /\ (i # Len(tinfo) => tinfo'[i] = tinfo[i])
          /\ Len(tinfo) \in DOMAIN tinfo' /\ tinfo'[Len(tinfo)] = t
          /\ tinfo[Len(tinfo)] = Uninit
      BY <1>1, <2>6 DEF StartMeta, IInv, MetaInv
    <3>3. \A u \in Threads : HasMeta(u) => HasMeta(u)'
      BY <3>2, ThreadsAssumption DEF HasMeta
    <3>4. HasMeta(t)'
      BY <3>2 DEF HasMeta
    <3> QED
      BY <1>1, <3>1, <3>3, <3>4 DEF OwnInv
  <2>7. CASE StartCinfo(t) \/ StartBound(t) \/ StartUnlock(t) \/ Return(t) \/ Client(t)
    BY <1>1, <2>1, <2>7 DEF StartCinfo, StartBound, StartUnlock, Return, Client, Call, UserReturn, Started
  <2>8. CASE YieldMeta(t) \/ WaitGet(t) \/ WaitRead(t) \/ AllLock(t) \/ AllRead(t) \/ Status(t) \/ GetIdWalk(t)
    BY <1>1, <2>1, <2>8 DEF YieldMeta, WaitGet, WaitRead, AllLock, AllRead, Status, GetIdWalk, Answer, Dies, Started
  <2>9. CASE StartSwap(t) \/ YieldScan(t) \/ FinRet(t) \/ FinWalk(t) \/ FinExit(t)
    BY <1>1, <2>1, <2>9 DEF StartSwap, YieldScan, FinRet, FinWalk, FinExit, Dies, Started
  <2> QED
    BY <1>2, <2>2, <2>3, <2>4, <2>5, <2>6, <2>7, <2>8, <2>9 DEF Library
<1>3. CASE UNCHANGED vars
  BY <1>3 DEF vars, OwnInv, HasMeta, Started
<1> QED
  BY <1>2, <1>3 DEF Next, Dead

\* The labels at which a thread knows something about its answer.
Knowing == {"init_wr", "status", "getid_walk", "all_read", "answered"}

\* A call begins with an argument that its function can work on.
LEMMA AsksLegally ==
    ASSUME AsksGivenCids, IInv, AnswerInv, NEW t \in Threads,
           (\E op \in API, arg \in -1 .. (MaxCo + 1) : Call(t, op, arg)) \/ InitWrite(t)
    PROVE  Asking(t)' /\ (cpu'[t].pc = "answered" => Answered(t)')
<1> USE DEF At, coro, arrays, locks, switch
<1>1. cpu \in [Threads -> Frame] /\ FrameOK(cpu[t])
  BY DEF IInv, TypeOK, FrameInv
<1>2. ASSUME NEW op \in API, NEW arg \in -1 .. (MaxCo + 1), Call(t, op, arg)
      PROVE  Asking(t)' /\ (cpu'[t].pc = "answered" => Answered(t)')
  BY <1>1, <1>2 DEF Call, Legal, Entry, API, Asking, Started
<1>3. CASE InitWrite(t)
  <2>1. Started' = Started
    BY <1>3 DEF InitWrite, IInv, FreshInv, Started
  <2>2. cpu'[t] = Move(cpu[t], Entry(cpu[t].op), cpu[t].val) /\ Asking(t) /\ cpu[t].pc = "init_wr"
    BY <1>1, <1>3 DEF InitWrite, Goto, AnswerInv
  <2> QED
    BY <1>1, <2>1, <2>2 DEF Entry, API, Asking, Move, FrameOK
<1> QED
  BY <1>2, <1>3

\* The functions answer with what they have found.
LEMMA AnswersTruly ==
    ASSUME IInv, LInv, RetInv, OwnInv, AnswerInv, NEW t \in Threads,
           WaitRead(t) \/ AllLock(t) \/ AllRead(t) \/ Status(t) \/ GetIdWalk(t), ~crashed'
    PROVE  Asking(t)' /\ (cpu'[t].pc = "answered" => Answered(t)')
<1> USE DEF At, coro, arrays, locks, switch, MoveTo, Goto, Answer, Move
<1>1. /\ cpu \in [Threads -> Frame] /\ FrameOK(cpu[t]) /\ clen \in Nat
      /\ ~crashed => Asking(t)
  BY Domains DEF IInv, TypeOK, FrameInv, AnswerInv
<1>2. CASE WaitRead(t)
  <2>1. PICK c \in Started : c = cpu[t].arg /\ c \in Cid /\ cpu[t].op \in {"wait", "getret"}
    BY <1>1, <1>2, Domains DEF WaitRead, FrameOK
  <2>2. ~crashed /\ colock[c] = {} /\ UNCHANGED <<status, ret, colock>>
    BY <1>2, <2>1 DEF WaitRead
  <2>3. CASE status[c] # FINISHED
    BY <1>1, <1>2, <2>1, <2>3 DEF WaitRead, Asking
  <2>4. CASE status[c] = FINISHED
    <3>1. ret[c] \in Rets
      <4>1. \A u \in Threads : cpu[u].pc = "fin_ret" => cur[u] # c
        BY <2>1, <2>2 DEF LInv, HoldInv, Finishing
      <4> QED
        BY <2>1, <2>2, <2>4, <4>1 DEF RetInv
    <3>2. /\ cpu'[t].pc = "answered" /\ cpu'[t].op = cpu[t].op /\ cpu'[t].arg = c
          /\ cpu'[t].op = "getret" => cpu'[t].val = ret[c]
      BY <1>1, <1>2, <2>1, <2>4 DEF WaitRead
    <3> QED
      BY <2>1, <2>2, <2>4, <3>1, <3>2 DEF Asking, Answered
  <2> QED
    BY <2>3, <2>4
<1>3. CASE AllLock(t)
  <2>1. cpu'[t].pc = "all_read" /\ cpu'[t].val = 0
    BY <1>1, <1>3 DEF AllLock
  <2> QED
    BY <2>1 DEF Asking, Cid
<1>4. CASE AllRead(t)
  <2>1. /\ ~crashed /\ cpu[t].pc = "all_read" /\ cpu[t].op = "waitall" /\ cpu[t].val \in Int
        /\ UNCHANGED <<status, clen>>
        /\ \A c \in Cid : c < cpu[t].val => status[c] = FINISHED
    BY <1>1, <1>4 DEF AllRead, FrameOK, Asking, Frame
  <2>2. CASE cpu[t].val < clen /\ status[cpu[t].val] = FINISHED
    <3>1. cpu'[t].pc = "all_read" /\ cpu'[t].val = cpu[t].val + 1
      BY <1>1, <1>4, <2>2 DEF AllRead
    <3>2. \A c \in Cid : c < cpu[t].val + 1 => status[c] = FINISHED
      BY <2>1, <2>2 DEF Cid
    <3> QED
      BY <2>1, <3>1, <3>2 DEF Asking
  <2>3. CASE ~(cpu[t].val < clen /\ status[cpu[t].val] = FINISHED)
    <3>1. /\ cpu'[t].pc \in {"answered", "yield_meta"} /\ cpu'[t].val = cpu[t].val
          /\ cpu'[t].op = "waitall"
      BY <1>1, <1>4, <2>1, <2>3 DEF AllRead
    <3> QED
      BY <2>1, <3>1 DEF Asking, Answered
  <2> QED
    BY <2>2, <2>3
<1>5. CASE Status(t)
  <2>1. PICK c \in Started : c = cpu[t].arg /\ c \in Cid /\ cpu[t].op = "status"
    BY <1>1, <1>5, Domains DEF Status, Asking
  <2>2. /\ ~crashed /\ cpu[t].pc = "status"
        /\ UNCHANGED <<tid, status, parent, clen, cur>>
        /\ cpu'[t].pc = "answered" /\ cpu'[t].op = "status" /\ cpu'[t].arg = c
        /\ cpu'[t].val = StatusOf(t, c)
    BY <1>1, <1>5, <2>1 DEF Status, Started
  <2>3. running[t] = cur[t] /\ (cur[t] # t => HasMeta(t) /\ cur[t] \in Cid)
    BY <2>2, Domains DEF IInv, RunningIsCurrent, MetaInv
  <2>4. tid[c] = t => HasMeta(t)
    BY <2>1, <2>2 DEF OwnInv
  <2>5. StatusOf(t, c) = IF tid[c] = t /\ (cur[t] = t \/ Ancestor(cur[t], c))
                         THEN status[c] ELSE UNAUTHORIZED
    BY <2>1, <2>3, <2>4, LineageIsAncestors DEF StatusOf
  <2>6. \A a : Ancestor(a, c)' <=> Ancestor(a, c)
    BY <2>2 DEF Ancestor, Started
  <2> QED
    BY <2>1, <2>2, <2>5, <2>6 DEF Asking, Answered, Started
<1>6. CASE GetIdWalk(t)
  <2>1. ~crashed /\ running[t] = cur[t] /\ cpu[t].op = "getid" /\ cur' = cur
    BY <1>1, <1>6 DEF GetIdWalk, Asking, IInv, RunningIsCurrent
  <2>2. /\ cpu'[t].pc = "answered" /\ cpu'[t].op = "getid"
        /\ cpu'[t].val = IF cur[t] = t THEN -1 ELSE cur[t]
    BY <1>1, <1>6, <2>1 DEF GetIdWalk, Dies
  <2> QED
    BY <2>1, <2>2 DEF Asking, Answered
<1> QED
  BY <1>2, <1>3, <1>4, <1>5, <1>6

\* Every other step leaves the thread at a label where it knows nothing.
LEMMA AnswersNothing ==
    ASSUME IInv, NEW t \in Threads,
           \/ UserReturn(t) \/ Return(t) \/ StartCinfo(t) \/ StartBound(t) \/ StartTinfo(t)
           \/ StartFree(t) \/ StartAdd(t) \/ StartMeta(t) \/ StartUnlock(t) \/ StartSwap(t)
           \/ YieldMeta(t) \/ YieldScan(t) \/ WaitGet(t) \/ FinRet(t) \/ FinWalk(t) \/ FinExit(t),
           ~crashed'
    PROVE  Asking(t)' /\ (cpu'[t].pc = "answered" => Answered(t)')
<1> USE DEF At, MoveTo, Goto, Move
<1>1. cpu \in [Threads -> Frame]
  BY DEF IInv, TypeOK
<1>2. cpu'[t].pc \notin Knowing => Asking(t)' /\ (cpu'[t].pc = "answered" => Answered(t)')
  BY DEF Asking, Knowing
<1>3. \A r \in Routine : uc[r].pc \in {"user", "wait_read", "all_lock"}
  BY DEF IInv, FrameInv
<1>4. CASE UserReturn(t) \/ Return(t) \/ StartCinfo(t) \/ StartBound(t) \/ StartTinfo(t)
  <2>1. cpu'[t].pc \notin Knowing
    BY <1>1, <1>4 DEF UserReturn, Return, StartCinfo, StartBound, StartTinfo, UserFrame, Knowing
  <2> QED
    BY <1>2, <2>1
<1>5. CASE StartFree(t) \/ StartAdd(t) \/ StartMeta(t) \/ StartUnlock(t) \/ StartSwap(t)
  <2>1. cpu'[t].pc \notin Knowing
    BY <1>1, <1>5 DEF StartFree, StartAdd, StartMeta, StartUnlock, StartSwap, UserFrame, Knowing
  <2> QED
    BY <1>2, <2>1
<1>6. CASE YieldMeta(t) \/ WaitGet(t) \/ FinRet(t) \/ FinWalk(t)
  <2>1. cpu'[t].pc \notin Knowing
    BY <1>1, <1>6 DEF YieldMeta, AfterYield, WaitGet, FinRet, FinWalk, Dies, UserFrame, Knowing
  <2> QED
    BY <1>2, <2>1
<1>7. CASE YieldScan(t)
  <2>1. PICK r \in Started \cup {t} :
          cpu' = [cpu EXCEPT ![t] = AfterYield(@)] \/ cpu' = [cpu EXCEPT ![t] = uc[r]]
    BY <1>7 DEF YieldScan
  <2>2. r \in Routine
    BY Domains DEF Routine
  <2>3. cpu'[t].pc \notin Knowing
    BY <1>1, <1>3, <2>1, <2>2 DEF AfterYield, UserFrame, Knowing
  <2> QED
    BY <1>2, <2>3
<1>8. CASE FinExit(t)
  <2>1. cur[t] \in Started /\ cpu[t].pc = "fin_exit" /\ tid[cur[t]] = t
    BY <1>8, Domains DEF FinExit, IInv, FinishInv, Finishing
  <2>2. parent[cur[t]] \in Routine
    BY <2>1, Domains DEF IInv, LinkInv, Linked, Routine, Started, TinfoSection
  <2>3. cpu'[t].pc \notin Knowing
    BY <1>1, <1>3, <1>8, <2>2 DEF FinExit, Knowing
  <2> QED
    BY <1>2, <2>3
<1> QED
  BY <1>4, <1>5, <1>6, <1>7, <1>8

\* The invariant holds from the start, and every step keeps it.
LEMMA AnswerInit == Init => AnswerInv /\ OwnInv
  BY DEF Init, AnswerInv, Asking, OwnInv, UserFrame, Started

LEMMA AnswerNext ==
    ASSUME AsksGivenCids
    PROVE  IInv /\ IInv' /\ LInv /\ TreeInv /\ RetInv /\ OwnInv /\ AnswerInv /\ [Next]_vars => AnswerInv'
<1> SUFFICES ASSUME IInv, IInv', LInv, TreeInv, RetInv, OwnInv, AnswerInv, [Next]_vars, ~crashed'
             PROVE  \A u \in Threads : Asking(u)' /\ (cpu'[u].pc = "answered" => Answered(u)')
  BY DEF AnswerInv
<1>1. ASSUME NEW t \in Threads, Library(t) \/ Client(t), NEW u \in Threads
      PROVE  Asking(u)' /\ (cpu'[u].pc = "answered" => Answered(u)')
  <2>1. ~crashed
    BY <1>1, Alive
  <2>2. CASE u # t
    BY <1>1, <2>1, <2>2, KeptSteps, AnswersKept
  <2>3. CASE u = t
    BY <1>1, <2>3, AsksLegally, AnswersTruly, AnswersNothing DEF Library, Client
  <2> QED
    BY <2>2, <2>3
<1>2. CASE UNCHANGED vars
  BY <1>2 DEF vars, arrays, locks, coro, switch, AnswerInv, Asking, Answered, Ancestor, Started
<1> QED
  BY <1>1, <1>2 DEF Next, Dead

\* What a function answers is still true when its caller reads it, whatever the other
\* threads do meanwhile: co_wait and co_waitall answer for finished coroutines, co_getret
\* gives the value the body returned, co_getid the routine that asks, and co_status, which
\* walks along parent, authorises exactly the ancestors.
THEOREM TrueAnswers ==
    ASSUME Structured, AsksGivenCids PROVE Spec => []AnswersAreTrue
<1> DEFINE J == IInv /\ LInv /\ TreeInv /\ RetInv /\ OwnInv /\ AnswerInv
<1>1. Init => J
  BY InitInv, LifeInit, TreeInit, AnswerInit
<1>2. J /\ [Next]_vars => J'
  BY NextInv, LifeNext, TreeNext, OwnNext, AnswerNext
<1>3. J => AnswersAreTrue
  <2> SUFFICES ASSUME J PROVE AnswersAreTrue
    OBVIOUS
  <2>1. Started \subseteq 0 .. clen
    BY DEF Started, IInv, TypeOK, Cid
  <2> QED
    BY <2>1 DEF AnswersAreTrue, AnswerInv, Answered
<1> QED
  BY <1>1, <1>2, <1>3, PTL DEF Spec

=============================================================================
