-------------------------------- MODULE Chat --------------------------------
(* src/practice-4: one process of the chat.  Its group (group.h), the sessions
   of the peers that connected to it (server.h) and the client that connects it
   to the next process (client.h) are handlers that the threads of one
   io_context run at the same time.  A step of a thread is a critical section,
   or what it does between two of them; a lock that is held over several steps
   is a variable, a session's mutex, held within one step, is not.

   A message is its identity, (addr, id) in the code, and its ttl.  Handlers
   keep a raw this: a step of a handler whose session was destroyed is
   undefined, and the model ends there (crashed).  *)
EXTENDS Integers, Sequences, FiniteSets

CONSTANTS
  Sessions,   \* the connections that may be accepted
  Threads,    \* the threads that run io_ctx
  PeerMsgs,   \* identities of the messages that peers send
  OwnMsgs,    \* identities of the messages typed at this process
  Black,      \* identities whose address is in the black list
  Ttls,       \* ttl of the messages that arrive
  DefaultTtl, \* DEFAULT_TTL
  MaxRecent,  \* MAX_RECENT_MSG_NUM
  MaxCache,   \* MAX_CACHE_SIZE
  HasClient,  \* group.client # nullptr
  MaxReads,   \* bound: messages that arrive
  Failures,   \* may connections fail?
  None

ASSUME ChatAssumption ==
  /\ MaxRecent \in Nat /\ MaxCache \in Nat /\ MaxReads \in Nat
  /\ DefaultTtl \in Nat \ {0} /\ Ttls \subseteq Nat
  /\ HasClient \in BOOLEAN /\ Failures \in BOOLEAN

Ids == PeerMsgs \cup OwnMsgs
Messages == [id : Ids, ttl : Nat]

ASSUME NamesAssumption ==
  /\ IsFiniteSet(Threads) /\ None \notin Threads \cup Sessions \cup {"post", "client"}
  /\ None \notin Messages /\ {"post", "client"} \cap Sessions = {}

VARIABLES
  members, recent, cache, gmutex,               \* Group
  state, pending, wbuff, reading, writing, out, \* Session; out: what its peer got
  accepting,                                    \* Server
  cpending, cwbuff, creading, cwriting, ccache, cmutex, conn, \* Client
  up, shown,         \* what went to the next process, what was displayed
  posts,             \* handlers posted to the io_context
  typed, eof, nreads, \* messages typed, end of input, messages arrived so far
  pc, on, msg, left, dst, back, rest, \* of each thread
  crashed

group    == <<members, recent, cache, gmutex>>
sessions == <<state, pending, wbuff, reading, writing, out, accepting>>
client   == <<cpending, cwbuff, creading, cwriting, ccache, cmutex, conn, up, shown>>
inputs   == <<typed, eof, nreads>>
threads  == <<pc, on, msg, left, dst, back, rest>>
vars     == <<group, sessions, client, posts, inputs, threads, crashed>>

Init ==
  /\ members = {} /\ recent = <<>> /\ cache = <<>> /\ gmutex = None
  /\ state = [s \in Sessions |-> "new"]
  /\ pending = [s \in Sessions |-> <<>>] /\ wbuff = [s \in Sessions |-> None]
  /\ reading = [s \in Sessions |-> FALSE] /\ writing = [s \in Sessions |-> FALSE]
  /\ out = [s \in Sessions |-> <<>>]
  /\ accepting = TRUE
  /\ cpending = <<>> /\ cwbuff = None /\ creading = FALSE /\ cwriting = FALSE
  /\ ccache = <<>> /\ cmutex = None /\ conn = (IF HasClient THEN "connecting" ELSE "closed")
  /\ up = <<>> /\ shown = <<>>
  /\ posts = <<>> /\ typed = {} /\ eof = FALSE /\ nreads = 0
  /\ pc = [t \in Threads |-> "idle"] /\ on = [t \in Threads |-> None]
  /\ msg = [t \in Threads |-> None] /\ left = [t \in Threads |-> {}]
  /\ dst = [t \in Threads |-> None] /\ back = [t \in Threads |-> "idle"]
  /\ rest = [t \in Threads |-> <<>>]
  /\ crashed = FALSE

-----------------------------------------------------------------------------
Goto(t, l) == pc' = [pc EXCEPT ![t] = l]
At(t, l) == ~crashed /\ pc[t] = l
Idle(t) == At(t, "idle")

\* A handler begins: the thread t of the io_context takes it.
Handle(t, l, who, m) ==
  /\ Goto(t, l)
  /\ on' = [on EXCEPT ![t] = who] /\ msg' = [msg EXCEPT ![t] = m]
  /\ UNCHANGED <<left, dst, back, rest>>

\* A handler ends.
End(t) ==
  /\ Goto(t, "idle")
  /\ on' = [on EXCEPT ![t] = None] /\ msg' = [msg EXCEPT ![t] = None]
  /\ UNCHANGED <<left, dst, back, rest>>

Has(list, id) == \E k \in 1..Len(list) : list[k].id = id

\* list.push_back(m), then pop_front while there are more than max.
Keep(list, m, max) ==
  LET l == Append(list, m)
  IN IF Len(l) > max THEN SubSeq(l, Len(l) - max + 1, Len(l)) ELSE l

\* MessageCache::add
Add(list, m) == IF Has(list, m.id) THEN list ELSE Keep(list, m, MaxCache)

Fewer(m) == [m EXCEPT !.ttl = @ - 1]

\* Session::send under the session's mutex; do_write is a step of its own.
SendTo_AsksWriting(t, s, m, l) ==
  /\ pending' = [pending EXCEPT ![s] = Append(@, m)]
  /\ IF ~writing[s]
     THEN /\ wbuff' = [wbuff EXCEPT ![s] = Head(pending'[s])]
          /\ dst' = [dst EXCEPT ![t] = s] /\ back' = [back EXCEPT ![t] = l]
          /\ Goto(t, "write")
     ELSE Goto(t, l) /\ UNCHANGED <<wbuff, dst, back>>

SendTo(t, s, m, l) ==
  /\ pending' = [pending EXCEPT ![s] = Append(@, m)]
  /\ IF pending[s] = <<>>
     THEN /\ wbuff' = [wbuff EXCEPT ![s] = m]
          /\ dst' = [dst EXCEPT ![t] = s] /\ back' = [back EXCEPT ![t] = l]
          /\ Goto(t, "write")
     ELSE Goto(t, l) /\ UNCHANGED <<wbuff, dst, back>>

\* The step uses session s: undefined when it was destroyed.
Using(s, A) ==
  \/ state[s] # "freed" /\ A /\ UNCHANGED crashed
  \/ /\ state[s] = "freed" /\ crashed' = TRUE
     /\ UNCHANGED <<group, sessions, client, posts, inputs, threads>>

-----------------------------------------------------------------------------
(* Group::broadcast(msg[t]) *)

\* After broadcast: the on_post of the client goes on, a reader reads again.
AfterBroadcast(t) == IF on[t] = "post" THEN "push" ELSE "again"

Check_NoCache(t) ==
  /\ At(t, "check") /\ gmutex = None
  /\ IF msg[t].ttl - 1 =< 0 \/ msg[t].id \in Black
     THEN Goto(t, AfterBroadcast(t)) /\ UNCHANGED <<cache, left>>
     ELSE /\ cache' = Add(cache, msg[t])
          /\ left' = [left EXCEPT ![t] = members]
          /\ Goto(t, "fan")
  /\ UNCHANGED <<members, recent, gmutex, sessions, client, posts, inputs,
                 on, msg, dst, back, rest, crashed>>

Check(t) ==
  /\ At(t, "check") /\ gmutex = None
  /\ IF msg[t].ttl - 1 =< 0 \/ Has(cache, msg[t].id) \/ msg[t].id \in Black
     THEN Goto(t, AfterBroadcast(t)) /\ UNCHANGED <<cache, left>>
     ELSE /\ cache' = Add(cache, Fewer(msg[t]))
          /\ left' = [left EXCEPT ![t] = members]
          /\ Goto(t, "fan")
  /\ UNCHANGED <<members, recent, gmutex, sessions, client, posts, inputs,
                 on, msg, dst, back, rest, crashed>>

\* The loop over members runs without the group's mutex, a data race with Join
\* and Leave: it may or may not meet a member that joins or leaves meanwhile.
Loops == {t \in Threads : pc[t] = "fan" \/ (pc[t] = "write" /\ back[t] = "fan")}

Fan(t, s) ==
  /\ At(t, "fan") /\ s \in left[t]
  /\ Using(s, /\ left' = [left EXCEPT ![t] = @ \ {s}]
              /\ SendTo(t, s, Fewer(msg[t]), "fan")
              /\ UNCHANGED <<group, state, reading, writing, out, accepting, client, posts,
                             inputs, on, msg, rest>>)

\* client->send: the message is posted, not sent.
Post(t) ==
  /\ At(t, "fan") /\ left[t] = {}
  /\ posts' = IF HasClient THEN Append(posts, Fewer(msg[t])) ELSE posts
  /\ Goto(t, "recent")
  /\ UNCHANGED <<group, sessions, client, inputs, on, msg, left, dst, back, rest, crashed>>

Recent(t) ==
  /\ At(t, "recent") /\ gmutex = None
  /\ recent' = Keep(recent, Fewer(msg[t]), MaxRecent)
  /\ Goto(t, AfterBroadcast(t))
  /\ UNCHANGED <<members, cache, gmutex, sessions, client, posts, inputs,
                 on, msg, left, dst, back, rest, crashed>>

-----------------------------------------------------------------------------
(* Server and Session *)

OnAccept(t, s) ==
  /\ Idle(t) /\ accepting /\ state[s] = "new"
  /\ accepting' = FALSE
  /\ state' = [state EXCEPT ![s] = "open"]
  /\ Handle(t, "join", s, None)
  /\ UNCHANGED <<group, pending, wbuff, reading, writing, out, client, posts, inputs, crashed>>

\* Group::join keeps the mutex while it sends the recent messages.
Join(t) ==
  /\ At(t, "join") /\ gmutex = None
  /\ gmutex' = t
  /\ members' = members \cup {on[t]}
  /\ rest' = [rest EXCEPT ![t] = recent]
  /\ \E loops \in SUBSET Loops :
       left' = [u \in Threads |-> IF u \in loops THEN left[u] \cup {on[t]} ELSE left[u]]
  /\ Goto(t, "replay")
  /\ UNCHANGED <<recent, cache, sessions, client, posts, inputs, on, msg, dst, back, crashed>>

Replay(t) ==
  /\ At(t, "replay") /\ rest[t] # <<>>
  /\ rest' = [rest EXCEPT ![t] = Tail(@)]
  /\ SendTo(t, on[t], Head(rest[t]), "replay")
  /\ UNCHANGED <<group, state, reading, writing, out, accepting, client, posts, inputs,
                 on, msg, left, crashed>>

JoinEnd_KeepsMutex(t) ==
  /\ At(t, "replay") /\ rest[t] = <<>>
  /\ Goto(t, "run")
  /\ UNCHANGED <<group, sessions, client, posts, inputs,
                 on, msg, left, dst, back, rest, crashed>>

JoinEnd(t) ==
  /\ At(t, "replay") /\ rest[t] = <<>>
  /\ gmutex' = None
  /\ Goto(t, "run")
  /\ UNCHANGED <<members, recent, cache, sessions, client, posts, inputs,
                 on, msg, left, dst, back, rest, crashed>>

\* do_read; on_accept drops its reference to the session and accepts again.
Run(t) ==
  /\ At(t, "run")
  /\ reading' = [reading EXCEPT ![on[t]] = TRUE]
  /\ state' = [state EXCEPT ![on[t]] = IF on[t] \in members THEN "open" ELSE "freed"]
  /\ accepting' = TRUE
  /\ End(t)
  /\ UNCHANGED <<group, pending, wbuff, writing, out, client, posts, inputs, crashed>>

OnRead(t, s, m) ==
  /\ Idle(t) /\ reading[s] /\ state[s] # "freed" /\ nreads < MaxReads
  /\ nreads' = nreads + 1
  /\ reading' = [reading EXCEPT ![s] = FALSE]
  /\ Handle(t, "check", s, m)
  /\ UNCHANGED <<group, state, pending, wbuff, writing, out, accepting, client, posts,
                 typed, eof, crashed>>

\* do_read of the session after its broadcast.
Again(t) ==
  /\ At(t, "again") /\ on[t] \in Sessions
  /\ Using(on[t], /\ reading' = [reading EXCEPT ![on[t]] = TRUE]
                  /\ End(t)
                  /\ UNCHANGED <<group, state, pending, wbuff, writing, out, accepting,
                                 client, posts, inputs>>)

DoWrite(t) ==
  /\ At(t, "write")
  /\ Using(dst[t], /\ writing' = [writing EXCEPT ![dst[t]] = TRUE]
                   /\ Goto(t, back[t])
                   /\ dst' = [dst EXCEPT ![t] = None] /\ back' = [back EXCEPT ![t] = "idle"]
                   /\ UNCHANGED <<on, msg, left, rest>>
                   /\ UNCHANGED <<group, state, pending, wbuff, reading, out, accepting,
                                  client, posts, inputs>>)

OnWrite(t, s) ==
  /\ Idle(t) /\ writing[s] /\ state[s] # "freed"
  /\ writing' = [writing EXCEPT ![s] = FALSE]
  /\ out' = [out EXCEPT ![s] = Append(@, wbuff[s])]
  /\ Handle(t, "written", s, None)
  /\ UNCHANGED <<group, state, pending, wbuff, reading, accepting, client, posts, inputs,
                 crashed>>

Written_Stops(t) ==
  /\ At(t, "written")
  /\ Using(on[t], /\ pending' = [pending EXCEPT ![on[t]] = Tail(@)]
                  /\ End(t)
                  /\ UNCHANGED <<group, state, wbuff, reading, writing, out, accepting,
                                 client, posts, inputs>>)

Written(t) ==
  /\ At(t, "written")
  /\ Using(on[t], /\ pending' = [pending EXCEPT ![on[t]] = Tail(@)]
                  /\ IF Len(pending[on[t]]) > 1
                     THEN /\ wbuff' = [wbuff EXCEPT ![on[t]] = pending[on[t]][2]]
                          /\ dst' = [dst EXCEPT ![t] = on[t]]
                          /\ back' = [back EXCEPT ![t] = "idle"]
                          /\ on' = [on EXCEPT ![t] = None]
                          /\ Goto(t, "write") /\ UNCHANGED <<msg, left, rest>>
                     ELSE End(t) /\ UNCHANGED wbuff
                  /\ UNCHANGED <<group, state, reading, writing, out, accepting,
                                 client, posts, inputs>>)

OnReadError(t, s) ==
  /\ Failures /\ Idle(t) /\ reading[s] /\ state[s] # "freed"
  /\ reading' = [reading EXCEPT ![s] = FALSE]
  /\ Handle(t, "leave", s, None)
  /\ UNCHANGED <<group, state, pending, wbuff, writing, out, accepting, client, posts,
                 inputs, crashed>>

OnWriteError(t, s) ==
  /\ Failures /\ Idle(t) /\ writing[s] /\ state[s] # "freed"
  /\ writing' = [writing EXCEPT ![s] = FALSE]
  /\ Handle(t, "leave", s, None)
  /\ UNCHANGED <<group, state, pending, wbuff, reading, out, accepting, client, posts,
                 inputs, crashed>>

\* Group::leave: the last reference goes, unless on_accept still has one.
Leave(t) ==
  /\ At(t, "leave") /\ gmutex = None
  /\ Using(on[t],
       /\ members' = members \ {on[t]}
       /\ \E loops \in SUBSET Loops :
            left' = [u \in Threads |-> IF u \in loops THEN left[u] \ {on[t]} ELSE left[u]]
       /\ state' = [state EXCEPT ![on[t]] =
                      IF \E u \in Threads : pc[u] = "run" /\ on[u] = on[t] THEN @ ELSE "freed"]
       /\ Goto(t, "idle")
       /\ on' = [on EXCEPT ![t] = None]
       /\ UNCHANGED <<recent, cache, gmutex, pending, wbuff, reading, writing, out, accepting,
                      client, posts, inputs, msg, dst, back, rest>>)

\* The destroyed socket cancels what is outstanding: its handler runs with a
\* this that is gone.
OnAborted(t, s) ==
  /\ Idle(t) /\ state[s] = "freed" /\ (reading[s] \/ writing[s])
  /\ crashed' = TRUE
  /\ UNCHANGED <<group, sessions, client, posts, inputs, threads>>

-----------------------------------------------------------------------------
(* Client *)

\* A connection that fails is not read; a write to it fails.
OnConnect(t) ==
  /\ Idle(t) /\ conn = "connecting"
  /\ \/ conn' = "open" /\ creading' = TRUE
     \/ conn' = "closed" /\ UNCHANGED creading
  /\ UNCHANGED <<group, sessions, cpending, cwbuff, cwriting, ccache, cmutex, up, shown,
                 posts, inputs, threads, crashed>>

\* A line typed: main calls client.send.
Type(m) ==
  /\ HasClient /\ ~eof /\ ~crashed /\ m \in OwnMsgs \ typed
  /\ typed' = typed \cup {m}
  /\ posts' = Append(posts, [id |-> m, ttl |-> DefaultTtl])
  /\ UNCHANGED <<group, sessions, client, eof, nreads, threads, crashed>>

\* The input ends: main calls client.close, which posts do_close.
Close ==
  /\ HasClient /\ ~eof /\ ~crashed
  /\ eof' = TRUE
  /\ posts' = Append(posts, None)
  /\ UNCHANGED <<group, sessions, client, typed, nreads, threads, crashed>>

OnClose(t) ==
  /\ Idle(t) /\ posts # <<>> /\ Head(posts) = None
  /\ posts' = Tail(posts)
  /\ conn' = "closed"
  /\ UNCHANGED <<group, sessions, cpending, cwbuff, creading, cwriting, ccache, cmutex, up,
                 shown, inputs, threads, crashed>>

OnPost(t) ==
  /\ Idle(t) /\ posts # <<>> /\ Head(posts) # None
  /\ posts' = Tail(posts)
  /\ Handle(t, "lock", "post", Head(posts))
  /\ UNCHANGED <<group, sessions, client, inputs, crashed>>

\* on_post holds the client's mutex over the whole of broadcast.
Lock(t) ==
  /\ At(t, "lock") /\ cmutex = None
  /\ cmutex' = t
  /\ Goto(t, "check")
  /\ UNCHANGED <<group, sessions, cpending, cwbuff, creading, cwriting, ccache, conn, up,
                 shown, posts, inputs, on, msg, left, dst, back, rest, crashed>>

Push_AsksWriting(t) ==
  /\ At(t, "push")
  /\ cpending' = Append(cpending, msg[t])
  /\ cmutex' = None
  /\ IF ~cwriting
     THEN cwbuff' = msg[t] /\ Handle(t, "cwrite", None, None)
     ELSE End(t) /\ UNCHANGED cwbuff
  /\ UNCHANGED <<group, sessions, creading, cwriting, ccache, conn, up, shown, posts,
                 inputs, crashed>>

Push(t) ==
  /\ At(t, "push")
  /\ cpending' = Append(cpending, msg[t])
  /\ cmutex' = None
  /\ IF cpending = <<>>
     THEN cwbuff' = msg[t] /\ Handle(t, "cwrite", None, None)
     ELSE End(t) /\ UNCHANGED cwbuff
  /\ UNCHANGED <<group, sessions, creading, cwriting, ccache, conn, up, shown, posts,
                 inputs, crashed>>

CDoWrite(t) ==
  /\ At(t, "cwrite")
  /\ cwriting' = TRUE
  /\ End(t)
  /\ UNCHANGED <<group, sessions, cpending, cwbuff, creading, ccache, cmutex, conn, up, shown,
                 posts, inputs, crashed>>

OnCWrite(t) ==
  /\ Idle(t) /\ cwriting /\ conn = "open"
  /\ cwriting' = FALSE
  /\ up' = Append(up, cwbuff)
  /\ Handle(t, "cwritten", "client", None)
  /\ UNCHANGED <<group, sessions, cpending, cwbuff, creading, ccache, cmutex, conn, shown,
                 posts, inputs, crashed>>

CWritten(t) ==
  /\ At(t, "cwritten") /\ cmutex = None
  /\ cpending' = Tail(cpending)
  /\ IF Len(cpending) > 1
     THEN /\ cwbuff' = cpending[2]
          /\ Handle(t, "cwrite", None, None)
     ELSE End(t) /\ UNCHANGED cwbuff
  /\ UNCHANGED <<group, sessions, creading, cwriting, ccache, cmutex, conn, up, shown,
                 posts, inputs, crashed>>

OnCRead(t, m) ==
  /\ Idle(t) /\ creading /\ conn = "open" /\ nreads < MaxReads
  /\ nreads' = nreads + 1
  /\ creading' = FALSE
  /\ Handle(t, "cread", "client", m)
  /\ UNCHANGED <<group, sessions, cpending, cwbuff, cwriting, ccache, cmutex, conn, up, shown,
                 posts, typed, eof, crashed>>

CRead(t) ==
  /\ At(t, "cread") /\ cmutex = None
  /\ LET m == msg[t] IN
     IF m.ttl > 0 /\ ~Has(ccache, m.id)
     THEN /\ ccache' = Add(ccache, m) /\ shown' = Append(shown, m)
          /\ Goto(t, IF m.ttl - 1 > 0 THEN "check" ELSE "again")
          /\ msg' = [msg EXCEPT ![t] = Fewer(m)]
     ELSE Goto(t, "again") /\ UNCHANGED <<ccache, shown, msg>>
  /\ UNCHANGED <<group, sessions, cpending, cwbuff, creading, cwriting, cmutex, conn, up,
                 posts, inputs, on, left, dst, back, rest, crashed>>

CAgain(t) ==
  /\ At(t, "again") /\ on[t] = "client"
  /\ creading' = TRUE
  /\ End(t)
  /\ UNCHANGED <<group, sessions, cpending, cwbuff, cwriting, ccache, cmutex, conn, up, shown,
                 posts, inputs, crashed>>

\* on_read with an error: do_close, after which a write only fails.
OnCReadError(t) ==
  /\ Idle(t) /\ creading /\ (Failures \/ conn = "closed")
  /\ creading' = FALSE /\ conn' = "closed"
  /\ UNCHANGED <<group, sessions, cpending, cwbuff, cwriting, ccache, cmutex, up, shown, posts,
                 inputs, threads, crashed>>

OnCWriteError(t) ==
  /\ Idle(t) /\ cwriting /\ (Failures \/ conn = "closed")
  /\ cwriting' = FALSE /\ conn' = "closed"
  /\ UNCHANGED <<group, sessions, cpending, cwbuff, creading, ccache, cmutex, up, shown, posts,
                 inputs, threads, crashed>>

-----------------------------------------------------------------------------

\* What a thread does once it has taken a handler.
Step(t) ==
  \/ Check(t) \/ (\E s \in Sessions : Fan(t, s)) \/ Post(t) \/ Recent(t)
  \/ Join(t) \/ Replay(t) \/ JoinEnd(t) \/ Run(t)
  \/ Again(t) \/ DoWrite(t) \/ Written(t) \/ Leave(t)
  \/ Lock(t) \/ Push(t) \/ CDoWrite(t) \/ CWritten(t) \/ CRead(t) \/ CAgain(t)

Arriving == [id : PeerMsgs, ttl : Ttls]

\* A write that was begun ends, well or not.
WriteEnds(s) == \E t \in Threads : OnWrite(t, s) \/ OnWriteError(t, s) \/ OnAborted(t, s)
CWriteEnds   == \E t \in Threads : OnCWrite(t) \/ OnCWriteError(t)

Takes(t) ==
  \/ \E s \in Sessions : OnAccept(t, s) \/ OnReadError(t, s)
  \/ \E s \in Sessions, m \in Arriving : OnRead(t, s, m)
  \/ \E m \in Arriving : OnCRead(t, m)
  \/ OnPost(t) \/ OnClose(t) \/ OnConnect(t) \/ OnCReadError(t)

Next ==
  \/ \E t \in Threads : Step(t) \/ Takes(t)
  \/ \E s \in Sessions : WriteEnds(s)
  \/ CWriteEnds
  \/ Close \/ \E m \in OwnMsgs : Type(m)

Spec == Init /\ [][Next]_vars

\* The threads run, the io_context hands out what was posted, and what is
\* written to a connection arrives or the connection fails.
Fairness ==
  /\ \A t \in Threads : WF_vars(Step(t))
  /\ \A s \in Sessions : WF_vars(WriteEnds(s))
  /\ WF_vars(CWriteEnds)
  /\ WF_vars(\E t \in Threads : OnPost(t) \/ OnClose(t))
  /\ WF_vars(\E t \in Threads : OnConnect(t))

FairSpec == Spec /\ Fairness
=============================================================================
