----------------------------- MODULE ChatProofs -----------------------------
(* What a process of the chat keeps true, for any number of threads, sessions *)
(* and messages.                                                              *)
EXTENDS ChatProperties, SequenceTheorems, FiniteSetTheorems, TLAPS

-----------------------------------------------------------------------------
(* The invariants.  Types and control: what a thread at each point has in its *)
(* hands.                                                                     *)

\* The thread sends its message to the members; it brings a session in.
Fans(t)    == pc[t] = "fan" \/ (pc[t] = "write" /\ back[t] = "fan")
Accepts(t) == pc[t] \in {"join", "replay", "run"} \/ (pc[t] = "write" /\ back[t] = "replay")

Places == {"idle", "check", "fan", "recent", "again", "join", "replay", "run", "write",
           "written", "leave", "lock", "push", "cwrite", "cwritten", "cread"}

GroupTypes ==
  /\ members \subseteq Sessions
  /\ recent \in Seq(Live) /\ Len(recent) =< MaxRecent
  /\ cache \in Seq(Live) /\ Len(cache) =< MaxCache
  /\ gmutex \in Threads \cup {None}
SessionTypes ==
  /\ state \in [Sessions -> {"new", "open", "freed"}]
  /\ pending \in [Sessions -> Seq(Live)] /\ wbuff \in [Sessions -> Live \cup {None}]
  /\ out \in [Sessions -> Seq(Live)]
  /\ reading \in [Sessions -> BOOLEAN] /\ writing \in [Sessions -> BOOLEAN] /\ accepting \in BOOLEAN
ClientTypes ==
  /\ cpending \in Seq(Live) /\ cwbuff \in Live \cup {None}
  /\ up \in Seq(Live) /\ shown \in Seq(Live) /\ ccache \in Seq(Live)
  /\ creading \in BOOLEAN /\ cwriting \in BOOLEAN
  /\ cmutex \in Threads \cup {None} /\ conn \in {"connecting", "open", "closed"}
InputTypes ==
  /\ posts \in Seq(Live \cup {None}) /\ typed \subseteq OwnMsgs
  /\ nreads \in 0..MaxReads /\ eof \in BOOLEAN /\ crashed \in BOOLEAN
ThreadTypes ==
  /\ pc \in [Threads -> Places]
  /\ on \in [Threads -> Sessions \cup {None, "post", "client"}]
  /\ msg \in [Threads -> Messages \cup {None}]
  /\ left \in [Threads -> SUBSET Sessions] /\ dst \in [Threads -> Sessions \cup {None}]
  /\ back \in [Threads -> {"idle", "fan", "replay"}]
  /\ rest \in [Threads -> Seq(Live)]
Control(t) ==
  /\ pc[t] \in {"join", "replay", "run", "written", "leave"} => on[t] \in Sessions
  /\ pc[t] = "write" => dst[t] \in Sessions
  /\ pc[t] = "write" /\ back[t] = "replay" => on[t] \in Sessions
  /\ pc[t] = "again" => on[t] \in Sessions \cup {"client"}
  /\ pc[t] \in {"check", "recent"} \/ Fans(t) =>
       on[t] \in Sessions \cup {"client", "post"} /\ msg[t] \in Messages
  /\ pc[t] = "recent" \/ Fans(t) => msg[t].ttl > 1
  /\ pc[t] \in {"lock", "push"} => on[t] = "post"
  /\ pc[t] # "idle" /\ on[t] = "post" => msg[t] \in Live
  /\ pc[t] = "cread" => on[t] = "client" /\ msg[t] \in Messages

Types == /\ GroupTypes /\ SessionTypes /\ ClientTypes /\ InputTypes /\ ThreadTypes
         /\ \A t \in Threads : Control(t)

-----------------------------------------------------------------------------
(* The write of a connection *)

\* A thread is at the beginning or the end of a write of the session; the session ends.
Writes(t, s) == (pc[t] = "write" /\ dst[t] = s) \/ (pc[t] = "written" /\ on[t] = s)
CWrites(t)   == pc[t] \in {"cwrite", "cwritten"}
Leaves(t, s) == pc[t] = "leave" /\ on[t] = s
Busy(s) == writing[s] \/ \E t \in Threads : Writes(t, s)

\* The session has one write at a time, of what is first in pending, as long as
\* something is pending and the session does not end.
OneWrite(s) ==
  /\ \A t \in Threads : Writes(t, s) => ~writing[s] /\ \A u \in Threads : Writes(u, s) => u = t
  /\ Busy(s) => pending[s] # <<>> /\ wbuff[s] = Head(pending[s])
  /\ pending[s] # <<>> => Busy(s) \/ s \notin members \/ \E t \in Threads : Leaves(t, s)

\* The session has not joined the group: nobody knows it but the thread that brings it in.
Outside(s) == state[s] = "new" \/ \E t \in Threads : pc[t] = "join" /\ on[t] = s
Unknown(s) ==
  /\ pending[s] = <<>> /\ out[s] = <<>> /\ ~writing[s] /\ ~reading[s] /\ s \notin members
  /\ \A t \in Threads : /\ s \notin left[t] /\ ~Writes(t, s)
                        /\ on[t] = s => pc[t] = "join" /\ state[s] = "open"

Sends == \A s \in Sessions : OneWrite(s) /\ (Outside(s) => Unknown(s))

\* The client the same.
CBusy == cwriting \/ \E t \in Threads : CWrites(t)
OneCWrite ==
  /\ \A t \in Threads : CWrites(t) => ~cwriting /\ \A u \in Threads : CWrites(u) => u = t
  /\ CBusy => cpending # <<>> /\ cwbuff = Head(cpending)
  /\ cpending # <<>> => CBusy \/ conn = "closed"

\* One session at a time is brought in.
OneAccept == \A t, u \in Threads : Accepts(t) => ~accepting /\ (Accepts(u) => t = u)

-----------------------------------------------------------------------------
(* Messages and lists *)

\* A copy with a ttl that is one less, still with a ttl when there was more than one.
LEMMA FewerIs ==
    ASSUME NEW m \in Messages, m.ttl > 0
    PROVE  /\ Fewer(m) \in Messages /\ Fewer(m).id = m.id /\ Fewer(m).ttl = m.ttl - 1
           /\ m.ttl > 1 => Fewer(m) \in Live
  BY DEF Fewer, Messages, Live

\* push_back, and pop_front while there are too many.
LEMMA KeepIs ==
    ASSUME NEW list \in Seq(Live), NEW m \in Live, NEW max \in Nat
    PROVE  Keep(list, m, max) \in Seq(Live) /\ Len(Keep(list, m, max)) =< max
<1> DEFINE l == Append(list, m)
<1>1. l \in Seq(Live) /\ Len(l) \in Nat
  OBVIOUS
<1> HIDE DEF l
<1>2. CASE Len(l) > max
  BY <1>1, <1>2 DEF Keep, l
<1>3. CASE ~(Len(l) > max)
  BY <1>1, <1>3 DEF Keep, l
<1> QED
  BY <1>2, <1>3

\* MessageCache::add, of a cache within its bound or not.
LEMMA AddIs ==
    ASSUME NEW list \in Seq(Live), NEW m \in Live
    PROVE  /\ Add(list, m) \in Seq(Live)
           /\ Len(list) =< MaxCache => Len(Add(list, m)) =< MaxCache
  BY KeepIs, ChatAssumption DEF Add

\* What Session::send (server.h:31-44) leaves: typed lists, and the thread at l or at a do_write.
LEMMA SendToIs ==
    ASSUME Types, NEW t \in Threads, NEW s \in Sessions, NEW m \in Live,
           NEW l \in {"fan", "replay"}, SendTo(t, s, m, l)
    PROVE  /\ pending' \in [Sessions -> Seq(Live)] /\ wbuff' \in [Sessions -> Live \cup {None}]
           /\ pc' \in [Threads -> Places] /\ dst' \in [Threads -> Sessions \cup {None}]
           /\ back' \in [Threads -> {"idle", "fan", "replay"}]
           /\ \A u \in Threads \ {t} : pc'[u] = pc[u] /\ dst'[u] = dst[u] /\ back'[u] = back[u]
           /\ pc'[t] = l \/ (pc'[t] = "write" /\ back'[t] = l /\ dst'[t] = s)
<1>1. pending' \in [Sessions -> Seq(Live)]
  BY DEF SendTo, Types, SessionTypes
<1>2. wbuff' \in [Sessions -> Live \cup {None}]
  BY DEF SendTo, Types, SessionTypes
<1>3. pc' \in [Threads -> Places]
  BY DEF SendTo, Goto, Types, ThreadTypes, Places
<1>4. dst' \in [Threads -> Sessions \cup {None}] /\ back' \in [Threads -> {"idle", "fan", "replay"}]
  BY DEF SendTo, Types, ThreadTypes
<1>5. \A u \in Threads \ {t} : pc'[u] = pc[u] /\ dst'[u] = dst[u] /\ back'[u] = back[u]
  BY DEF SendTo, Goto, Types, ThreadTypes
<1>6. pc'[t] = l \/ (pc'[t] = "write" /\ back'[t] = l /\ dst'[t] = s)
  BY DEF SendTo, Goto, Types, ThreadTypes
<1> QED
  BY <1>1, <1>2, <1>3, <1>4, <1>5, <1>6

\* The actions that change what the group holds (group.h).
LEMMA GroupChanges ==
    ASSUME [Next]_vars
    PROVE  UNCHANGED group \/ \E t \in Threads : Check(t) \/ Recent(t) \/ Join(t) \/ JoinEnd(t) \/ Leave(t)
<1>1. ASSUME NEW t \in Threads, Step(t)
      PROVE  UNCHANGED group \/ Check(t) \/ Recent(t) \/ Join(t) \/ JoinEnd(t) \/ Leave(t)
  BY <1>1 DEF Step, Fan, Post, Replay, Run, Again, DoWrite, Written, Lock, Push, CDoWrite, CWritten, CRead, CAgain, Using
<1>2. ASSUME NEW t \in Threads, Takes(t) PROVE UNCHANGED group
  BY <1>2 DEF Takes, OnAccept, OnReadError, OnRead, OnCRead, OnPost, OnClose, OnConnect, OnCReadError
<1>3. ASSUME NEW s \in Sessions, WriteEnds(s) PROVE UNCHANGED group
  BY <1>3 DEF WriteEnds, OnWrite, OnWriteError, OnAborted
<1>4. ASSUME CWriteEnds PROVE UNCHANGED group
  BY <1>4 DEF CWriteEnds, OnCWrite, OnCWriteError
<1>5. ASSUME Close \/ (\E m \in OwnMsgs : Type(m)) PROVE UNCHANGED group
  BY <1>5 DEF Close, Type
<1> QED
  BY <1>1, <1>2, <1>3, <1>4, <1>5 DEF Next, vars

\* The lists of the group.
LEMMA GroupTyped ==
    ASSUME Types, [Next]_vars PROVE GroupTypes'
<1>1. CASE UNCHANGED group
  BY <1>1 DEF group, Types, GroupTypes
<1>2. ASSUME NEW t \in Threads, Check(t) PROVE GroupTypes'
  <2>1. CASE cache' = cache
    BY <1>2, <2>1 DEF Check, Types, GroupTypes
  <2>2. CASE cache' # cache
    <3>1. msg[t] \in Messages /\ msg[t].ttl > 1 /\ cache' = Add(cache, Fewer(msg[t]))
      BY <1>2, <2>2 DEF Check, At, Types, Control, Messages
    <3>2. Fewer(msg[t]) \in Live
      BY <3>1, FewerIs DEF Messages
    <3>3. cache' \in Seq(Live) /\ Len(cache') =< MaxCache
      BY <3>1, <3>2, AddIs DEF Types, GroupTypes
    <3> QED
      BY <1>2, <3>3 DEF Check, Types, GroupTypes
  <2> QED
    BY <2>1, <2>2
<1>3. ASSUME NEW t \in Threads, Recent(t) PROVE GroupTypes'
  <2>1. Fewer(msg[t]) \in Live
    BY <1>3, FewerIs DEF Recent, At, Types, Control, Messages
  <2>2. recent' \in Seq(Live) /\ Len(recent') =< MaxRecent
    BY <1>3, <2>1, KeepIs, ChatAssumption DEF Recent, Types, GroupTypes
  <2> QED
    BY <1>3, <2>2 DEF Recent, Types, GroupTypes
<1>4. ASSUME NEW t \in Threads, Join(t) \/ JoinEnd(t) PROVE GroupTypes'
  <2>1. CASE Join(t)
    <3>1. on[t] \in Sessions
      BY <2>1 DEF Join, At, Types, Control
    <3> QED
      BY <2>1, <3>1 DEF Join, Types, GroupTypes
  <2>2. CASE JoinEnd(t)
    BY <2>2 DEF JoinEnd, Types, GroupTypes
  <2> QED
    BY <1>4, <2>1, <2>2
<1>5. ASSUME NEW t \in Threads, Leave(t) PROVE GroupTypes'
  BY <1>5 DEF Leave, Using, group, Types, GroupTypes
<1> QED
  BY <1>1, <1>2, <1>3, <1>4, <1>5, GroupChanges

\* The actions that change a session or the acceptor (server.h).
LEMMA SessionChanges ==
    ASSUME [Next]_vars
    PROVE  \/ UNCHANGED sessions
           \/ \E t \in Threads : \/ Replay(t) \/ Run(t) \/ Again(t) \/ DoWrite(t) \/ Written(t) \/ Leave(t)
                                 \/ \E s \in Sessions : \/ Fan(t, s) \/ OnAccept(t, s)
                                                        \/ OnReadError(t, s)
                                                        \/ OnWrite(t, s) \/ OnWriteError(t, s)
                                                        \/ \E m \in Arriving : OnRead(t, s, m)
<1>1. ASSUME NEW t \in Threads, Step(t)
      PROVE  \/ UNCHANGED sessions \/ Replay(t) \/ Run(t) \/ Again(t) \/ DoWrite(t) \/ Written(t)
             \/ Leave(t) \/ \E s \in Sessions : Fan(t, s)
  BY <1>1 DEF Step, Check, Post, Recent, Join, JoinEnd, Lock, Push, CDoWrite, CWritten, CRead, CAgain
<1>2. ASSUME NEW t \in Threads, Takes(t)
      PROVE  \/ UNCHANGED sessions
             \/ \E s \in Sessions : \/ OnAccept(t, s) \/ OnReadError(t, s)
                                    \/ \E m \in Arriving : OnRead(t, s, m)
  BY <1>2 DEF Takes, OnCRead, OnPost, OnClose, OnConnect, OnCReadError
<1>3. ASSUME NEW s \in Sessions, WriteEnds(s)
      PROVE  UNCHANGED sessions \/ \E t \in Threads : OnWrite(t, s) \/ OnWriteError(t, s)
  BY <1>3 DEF WriteEnds, OnAborted
<1>4. ASSUME CWriteEnds PROVE UNCHANGED sessions
  BY <1>4 DEF CWriteEnds, OnCWrite, OnCWriteError
<1>5. ASSUME Close \/ (\E m \in OwnMsgs : Type(m)) PROVE UNCHANGED sessions
  BY <1>5 DEF Close, Type
<1>6. CASE UNCHANGED vars
  BY <1>6 DEF vars
<1>7. CASE \E t \in Threads : Step(t)
  BY <1>1, <1>7
<1>8. CASE \E t \in Threads : Takes(t)
  BY <1>2, <1>8
<1>9. CASE \E s \in Sessions : WriteEnds(s)
  BY <1>3, <1>9
<1> QED
  BY <1>4, <1>5, <1>6, <1>7, <1>8, <1>9 DEF Next

\* A write takes what is first in a pending that is not empty, so out and pending hold messages.
LEMMA SessionTyped ==
    ASSUME Types, Sends, [Next]_vars PROVE SessionTypes'
<1>1. CASE UNCHANGED sessions
  BY <1>1 DEF sessions, Types, SessionTypes
<1>2. ASSUME NEW t \in Threads, NEW s \in Sessions, Fan(t, s) PROVE SessionTypes'
  <2>1. CASE UNCHANGED sessions
    BY <2>1 DEF sessions, Types, SessionTypes
  <2>2. CASE SendTo(t, s, Fewer(msg[t]), "fan") /\ UNCHANGED <<state, reading, writing, out, accepting>>
    <3>1. Fewer(msg[t]) \in Live
      BY <1>2, FewerIs DEF Fan, At, Types, Control, Fans, Messages
    <3> QED
      BY <2>2, <3>1, SendToIs DEF Types, SessionTypes
  <2> QED
    BY <1>2, <2>1, <2>2 DEF Fan, Using
<1>3. ASSUME NEW t \in Threads, Replay(t) PROVE SessionTypes'
  <2>1. on[t] \in Sessions /\ Head(rest[t]) \in Live
    BY <1>3 DEF Replay, At, Types, Control, ThreadTypes
  <2> QED
    BY <1>3, <2>1, SendToIs DEF Replay, Types, SessionTypes
<1>4. ASSUME NEW t \in Threads, Run(t) \/ Again(t) \/ DoWrite(t) PROVE SessionTypes'
  <2>1. CASE Run(t)
    BY <2>1 DEF Run, At, Types, SessionTypes, Control
  <2>2. CASE Again(t)
    <3>1. CASE state[on[t]] # "freed"
      BY <2>2, <3>1 DEF Again, Using, At, Control, Types, SessionTypes
    <3>2. CASE state[on[t]] = "freed"
      BY <1>1, <2>2, <3>2 DEF Again, Using
    <3> QED
      BY <3>1, <3>2
  <2>3. CASE DoWrite(t)
    <3>1. CASE state[dst[t]] # "freed"
      BY <2>3, <3>1 DEF DoWrite, Using, At, Control, Types, SessionTypes
    <3>2. CASE state[dst[t]] = "freed"
      BY <1>1, <2>3, <3>2 DEF DoWrite, Using
    <3> QED
      BY <3>1, <3>2
  <2> QED
    BY <1>4, <2>1, <2>2, <2>3
<1>5. ASSUME NEW t \in Threads, Leave(t) PROVE SessionTypes'
  BY <1>5 DEF Leave, Using, sessions, At, Types, SessionTypes, Control
<1>6. ASSUME NEW t \in Threads, Written(t), ~UNCHANGED sessions PROVE SessionTypes'
  <2>1. /\ on[t] \in Sessions /\ pending' = [pending EXCEPT ![on[t]] = Tail(@)]
        /\ wbuff' = wbuff \/ (/\ Len(pending[on[t]]) > 1
                              /\ wbuff' = [wbuff EXCEPT ![on[t]] = pending[on[t]][2]])
        /\ UNCHANGED <<state, reading, writing, out, accepting>>
    BY <1>6 DEF Written, Using, At, Types, Control
  <2>2. pending[on[t]] \in Seq(Live) /\ pending[on[t]] # <<>>
    BY <1>6, <2>1 DEF Types, SessionTypes, Sends, OneWrite, Busy, Writes, Written, At
  <2>3. Tail(pending[on[t]]) \in Seq(Live)
    BY <2>2
  <2>4. pending' \in [Sessions -> Seq(Live)]
    BY <2>1, <2>3 DEF Types, SessionTypes
  <2>5. Len(pending[on[t]]) > 1 => pending[on[t]][2] \in Live
    BY <2>2
  <2>6. wbuff' \in [Sessions -> Live \cup {None}]
    BY <2>1, <2>5 DEF Types, SessionTypes
  <2> QED
    BY <2>1, <2>4, <2>6 DEF Types, SessionTypes
<1>7. ASSUME NEW t \in Threads, NEW s \in Sessions,
             OnAccept(t, s) \/ OnReadError(t, s) \/ OnWriteError(t, s)
             \/ \E m \in Arriving : OnRead(t, s, m)
      PROVE  SessionTypes'
  BY <1>7 DEF OnAccept, OnReadError, OnWriteError, OnRead, Types, SessionTypes
<1>8. ASSUME NEW t \in Threads, NEW s \in Sessions, OnWrite(t, s) PROVE SessionTypes'
  <2>1. pending[s] \in Seq(Live) /\ pending[s] # <<>> /\ wbuff[s] = Head(pending[s])
    BY <1>8 DEF OnWrite, Idle, At, Types, SessionTypes, Sends, OneWrite, Busy
  <2>3. wbuff[s] \in Live
    BY <2>1
  <2>2. out' \in [Sessions -> Seq(Live)]
    BY <1>8, <2>3 DEF OnWrite, Types, SessionTypes
  <2> QED
    BY <1>8, <2>2 DEF OnWrite, Types, SessionTypes
<1> QED
  BY <1>1, <1>2, <1>3, <1>4, <1>5, <1>6, <1>7, <1>8, SessionChanges

\* What a client does.
ClientStep(t) ==
  \/ OnConnect(t) \/ OnClose(t) \/ Lock(t) \/ Push(t) \/ CDoWrite(t) \/ OnCWrite(t) \/ CWritten(t)
  \/ CRead(t) \/ CAgain(t) \/ OnCReadError(t) \/ OnCWriteError(t) \/ \E m \in Arriving : OnCRead(t, m)

\* The actions that change the client (client.h).
LEMMA ClientChanges ==
    ASSUME [Next]_vars
    PROVE  UNCHANGED client \/ \E t \in Threads : ClientStep(t)
<1>1. ASSUME NEW t \in Threads, Step(t) PROVE UNCHANGED client \/ ClientStep(t)
  BY <1>1 DEF Step, ClientStep, Check, Fan, Using, Post, Recent, Join, Replay, JoinEnd, Run, Again, DoWrite, Written, Leave
<1>2. ASSUME NEW t \in Threads, Takes(t) PROVE UNCHANGED client \/ ClientStep(t)
  BY <1>2 DEF Takes, ClientStep, OnAccept, OnReadError, OnRead, OnPost
<1>3. ASSUME NEW s \in Sessions, WriteEnds(s) PROVE UNCHANGED client
  BY <1>3 DEF WriteEnds, OnWrite, OnWriteError, OnAborted
<1>4. ASSUME CWriteEnds PROVE \E t \in Threads : ClientStep(t)
  BY <1>4 DEF CWriteEnds, ClientStep
<1>5. ASSUME Close \/ (\E m \in OwnMsgs : Type(m)) PROVE UNCHANGED client
  BY <1>5 DEF Close, Type
<1>6. CASE UNCHANGED vars
  BY <1>6 DEF vars
<1> QED
  BY <1>1, <1>2, <1>3, <1>4, <1>5, <1>6 DEF Next

\* The lists of the client hold messages that still have a ttl.
LEMMA ClientTyped ==
    ASSUME Types, OneCWrite, [Next]_vars PROVE ClientTypes'
<1>1. CASE UNCHANGED client
  BY <1>1 DEF client, Types, ClientTypes
<1>2. ASSUME NEW t \in Threads, OnConnect(t) \/ OnClose(t) \/ Lock(t) \/ CDoWrite(t) \/ CAgain(t)
             \/ OnCReadError(t) \/ OnCWriteError(t) \/ \E m \in Arriving : OnCRead(t, m)
      PROVE  ClientTypes'
  BY <1>2 DEF OnConnect, OnClose, Lock, CDoWrite, CAgain, OnCReadError, OnCWriteError, OnCRead,
              Types, ClientTypes
<1>3. ASSUME NEW t \in Threads, Push(t) PROVE ClientTypes'
  <2>1. msg[t] \in Live
    BY <1>3 DEF Push, At, Types, Control
  <2>2. cpending' \in Seq(Live) /\ cwbuff' \in Live \cup {None}
    BY <1>3, <2>1 DEF Push, Types, ClientTypes
  <2> QED
    BY <1>3, <2>2 DEF Push, Types, ClientTypes
<1>4. ASSUME NEW t \in Threads, CWritten(t) PROVE ClientTypes'
  <2>1. cpending \in Seq(Live) /\ cpending # <<>>
    BY <1>4 DEF CWritten, At, Types, ClientTypes, OneCWrite, CBusy, CWrites
  <2>2. Tail(cpending) \in Seq(Live) /\ (Len(cpending) > 1 => cpending[2] \in Live)
    BY <2>1
  <2>3. cpending' \in Seq(Live) /\ cwbuff' \in Live \cup {None}
    BY <1>4, <2>2 DEF CWritten, Types, ClientTypes
  <2> QED
    BY <1>4, <2>3 DEF CWritten, Types, ClientTypes
<1>5. ASSUME NEW t \in Threads, OnCWrite(t) PROVE ClientTypes'
  <2>1. cpending \in Seq(Live) /\ cpending # <<>> /\ cwbuff = Head(cpending)
    BY <1>5 DEF OnCWrite, Types, ClientTypes, OneCWrite, CBusy
  <2>2. cwbuff \in Live
    BY <2>1
  <2>3. up \in Seq(Live) /\ up' = Append(up, cwbuff)
    BY <1>5 DEF OnCWrite, Types, ClientTypes
  <2>4. up' \in Seq(Live)
    BY <2>2, <2>3
  <2> QED
    BY <1>5, <2>4 DEF OnCWrite, Types, ClientTypes
<1>6. ASSUME NEW t \in Threads, CRead(t) PROVE ClientTypes'
  <2>1. UNCHANGED <<ccache, shown>> \/ (/\ ccache' = Add(ccache, msg[t]) /\ shown' = Append(shown, msg[t])
                                       /\ msg[t].ttl > 0)
    BY <1>6 DEF CRead
  <2>2. msg[t] \in Messages
    BY <1>6 DEF CRead, At, Types, Control
  <2>3. msg[t].ttl > 0 => msg[t] \in Live
    BY <2>2 DEF Messages, Live
  <2>5. ccache \in Seq(Live) /\ shown \in Seq(Live)
    BY DEF Types, ClientTypes
  <2>4. ccache' \in Seq(Live) /\ shown' \in Seq(Live)
    <3>1. CASE UNCHANGED <<ccache, shown>>
      BY <2>5, <3>1
    <3>2. CASE ~UNCHANGED <<ccache, shown>>
      <4>1. ccache' = Add(ccache, msg[t]) /\ shown' = Append(shown, msg[t]) /\ msg[t] \in Live
        BY <2>1, <2>3, <3>2
      <4>2. Add(ccache, msg[t]) \in Seq(Live)
        BY <2>5, <4>1, AddIs
      <4>3. Append(shown, msg[t]) \in Seq(Live)
        BY <2>5, <4>1
      <4> QED
        BY <4>1, <4>2, <4>3
    <3> QED
      BY <3>1, <3>2
  <2> QED
    BY <1>6, <2>4 DEF CRead, Types, ClientTypes
<1> QED
  BY <1>1, <1>2, <1>3, <1>4, <1>5, <1>6, ClientChanges DEF ClientStep

\* The actions that post to the io_context, or take from it.
LEMMA PostsChange ==
    ASSUME [Next]_vars
    PROVE  \/ UNCHANGED posts \/ (\E m \in OwnMsgs : Type(m)) \/ Close
           \/ \E t \in Threads : Post(t) \/ OnPost(t) \/ OnClose(t)
<1>1. ASSUME NEW t \in Threads, Step(t) PROVE UNCHANGED posts \/ Post(t)
  BY <1>1 DEF Step, Check, Fan, Using, Recent, Join, Replay, JoinEnd, Run, Again, DoWrite,
              Written, Leave, Lock, Push, CDoWrite, CWritten, CRead, CAgain
<1>2. ASSUME NEW t \in Threads, Takes(t) PROVE UNCHANGED posts \/ OnPost(t) \/ OnClose(t)
  BY <1>2 DEF Takes, OnAccept, OnReadError, OnRead, OnCRead, OnConnect, OnCReadError
<1>3. ASSUME NEW s \in Sessions, WriteEnds(s) PROVE UNCHANGED posts
  BY <1>3 DEF WriteEnds, OnWrite, OnWriteError, OnAborted
<1>4. ASSUME CWriteEnds PROVE UNCHANGED posts
  BY <1>4 DEF CWriteEnds, OnCWrite, OnCWriteError
<1>5. CASE UNCHANGED vars
  BY <1>5 DEF vars
<1> QED
  BY <1>1, <1>2, <1>3, <1>4, <1>5 DEF Next

\* What is posted is a message that still has a ttl, or the close.
LEMMA InputsTyped ==
    ASSUME Types, [Next]_vars PROVE InputTypes'
<1>1. posts' \in Seq(Live \cup {None})
  <2>1. CASE UNCHANGED posts
    BY <2>1 DEF Types, InputTypes
  <2>2. ASSUME NEW m \in OwnMsgs, Type(m) PROVE posts' \in Seq(Live \cup {None})
    <3>1. [id |-> m, ttl |-> DefaultTtl] \in Live
      BY ChatAssumption DEF Live, Ids
    <3> QED
      BY <2>2, <3>1 DEF Type, Types, InputTypes
  <2>3. CASE Close
    BY <2>3 DEF Close, Types, InputTypes
  <2>4. ASSUME NEW t \in Threads, Post(t) PROVE posts' \in Seq(Live \cup {None})
    <3>1. msg[t] \in Messages /\ msg[t].ttl > 1
      BY <2>4 DEF Post, At, Types, Control, Fans
    <3>2. Fewer(msg[t]) \in Live
      BY <3>1, FewerIs DEF Messages
    <3> QED
      BY <2>4, <3>2 DEF Post, Types, InputTypes
  <2>5. ASSUME NEW t \in Threads, OnPost(t) \/ OnClose(t) PROVE posts' \in Seq(Live \cup {None})
    BY <2>5 DEF OnPost, OnClose, Types, InputTypes
  <2> QED
    BY <2>1, <2>2, <2>3, <2>4, <2>5, PostsChange
<1>2. \/ UNCHANGED inputs
      \/ UNCHANGED <<typed, eof>> /\ nreads < MaxReads /\ nreads' = nreads + 1
      \/ UNCHANGED <<eof, nreads>> /\ \E m \in OwnMsgs : typed' = typed \cup {m}
      \/ UNCHANGED <<typed, nreads>> /\ eof' = TRUE
  <2>1. ASSUME NEW t \in Threads, Step(t) PROVE UNCHANGED inputs
    BY <2>1 DEF Step, Check, Fan, Using, Post, Recent, Join, Replay, JoinEnd, Run, Again, DoWrite,
                Written, Leave, Lock, Push, CDoWrite, CWritten, CRead, CAgain
  <2>2. ASSUME NEW t \in Threads, Takes(t)
        PROVE  UNCHANGED inputs \/ (UNCHANGED <<typed, eof>> /\ nreads < MaxReads /\ nreads' = nreads + 1)
    BY <2>2 DEF Takes, OnAccept, OnReadError, OnRead, OnCRead, OnPost, OnClose, OnConnect,
                OnCReadError, inputs
  <2>3. ASSUME NEW s \in Sessions, WriteEnds(s) PROVE UNCHANGED inputs
    BY <2>3 DEF WriteEnds, OnWrite, OnWriteError, OnAborted
  <2>4. ASSUME CWriteEnds PROVE UNCHANGED inputs
    BY <2>4 DEF CWriteEnds, OnCWrite, OnCWriteError
  <2> QED
    BY <2>1, <2>2, <2>3, <2>4 DEF Next, vars, Type, Close
<1>3. UNCHANGED crashed \/ crashed' = TRUE
  <2>1. ASSUME NEW t \in Threads, Step(t) PROVE UNCHANGED crashed \/ crashed' = TRUE
    BY <2>1 DEF Step, Check, Fan, Using, Post, Recent, Join, Replay, JoinEnd, Run, Again, DoWrite,
                Written, Leave, Lock, Push, CDoWrite, CWritten, CRead, CAgain
  <2>2. ASSUME NEW t \in Threads, Takes(t) PROVE UNCHANGED crashed
    BY <2>2 DEF Takes, OnAccept, OnReadError, OnRead, OnCRead, OnPost, OnClose, OnConnect,
                OnCReadError
  <2> QED
    BY <2>1, <2>2 DEF Next, vars, Type, Close, WriteEnds, OnWrite, OnWriteError, OnAborted,
                      CWriteEnds, OnCWrite, OnCWriteError
<1>4. typed' \subseteq OwnMsgs /\ nreads' \in 0..MaxReads /\ eof' \in BOOLEAN
  <2>1. typed \subseteq OwnMsgs /\ nreads \in 0..MaxReads /\ eof \in BOOLEAN /\ MaxReads \in Nat
    BY ChatAssumption DEF Types, InputTypes
  <2>2. typed' \subseteq OwnMsgs
    BY <1>2, <2>1 DEF inputs
  <2>3. nreads' \in 0..MaxReads
    BY <1>2, <2>1 DEF inputs
  <2>4. eof' \in BOOLEAN
    BY <1>2, <2>1 DEF inputs
  <2> QED
    BY <2>2, <2>3, <2>4
<1> QED
  BY <1>1, <1>3, <1>4 DEF Types, InputTypes

\* The other threads stay where they are, with what they have in their hands.
Others(t) == \A u \in Threads \ {t} :
  /\ pc'[u] = pc[u] /\ on'[u] = on[u] /\ msg'[u] = msg[u]
  /\ dst'[u] = dst[u] /\ back'[u] = back[u] /\ rest'[u] = rest[u]
Moved(t) == ThreadTypes' /\ Others(t) /\ Control(t)'

\* A thread that another one leaves alone still has in its hands what it had.
LEMMA OthersKeep ==
    ASSUME Types, NEW t \in Threads, Others(t), NEW u \in Threads \ {t} PROVE Control(u)'
  BY DEF Types, Others, Control, Fans

\* What a thread has in its hands when it has taken a handler.
LEMMA HandleIs ==
    ASSUME Types, NEW t \in Threads, NEW l \in Places, NEW who \in Sessions \cup {None, "post", "client"},
           NEW m \in Messages \cup {None}, Handle(t, l, who, m)
    PROVE  /\ ThreadTypes' /\ Others(t) /\ pc'[t] = l /\ on'[t] = who /\ msg'[t] = m
           /\ UNCHANGED <<left, dst, back, rest>>
<1>1. pc' \in [Threads -> Places] /\ pc'[t] = l /\ \A u \in Threads \ {t} : pc'[u] = pc[u]
  BY DEF Handle, Goto, Types, ThreadTypes
<1>2. /\ on' \in [Threads -> Sessions \cup {None, "post", "client"}] /\ on'[t] = who
      /\ \A u \in Threads \ {t} : on'[u] = on[u]
  BY DEF Handle, Types, ThreadTypes
<1>3. msg' \in [Threads -> Messages \cup {None}] /\ msg'[t] = m /\ \A u \in Threads \ {t} : msg'[u] = msg[u]
  BY DEF Handle, Types, ThreadTypes
<1> QED
  BY <1>1, <1>2, <1>3 DEF Handle, Types, ThreadTypes, Others

\* What it has when the handler has ended.
LEMMA EndIs ==
    ASSUME Types, NEW t \in Threads, End(t)
    PROVE  Moved(t) /\ pc'[t] = "idle" /\ UNCHANGED <<left, dst, back, rest>>
<1>1. Handle(t, "idle", None, None)
  BY DEF End, Handle
<1>2. "idle" \in Places
  BY DEF Places
<1> QED
  BY <1>1, <1>2, HandleIs DEF Moved, Control, Fans

\* A handler is taken.
LEMMA TakesMove ==
    ASSUME Types, NEW t \in Threads
    PROVE  /\ \A s \in Sessions : OnAccept(t, s) => Moved(t) /\ pc'[t] = "join" /\ on'[t] = s
           /\ \A s \in Sessions, m \in Arriving : OnRead(t, s, m) => Moved(t) /\ pc'[t] = "check" /\ on'[t] = s
           /\ \A s \in Sessions : OnWrite(t, s) => Moved(t) /\ pc'[t] = "written" /\ on'[t] = s
           /\ \A s \in Sessions : OnReadError(t, s) \/ OnWriteError(t, s) => Moved(t) /\ pc'[t] = "leave" /\ on'[t] = s
           /\ OnPost(t) => Moved(t) /\ pc'[t] = "lock"
           /\ OnCWrite(t) => Moved(t) /\ pc'[t] = "cwritten"
           /\ \A m \in Arriving : OnCRead(t, m) => Moved(t) /\ pc'[t] = "cread"
<1> USE DEF Moved
<1>1. {"join", "check", "written", "leave", "lock", "cwritten", "cread"} \subseteq Places
  BY DEF Places
<1>2. Arriving \subseteq Messages
  BY ChatAssumption DEF Arriving, Messages, Ids
<1>3. ASSUME NEW s \in Sessions
      PROVE  /\ OnAccept(t, s) => Moved(t) /\ pc'[t] = "join" /\ on'[t] = s
             /\ OnWrite(t, s) => Moved(t) /\ pc'[t] = "written" /\ on'[t] = s
             /\ OnReadError(t, s) \/ OnWriteError(t, s) => Moved(t) /\ pc'[t] = "leave" /\ on'[t] = s
  <2>1. s # "post"
    BY NamesAssumption
  <2>2. ASSUME OnAccept(t, s) PROVE Moved(t) /\ pc'[t] = "join" /\ on'[t] = s
    <3>1. Handle(t, "join", s, None)
      BY <2>2 DEF OnAccept
    <3> QED
      BY <1>1, <2>1, <3>1, HandleIs DEF Control, Fans
  <2>3. ASSUME OnWrite(t, s) PROVE Moved(t) /\ pc'[t] = "written" /\ on'[t] = s
    <3>1. Handle(t, "written", s, None)
      BY <2>3 DEF OnWrite
    <3> QED
      BY <1>1, <2>1, <3>1, HandleIs DEF Control, Fans
  <2>4. ASSUME OnReadError(t, s) \/ OnWriteError(t, s) PROVE Moved(t) /\ pc'[t] = "leave" /\ on'[t] = s
    <3>1. Handle(t, "leave", s, None)
      BY <2>4 DEF OnReadError, OnWriteError
    <3> QED
      BY <1>1, <2>1, <3>1, HandleIs DEF Control, Fans
  <2> QED
    BY <2>2, <2>3, <2>4
<1>4. ASSUME NEW s \in Sessions, NEW m \in Arriving, OnRead(t, s, m)
      PROVE  Moved(t) /\ pc'[t] = "check" /\ on'[t] = s
  <2>1. s # "post"
    BY NamesAssumption
  <2>2. Handle(t, "check", s, m)
    BY <1>4 DEF OnRead
  <2> QED
    BY <1>1, <1>2, <2>1, <2>2, HandleIs DEF Control, Fans
<1>5. ASSUME OnPost(t) PROVE Moved(t) /\ pc'[t] = "lock"
  <2>1. Handle(t, "lock", "post", Head(posts))
    BY <1>5 DEF OnPost
  <2>2. Head(posts) \in Live
    BY <1>5 DEF OnPost, Types, InputTypes
  <2>3. Live \subseteq Messages
    BY DEF Live, Messages
  <2>4. "post" \in Sessions \cup {None, "post", "client"} /\ "post" \notin Sessions
    BY NamesAssumption
  <2> QED
    BY <1>1, <2>1, <2>2, <2>3, <2>4, HandleIs DEF Control, Fans
<1>6. ASSUME OnCWrite(t) PROVE Moved(t) /\ pc'[t] = "cwritten"
  <2>1. Handle(t, "cwritten", "client", None)
    BY <1>6 DEF OnCWrite
  <2> QED
    BY <1>1, <2>1, HandleIs DEF Control, Fans
<1>7. ASSUME NEW m \in Arriving, OnCRead(t, m) PROVE Moved(t) /\ pc'[t] = "cread"
  <2>1. Handle(t, "cread", "client", m)
    BY <1>7 DEF OnCRead
  <2> QED
    BY <1>1, <1>2, <2>1, HandleIs DEF Control, Fans
<1> QED
  BY <1>3, <1>4, <1>5, <1>6, <1>7

\* A step of no thread moves none.
LEMMA StayIs ==
    ASSUME Types, NEW t \in Threads, UNCHANGED threads PROVE Moved(t)
  BY DEF threads, Types, ThreadTypes, Moved, Others, Control, Fans

\* The thread goes on in the same handler, with the same message.
LEMMA GotoIs ==
    ASSUME Types, NEW t \in Threads, NEW l \in Places, Goto(t, l), UNCHANGED <<on, msg, dst, back, rest>>
    PROVE  pc' \in [Threads -> Places] /\ Others(t) /\ pc'[t] = l
  BY DEF Goto, Types, ThreadTypes, Others

\* The check of broadcast (group.h:61-69) goes on to the members, or ends the broadcast.
LEMMA CheckMoves ==
    ASSUME Types, NEW t \in Threads, Check(t)
    PROVE  Moved(t) /\ pc'[t] \in {"fan", "push", "again"} /\ on'[t] = on[t] /\ msg'[t] = msg[t]
<1>2. /\ on[t] \in Sessions \cup {"client", "post"} /\ msg[t] \in Messages
      /\ on[t] = "post" => msg[t] \in Live
  BY DEF Check, At, Types, Control
<1>5. msg[t].ttl \in Nat
  BY <1>2 DEF Messages
<1>9. \/ Goto(t, "fan") /\ msg[t].ttl > 1 /\ left' = [left EXCEPT ![t] = members]
      \/ Goto(t, "push") /\ on[t] = "post" /\ left' = left
      \/ Goto(t, "again") /\ on[t] # "post" /\ left' = left
  <2>1. CASE msg[t].ttl - 1 =< 0 \/ Has(cache, msg[t].id) \/ msg[t].id \in Black
    BY <2>1 DEF Check, AfterBroadcast
  <2>2. CASE ~(msg[t].ttl - 1 =< 0 \/ Has(cache, msg[t].id) \/ msg[t].id \in Black)
    <3>1. msg[t].ttl > 1
      BY <1>5, <2>2
    <3> QED
      BY <2>2, <3>1 DEF Check
  <2> QED
    BY <2>1, <2>2
<1>1. PICK l \in {"fan", "push", "again"} :
        /\ Goto(t, l)
        /\ l = "fan" => msg[t].ttl > 1
        /\ l = "push" => on[t] = "post"
        /\ l = "again" => on[t] # "post"
        /\ left' = [left EXCEPT ![t] = members] \/ left' = left
  BY <1>9
<1>3. left' \in [Threads -> SUBSET Sessions]
  BY <1>1 DEF Types, ThreadTypes, GroupTypes
<1>4. pc' \in [Threads -> Places] /\ Others(t) /\ pc'[t] = l
  BY <1>1, GotoIs DEF Check, Places
<1>6. UNCHANGED <<on, msg, dst, back, rest>>
  BY DEF Check
<1>7. ThreadTypes'
  BY <1>3, <1>4, <1>6 DEF Types, ThreadTypes
<1>8. Control(t)'
  BY <1>1, <1>2, <1>4, <1>5, <1>6 DEF Control, Fans
<1> QED
  BY <1>4, <1>6, <1>7, <1>8 DEF Moved

\* The loop over members (group.h:71) stays in the loop, or does the write of one of them.
LEMMA FanMoves ==
    ASSUME Types, NEW t \in Threads, NEW s \in Sessions, Fan(t, s), state[s] # "freed"
    PROVE  Moved(t) /\ UNCHANGED <<on, msg, rest>> /\ back'[t] \in {back[t], "fan"}
           /\ (pc'[t] = "fan" \/ (pc'[t] = "write" /\ back'[t] = "fan" /\ dst'[t] = s))
<1>1. /\ SendTo(t, s, Fewer(msg[t]), "fan") /\ UNCHANGED <<on, msg, rest>>
      /\ left' = [left EXCEPT ![t] = @ \ {s}]
  BY DEF Fan, Using
<1>2. /\ on[t] \in Sessions \cup {"client", "post"} /\ msg[t] \in Messages /\ msg[t].ttl > 1
      /\ on[t] = "post" => msg[t] \in Live
  BY DEF Fan, At, Types, Control, Fans
<1>3. Fewer(msg[t]) \in Live
  BY <1>2, FewerIs DEF Messages
<1>4. /\ pc' \in [Threads -> Places] /\ dst' \in [Threads -> Sessions \cup {None}]
      /\ back' \in [Threads -> {"idle", "fan", "replay"}]
      /\ \A u \in Threads \ {t} : pc'[u] = pc[u] /\ dst'[u] = dst[u] /\ back'[u] = back[u]
      /\ pc'[t] = "fan" \/ (pc'[t] = "write" /\ back'[t] = "fan" /\ dst'[t] = s)
  BY <1>1, <1>3, SendToIs
<1>5. ThreadTypes'
  BY <1>1, <1>4 DEF Types, ThreadTypes
<1>6. Control(t)'
  BY <1>1, <1>2, <1>4 DEF Control, Fans
<1>7. back'[t] \in {back[t], "fan"}
  BY <1>1 DEF SendTo, Types, ThreadTypes
<1> QED
  BY <1>1, <1>4, <1>5, <1>6, <1>7 DEF Moved, Others

\* The loop of join (group.h:46) stays in the loop, or does the write of the session.
LEMMA ReplayMoves ==
    ASSUME Types, NEW t \in Threads, Replay(t)
    PROVE  /\ Moved(t) /\ UNCHANGED <<on, msg, left>> /\ rest'[t] = Tail(rest[t])
           /\ pc'[t] = "replay" \/ (pc'[t] = "write" /\ back'[t] = "replay" /\ dst'[t] = on[t])
<1>1. /\ SendTo(t, on[t], Head(rest[t]), "replay") /\ UNCHANGED <<on, msg, left>>
      /\ rest' = [rest EXCEPT ![t] = Tail(@)]
  BY DEF Replay
<1>2. on[t] \in Sessions /\ rest[t] \in Seq(Live) /\ rest[t] # <<>> /\ on[t] # "post"
  BY NamesAssumption DEF Replay, At, Types, ThreadTypes, Control
<1>3. Head(rest[t]) \in Live /\ Tail(rest[t]) \in Seq(Live)
  BY <1>2
<1>4. /\ pc' \in [Threads -> Places] /\ dst' \in [Threads -> Sessions \cup {None}]
      /\ back' \in [Threads -> {"idle", "fan", "replay"}]
      /\ \A u \in Threads \ {t} : pc'[u] = pc[u] /\ dst'[u] = dst[u] /\ back'[u] = back[u]
      /\ pc'[t] = "replay" \/ (pc'[t] = "write" /\ back'[t] = "replay" /\ dst'[t] = on[t])
  BY <1>1, <1>2, <1>3, SendToIs
<1>5. /\ rest' \in [Threads -> Seq(Live)] /\ rest'[t] = Tail(rest[t])
      /\ \A u \in Threads \ {t} : rest'[u] = rest[u]
  BY <1>1, <1>3 DEF Types, ThreadTypes
<1>6. ThreadTypes'
  BY <1>1, <1>4, <1>5 DEF Types, ThreadTypes
<1>7. Control(t)'
  BY <1>1, <1>2, <1>4 DEF Control, Fans
<1> QED
  BY <1>1, <1>4, <1>5, <1>6, <1>7 DEF Moved, Others

\* The steps of broadcast, join and on_post that only go on.
LEMMA PlainMoves ==
    ASSUME Types, NEW t \in Threads
    PROVE  /\ Post(t) => Moved(t) /\ pc'[t] = "recent"
           /\ Recent(t) => Moved(t) /\ pc'[t] \in {"push", "again"}
           /\ JoinEnd(t) => Moved(t) /\ pc'[t] = "run" /\ on'[t] = on[t]
           /\ Lock(t) => Moved(t) /\ pc'[t] = "check"
<1>1. {"recent", "push", "again", "run", "check"} \subseteq Places
  BY DEF Places
<1>2. ASSUME Post(t) PROVE Moved(t) /\ pc'[t] = "recent"
  <2>1. Goto(t, "recent") /\ UNCHANGED <<on, msg, left, dst, back, rest>>
    BY <1>2 DEF Post
  <2>2. pc' \in [Threads -> Places] /\ Others(t) /\ pc'[t] = "recent"
    BY <1>1, <2>1, GotoIs
  <2> QED
    BY <1>2, <2>1, <2>2 DEF Post, At, Types, ThreadTypes, Moved, Control, Fans
<1>3. ASSUME Recent(t) PROVE Moved(t) /\ pc'[t] \in {"push", "again"}
  <2>1. PICK l \in {"push", "again"} : Goto(t, l) /\ (l = "push" <=> on[t] = "post")
    BY <1>3 DEF Recent, AfterBroadcast
  <2>2. UNCHANGED <<on, msg, left, dst, back, rest>>
    BY <1>3 DEF Recent
  <2>3. pc' \in [Threads -> Places] /\ Others(t) /\ pc'[t] = l
    BY <1>1, <2>1, <2>2, GotoIs
  <2> QED
    BY <1>3, <2>1, <2>2, <2>3 DEF Recent, At, Types, ThreadTypes, Moved, Control, Fans
<1>4. ASSUME JoinEnd(t) PROVE Moved(t) /\ pc'[t] = "run" /\ on'[t] = on[t]
  <2>1. Goto(t, "run") /\ UNCHANGED <<on, msg, left, dst, back, rest>>
    BY <1>4 DEF JoinEnd
  <2>2. pc' \in [Threads -> Places] /\ Others(t) /\ pc'[t] = "run"
    BY <1>1, <2>1, GotoIs
  <2>3. on[t] \in Sessions /\ on[t] # "post"
    BY <1>4, NamesAssumption DEF JoinEnd, At, Types, Control
  <2> QED
    BY <2>1, <2>2, <2>3 DEF Types, ThreadTypes, Moved, Control, Fans
<1>5. ASSUME Lock(t) PROVE Moved(t) /\ pc'[t] = "check"
  <2>1. Goto(t, "check") /\ UNCHANGED <<on, msg, left, dst, back, rest>>
    BY <1>5 DEF Lock
  <2>2. pc' \in [Threads -> Places] /\ Others(t) /\ pc'[t] = "check"
    BY <1>1, <2>1, GotoIs
  <2>3. on[t] = "post" /\ msg[t] \in Live /\ msg[t] \in Messages
    BY <1>5 DEF Lock, At, Types, Control, Live, Messages
  <2> QED
    BY <2>1, <2>2, <2>3 DEF Types, ThreadTypes, Moved, Control, Fans
<1> QED
  BY <1>2, <1>3, <1>4, <1>5

\* Sets of members that a loop has left remain sets of sessions.
LEMMA LoopsChange ==
    ASSUME Types, NEW s \in Sessions
    PROVE  /\ (\E loops \in SUBSET Loops :
                 left' = [u \in Threads |-> IF u \in loops THEN left[u] \cup {s} ELSE left[u]])
              => left' \in [Threads -> SUBSET Sessions]
           /\ (\E loops \in SUBSET Loops :
                 left' = [u \in Threads |-> IF u \in loops THEN left[u] \ {s} ELSE left[u]])
              => left' \in [Threads -> SUBSET Sessions]
<1>1. left \in [Threads -> SUBSET Sessions]
  BY DEF Types, ThreadTypes
<1> QED
  BY <1>1, Zenon

\* Join goes on to the replay of what is recent.
LEMMA JoinMoves ==
    ASSUME Types, NEW t \in Threads, Join(t)
    PROVE  Moved(t) /\ pc'[t] = "replay" /\ UNCHANGED <<on, msg>> /\ rest'[t] = recent
<1>1. on[t] \in Sessions /\ on[t] # "post"
  BY NamesAssumption DEF Join, At, Types, Control
<1>2. left' \in [Threads -> SUBSET Sessions]
  BY <1>1, LoopsChange DEF Join
<1>3. /\ pc' = [pc EXCEPT ![t] = "replay"] /\ rest' = [rest EXCEPT ![t] = recent]
      /\ UNCHANGED <<on, msg, dst, back>>
  BY DEF Join, Goto
<1>4. pc' \in [Threads -> Places] /\ pc'[t] = "replay" /\ \A u \in Threads \ {t} : pc'[u] = pc[u]
  BY <1>3 DEF Types, ThreadTypes, Places
<1>5. rest' \in [Threads -> Seq(Live)] /\ rest'[t] = recent /\ \A u \in Threads \ {t} : rest'[u] = rest[u]
  BY <1>3 DEF Types, ThreadTypes, GroupTypes
<1>6. ThreadTypes' /\ Others(t)
  BY <1>2, <1>3, <1>4, <1>5 DEF Types, ThreadTypes, Others
<1> QED
  BY <1>1, <1>3, <1>4, <1>5, <1>6 DEF Moved, Control, Fans

\* Leave ends its handler.
LEMMA LeaveMoves ==
    ASSUME Types, NEW t \in Threads, Leave(t), ~crashed'
    PROVE  Moved(t) /\ pc'[t] = "idle"
<1>1. on[t] \in Sessions
  BY DEF Leave, At, Types, Control
<1>2. left' \in [Threads -> SUBSET Sessions]
  BY <1>1, LoopsChange DEF Leave, Using
<1>3. /\ pc' = [pc EXCEPT ![t] = "idle"] /\ on' = [on EXCEPT ![t] = None]
      /\ UNCHANGED <<msg, dst, back, rest>>
  BY DEF Leave, Goto, Using
<1>4. pc' \in [Threads -> Places] /\ pc'[t] = "idle" /\ \A u \in Threads \ {t} : pc'[u] = pc[u]
  BY <1>3 DEF Types, ThreadTypes, Places
<1>5. /\ on' \in [Threads -> Sessions \cup {None, "post", "client"}]
      /\ \A u \in Threads \ {t} : on'[u] = on[u]
  BY <1>3 DEF Types, ThreadTypes
<1>6. ThreadTypes' /\ Others(t)
  BY <1>2, <1>3, <1>4, <1>5 DEF Types, ThreadTypes, Others
<1> QED
  BY <1>4, <1>6 DEF Moved, Control, Fans

\* do_write returns to where send was called.
LEMMA DoWriteMoves ==
    ASSUME Types, NEW t \in Threads, DoWrite(t), ~crashed'
    PROVE  Moved(t) /\ pc'[t] = back[t] /\ UNCHANGED <<on, msg, left, rest>>
<1>1. /\ pc' = [pc EXCEPT ![t] = back[t]] /\ dst' = [dst EXCEPT ![t] = None]
      /\ back' = [back EXCEPT ![t] = "idle"] /\ UNCHANGED <<on, msg, left, rest>>
  BY DEF DoWrite, Goto, Using
<1>2. pc[t] = "write" /\ back[t] \in {"idle", "fan", "replay"}
  BY DEF DoWrite, At, Types, ThreadTypes
<1>3. pc' \in [Threads -> Places] /\ pc'[t] = back[t] /\ \A u \in Threads \ {t} : pc'[u] = pc[u]
  BY <1>1, <1>2 DEF Types, ThreadTypes, Places
<1>4. dst' \in [Threads -> Sessions \cup {None}] /\ \A u \in Threads \ {t} : dst'[u] = dst[u]
  BY <1>1 DEF Types, ThreadTypes
<1>5. back' \in [Threads -> {"idle", "fan", "replay"}] /\ \A u \in Threads \ {t} : back'[u] = back[u]
  BY <1>1 DEF Types, ThreadTypes
<1>6. ThreadTypes' /\ Others(t)
  BY <1>1, <1>3, <1>4, <1>5 DEF Types, ThreadTypes, Others
<1>7. Control(t)
  BY DEF Types
<1> QED
  BY <1>1, <1>2, <1>3, <1>6, <1>7 DEF Moved, Control, Fans

\* The end of a write begins the next one, or ends the handler.
LEMMA WrittenMoves ==
    ASSUME Types, NEW t \in Threads, Written(t), ~crashed'
    PROVE  /\ Moved(t)
           /\ IF Len(pending[on[t]]) > 1 THEN pc'[t] = "write" /\ dst'[t] = on[t] /\ back'[t] = "idle"
              ELSE pc'[t] = "idle"
<1>1. on[t] \in Sessions
  BY DEF Written, At, Types, Control
<1>2. CASE Len(pending[on[t]]) > 1
  <2>1. /\ pc' = [pc EXCEPT ![t] = "write"] /\ dst' = [dst EXCEPT ![t] = on[t]]
        /\ back' = [back EXCEPT ![t] = "idle"] /\ on' = [on EXCEPT ![t] = None]
        /\ UNCHANGED <<msg, left, rest>>
    BY <1>2 DEF Written, Goto, Using
  <2>2. /\ pc' \in [Threads -> Places] /\ pc'[t] = "write"
        /\ \A u \in Threads \ {t} : pc'[u] = pc[u]
    BY <2>1 DEF Types, ThreadTypes, Places
  <2>3. /\ dst' \in [Threads -> Sessions \cup {None}] /\ dst'[t] = on[t]
        /\ \A u \in Threads \ {t} : dst'[u] = dst[u]
    BY <1>1, <2>1 DEF Types, ThreadTypes
  <2>4. /\ back' \in [Threads -> {"idle", "fan", "replay"}] /\ back'[t] = "idle"
        /\ \A u \in Threads \ {t} : back'[u] = back[u]
    BY <2>1 DEF Types, ThreadTypes
  <2>5. /\ on' \in [Threads -> Sessions \cup {None, "post", "client"}] /\ on'[t] = None
        /\ \A u \in Threads \ {t} : on'[u] = on[u]
    BY <2>1 DEF Types, ThreadTypes
  <2>6. ThreadTypes' /\ Others(t)
    BY <2>1, <2>2, <2>3, <2>4, <2>5 DEF Types, ThreadTypes, Others
  <2>7. Control(t)'
    BY <1>1, <2>2, <2>3, <2>4, <2>5, NamesAssumption DEF Control, Fans
  <2> QED
    BY <1>2, <2>2, <2>3, <2>4, <2>6, <2>7 DEF Moved
<1>3. CASE ~(Len(pending[on[t]]) > 1)
  BY <1>3, EndIs DEF Written, Using
<1> QED
  BY <1>2, <1>3

\* The steps of the client's handlers.
LEMMA ClientMoves ==
    ASSUME Types, NEW t \in Threads
    PROVE  /\ Push(t) \/ CWritten(t) => Moved(t) /\ pc'[t] \in {"cwrite", "idle"}
           /\ CRead(t) => Moved(t) /\ pc'[t] \in {"check", "again"}
<1>1. ASSUME Push(t) \/ CWritten(t) PROVE Moved(t) /\ pc'[t] \in {"cwrite", "idle"}
  <2>1. Handle(t, "cwrite", None, None) \/ End(t)
    BY <1>1 DEF Push, CWritten
  <2>2. CASE Handle(t, "cwrite", None, None)
    BY <2>2, HandleIs, NamesAssumption DEF Places, Moved, Control, Fans
  <2>3. CASE End(t)
    BY <2>3, EndIs
  <2> QED
    BY <2>1, <2>2, <2>3
<1>2. ASSUME CRead(t) PROVE Moved(t) /\ pc'[t] \in {"check", "again"}
  <2>1. on[t] = "client" /\ msg[t] \in Messages
    BY <1>2 DEF CRead, At, Types, Control
  <2>2. UNCHANGED <<on, left, dst, back, rest>>
    BY <1>2 DEF CRead
  <2>3. PICK l \in {"check", "again"}, m \in Messages : Goto(t, l) /\ msg' = [msg EXCEPT ![t] = m]
    <3>1. CASE msg[t].ttl > 0 /\ ~Has(ccache, msg[t].id)
      <4>1. Fewer(msg[t]) \in Messages
        BY <2>1, <3>1, FewerIs
      <4> QED
        BY <1>2, <3>1, <4>1 DEF CRead
    <3>2. CASE ~(msg[t].ttl > 0 /\ ~Has(ccache, msg[t].id))
      <4>1. msg' = [msg EXCEPT ![t] = msg[t]]
        BY <1>2, <3>2 DEF CRead, Types, ThreadTypes
      <4> QED
        BY <1>2, <2>1, <3>2, <4>1 DEF CRead
    <3> QED
      BY <3>1, <3>2
  <2>4. pc' \in [Threads -> Places] /\ pc'[t] = l /\ \A u \in Threads \ {t} : pc'[u] = pc[u]
    BY <2>3 DEF Goto, Types, ThreadTypes, Places
  <2>5. msg' \in [Threads -> Messages \cup {None}] /\ msg'[t] = m /\ \A u \in Threads \ {t} : msg'[u] = msg[u]
    BY <2>3 DEF Types, ThreadTypes
  <2>6. ThreadTypes' /\ Others(t)
    BY <2>2, <2>4, <2>5 DEF Types, ThreadTypes, Others
  <2> QED
    BY <2>1, <2>2, <2>4, <2>5, <2>6 DEF Moved, Control, Fans
<1> QED
  BY <1>1, <1>2

\* A step of a handler moves its thread, and no other.
LEMMA StepMoves ==
    ASSUME Types, NEW t \in Threads, Step(t) PROVE Moved(t)
<1>1. CASE UNCHANGED threads
  BY <1>1, StayIs
<1>2. ASSUME NEW s \in Sessions, Fan(t, s), ~UNCHANGED threads PROVE Moved(t)
  <2>1. state[s] # "freed"
    BY <1>2 DEF Fan, Using
  <2> QED
    BY <1>2, <2>1, FanMoves
<1>3. CASE (Leave(t) \/ DoWrite(t) \/ Written(t)) /\ ~UNCHANGED threads
  <2>1. ~crashed'
    BY <1>3 DEF Leave, DoWrite, Written, Using, At
  <2> QED
    BY <1>3, <2>1, LeaveMoves, DoWriteMoves, WrittenMoves
<1>4. CASE (Run(t) \/ Again(t) \/ CDoWrite(t) \/ CAgain(t)) /\ ~UNCHANGED threads
  <2>1. End(t)
    BY <1>4 DEF Run, Again, CDoWrite, CAgain, Using
  <2> QED
    BY <2>1, EndIs
<1>5. CASE \/ Check(t) \/ Replay(t) \/ Join(t) \/ Push(t) \/ CWritten(t) \/ CRead(t)
           \/ Post(t) \/ Recent(t) \/ JoinEnd(t) \/ Lock(t)
  BY <1>5, CheckMoves, ReplayMoves, JoinMoves, ClientMoves, PlainMoves
<1> QED
  BY <1>1, <1>2, <1>3, <1>4, <1>5 DEF Step

\* Every step moves one thread, or none.
LEMMA SomebodyMoves ==
    ASSUME Types, [Next]_vars PROVE UNCHANGED threads \/ \E t \in Threads : Moved(t)
<1>1. ASSUME NEW t \in Threads, Takes(t) PROVE UNCHANGED threads \/ Moved(t)
  BY <1>1, TakesMove DEF Takes, OnClose, OnConnect, OnCReadError
<1>2. ASSUME NEW s \in Sessions, WriteEnds(s) PROVE UNCHANGED threads \/ \E t \in Threads : Moved(t)
  BY <1>2, TakesMove DEF WriteEnds, OnAborted
<1>3. ASSUME CWriteEnds PROVE UNCHANGED threads \/ \E t \in Threads : Moved(t)
  BY <1>3, TakesMove DEF CWriteEnds, OnCWriteError
<1>4. CASE UNCHANGED vars \/ Close \/ \E m \in OwnMsgs : Type(m)
  BY <1>4 DEF vars, Close, Type
<1> QED
  BY <1>1, <1>2, <1>3, <1>4, StepMoves DEF Next

\* At the beginning every list is empty and every thread idle.
LEMMA TypesInit == Init => Types
<1> SUFFICES ASSUME Init PROVE Types
  OBVIOUS
<1>1. GroupTypes
  BY ChatAssumption DEF Init, GroupTypes
<1>2. SessionTypes
  BY DEF Init, SessionTypes
<1>3. ClientTypes
  <2>1. conn \in {"connecting", "open", "closed"}
    BY DEF Init
  <2>2. <<>> \in Seq(Live)
    OBVIOUS
  <2> QED
    BY <2>1, <2>2, Zenon DEF Init, ClientTypes
<1>4. InputTypes
  <2>1. <<>> \in Seq(Live \cup {None})
    OBVIOUS
  <2>2. 0 \in 0..MaxReads
    BY ChatAssumption
  <2> QED
    BY <2>1, <2>2, Zenon DEF Init, InputTypes
<1>5. ThreadTypes
  BY DEF Init, ThreadTypes, Places
<1>6. \A t \in Threads : Control(t)
  BY DEF Init, Control, Fans
<1> QED
  BY <1>1, <1>2, <1>3, <1>4, <1>5, <1>6 DEF Types

\* Every step keeps the types and what the threads have in their hands.
LEMMA TypesNext == Types /\ Sends /\ OneCWrite /\ [Next]_vars => Types'
<1> SUFFICES ASSUME Types, Sends, OneCWrite, [Next]_vars PROVE Types'
  OBVIOUS
<1>1. ThreadTypes' /\ \A u \in Threads : Control(u)'
  <2>1. CASE UNCHANGED threads
    BY <2>1, StayIs DEF Moved, Types, threads, ThreadTypes, Control, Fans
  <2>2. ASSUME NEW t \in Threads, Moved(t) PROVE ThreadTypes' /\ \A u \in Threads : Control(u)'
    BY <2>2, OthersKeep DEF Moved
  <2> QED
    BY <2>1, <2>2, SomebodyMoves
<1> QED
  BY <1>1, GroupTyped, SessionTyped, ClientTyped, InputsTyped DEF Types

\* A step that uses a destroyed session changes nothing but that, and no step follows it.
LEMMA CrashStays ==
    ASSUME [Next]_vars, crashed' # crashed \/ crashed
    PROVE  UNCHANGED <<group, sessions, client, posts, inputs, threads>>
<1>1. ASSUME NEW t \in Threads, Step(t), crashed' # crashed \/ crashed
      PROVE  UNCHANGED <<group, sessions, client, posts, inputs, threads>>
  BY <1>1 DEF Step, Check, Fan, Using, Post, Recent, Join, Replay, JoinEnd, Run, Again, DoWrite,
              Written, Leave, Lock, Push, CDoWrite, CWritten, CRead, CAgain, At
<1>2. ASSUME NEW t \in Threads, Takes(t), crashed' # crashed \/ crashed
      PROVE  FALSE
  BY <1>2 DEF Takes, OnAccept, OnReadError, OnRead, OnCRead, OnPost, OnClose, OnConnect,
              OnCReadError, Idle, At
<1>3. ASSUME NEW s \in Sessions, WriteEnds(s), crashed' # crashed \/ crashed
      PROVE  UNCHANGED <<group, sessions, client, posts, inputs, threads>>
  BY <1>3 DEF WriteEnds, OnWrite, OnWriteError, OnAborted, Idle, At
<1>4. ASSUME CWriteEnds, crashed' # crashed \/ crashed PROVE FALSE
  BY <1>4 DEF CWriteEnds, OnCWrite, OnCWriteError, Idle, At
<1>5. ASSUME UNCHANGED vars \/ Close \/ \E m \in OwnMsgs : Type(m), crashed' # crashed \/ crashed
      PROVE  UNCHANGED <<group, sessions, client, posts, inputs, threads>>
  BY <1>5 DEF vars, Close, Type
<1> QED
  BY <1>1, <1>2, <1>3, <1>4, <1>5 DEF Next

-----------------------------------------------------------------------------
(* One session at a time is brought in. *)

\* No step but on_accept begins to bring a session in.
LEMMA AcceptsMove ==
    ASSUME Types, NEW t \in Threads, Step(t), ~crashed', Accepts(t)' PROVE Accepts(t)
<1>1. CASE \/ Check(t) \/ Post(t) \/ Recent(t) \/ Lock(t) \/ Push(t) \/ CWritten(t) \/ CRead(t) \/ Leave(t)
  BY <1>1, CheckMoves, PlainMoves, ClientMoves, LeaveMoves DEF Accepts
<1>2. CASE Run(t) \/ Again(t) \/ CDoWrite(t) \/ CAgain(t)
  <2>1. End(t)
    BY <1>2 DEF Run, Again, CDoWrite, CAgain, Using
  <2> QED
    BY <2>1, EndIs DEF Accepts
<1>3. CASE Join(t) \/ JoinEnd(t) \/ Replay(t)
  BY <1>3 DEF Join, JoinEnd, Replay, At, Accepts
<1>4. CASE Written(t)
  <2>1. pc'[t] = "idle" \/ (pc'[t] = "write" /\ back'[t] = "idle")
    BY <1>4, WrittenMoves
  <2> QED
    BY <2>1 DEF Accepts
<1>5. CASE DoWrite(t)
  <2>1. pc'[t] = back[t] /\ pc[t] = "write" /\ back[t] \in {"idle", "fan", "replay"}
    BY <1>5, DoWriteMoves DEF DoWrite, At, Types, ThreadTypes
  <2> QED
    BY <2>1 DEF Accepts
<1>6. ASSUME NEW s \in Sessions, Fan(t, s) PROVE Accepts(t)
  <2>1. state[s] # "freed"
    BY <1>6 DEF Fan, Using
  <2>2. pc'[t] = "fan" \/ (pc'[t] = "write" /\ back'[t] = "fan")
    BY <1>6, <2>1, FanMoves
  <2> QED
    BY <2>2 DEF Accepts
<1> QED
  BY <1>1, <1>2, <1>3, <1>4, <1>5, <1>6 DEF Step

\* do_accept is called again at the end of on_accept only (server.h:105-114): there is one at a time.
LEMMA OneAcceptNext ==
    ASSUME Types, OneAccept, [Next]_vars PROVE OneAccept'
<1>1. CASE crashed' # crashed \/ crashed
  BY <1>1, CrashStays DEF sessions, threads, OneAccept, Accepts
<1> SUFFICES ASSUME ~crashed' PROVE OneAccept'
  BY <1>1 DEF Types, InputTypes
<1>2. CASE UNCHANGED <<threads, accepting>>
  BY <1>2 DEF threads, OneAccept, Accepts
<1>3. ASSUME NEW t \in Threads, Moved(t), accepting' = accepting, Accepts(t)' => Accepts(t)
      PROVE  OneAccept'
  <2>1. \A u \in Threads : Accepts(u)' => Accepts(u)
    BY <1>3 DEF Moved, Others, Accepts
  <2> QED
    BY <1>3, <2>1 DEF OneAccept
<1>4. ASSUME NEW t \in Threads, Run(t) PROVE OneAccept'
  <2>1. Accepts(t)
    BY <1>4 DEF Run, At, Accepts
  <2>2. \A u \in Threads : ~Accepts(u)'
    BY <1>4, <2>1, EndIs DEF Run, Moved, Others, Accepts, OneAccept
  <2> QED
    BY <2>2 DEF OneAccept
<1>5. ASSUME NEW t \in Threads, NEW s \in Sessions, OnAccept(t, s) PROVE OneAccept'
  <2>1. \A u \in Threads : ~Accepts(u)
    BY <1>5 DEF OnAccept, OneAccept
  <2>2. \A u \in Threads : Accepts(u)' => u = t
    BY <1>5, <2>1, TakesMove DEF Moved, Others, Accepts
  <2> QED
    BY <1>5, <2>2 DEF OnAccept, OneAccept
<1>6. ASSUME NEW t \in Threads, Step(t), ~Run(t) PROVE OneAccept'
  <2>1. accepting' = accepting
    BY <1>6 DEF Step, Check, Fan, Using, Post, Recent, Join, Replay, JoinEnd, Again, DoWrite,
                Written, Leave, Lock, Push, CDoWrite, CWritten, CRead, CAgain, sessions
  <2> QED
    BY <1>3, <1>6, <2>1, StepMoves, AcceptsMove
<1>7. ASSUME NEW t \in Threads, NEW s \in Sessions,
             OnReadError(t, s) \/ OnWrite(t, s) \/ OnWriteError(t, s) \/ \E m \in Arriving : OnRead(t, s, m)
      PROVE  OneAccept'
  <2>1. Moved(t) /\ accepting' = accepting /\ pc'[t] \in {"leave", "written", "check"}
    BY <1>7, TakesMove DEF OnReadError, OnWrite, OnWriteError, OnRead
  <2> QED
    BY <1>3, <2>1 DEF Accepts
<1>8. ASSUME NEW t \in Threads, OnPost(t) \/ OnCWrite(t) \/ \E m \in Arriving : OnCRead(t, m) PROVE OneAccept'
  <2>1. Moved(t) /\ accepting' = accepting /\ pc'[t] \in {"lock", "cwritten", "cread"}
    BY <1>8, TakesMove DEF OnPost, OnCWrite, OnCRead, sessions
  <2> QED
    BY <1>3, <2>1 DEF Accepts
<1>9. ASSUME NEW t \in Threads, OnClose(t) \/ OnConnect(t) \/ OnCReadError(t) \/ OnCWriteError(t)
      PROVE  OneAccept'
  BY <1>2, <1>9 DEF OnClose, OnConnect, OnCReadError, OnCWriteError, sessions
<1>10. CASE UNCHANGED vars \/ Close \/ (\E m \in OwnMsgs : Type(m)) \/ \E t \in Threads, s \in Sessions : OnAborted(t, s)
  BY <1>2, <1>10 DEF vars, Close, Type, OnAborted, sessions
<1> QED
  BY <1>4, <1>5, <1>6, <1>7, <1>8, <1>9, <1>10 DEF Next, Takes, WriteEnds, CWriteEnds

-----------------------------------------------------------------------------
(* One write at a time *)

\* A step that has nothing to do with the writes of the session.
Quiet(s) ==
  /\ pending'[s] = pending[s] /\ wbuff'[s] = wbuff[s] /\ writing'[s] = writing[s]
  /\ s \in members' => s \in members
  /\ \A u \in Threads : /\ Writes(u, s)' <=> Writes(u, s)
                        /\ Leaves(u, s) => Leaves(u, s)' \/ s \notin members'

\* A step that has nothing to do with the writes of a session keeps its invariant.
LEMMA QuietKeeps ==
    ASSUME NEW s \in Sessions, OneWrite(s), Quiet(s) PROVE OneWrite(s)'
  BY DEF OneWrite, Quiet, Busy

\* Such is a step of a thread that is at no write of the session.
LEMMA QuietMove ==
    ASSUME Types, NEW s \in Sessions, NEW t \in Threads, Moved(t),
           ~Writes(t, s), ~Writes(t, s)', Leaves(t, s) => s \notin members',
           pending'[s] = pending[s], wbuff'[s] = wbuff[s], writing'[s] = writing[s],
           s \in members' => s \in members
    PROVE  Quiet(s)
  BY DEF Quiet, Moved, Others, Writes, Leaves

\* Session::send of a session that has joined.
LEMMA SendKeeps ==
    ASSUME Types, NEW t \in Threads, NEW s \in Sessions, OneWrite(s), NEW m \in Live,
           NEW l \in {"fan", "replay"}, SendTo(t, s, m, l), pc[t] = l, Moved(t),
           UNCHANGED <<writing, members>>
    PROVE  OneWrite(s)' /\ pending'[s] = Append(pending[s], m)
<1>1. pending[s] \in Seq(Live) /\ pending'[s] = Append(pending[s], m)
  BY DEF SendTo, Types, SessionTypes
<1>2. pending'[s] # <<>> /\ (pending[s] # <<>> => Head(pending'[s]) = Head(pending[s]))
  BY <1>1
<1>3. ~Writes(t, s) /\ \A u \in Threads : ~Leaves(t, u)
  BY DEF Writes, Leaves
<1>4. \A u \in Threads \ {t} : (Writes(u, s)' <=> Writes(u, s)) /\ (Leaves(u, s)' <=> Leaves(u, s))
  BY DEF Moved, Others, Writes, Leaves
<1>5. ~Leaves(t, s) /\ ~Leaves(t, s)'
  BY <1>3, SendToIs DEF Leaves
<1>6. CASE pending[s] = <<>>
  <2>1. ~writing[s] /\ \A u \in Threads : ~Writes(u, s)
    BY <1>6 DEF OneWrite, Busy
  <2>2. Writes(t, s)' /\ wbuff'[s] = m
    BY <1>6 DEF SendTo, Goto, Types, SessionTypes, ThreadTypes, Writes
  <2>3. Head(pending'[s]) = m
    BY <1>1, <1>6
  <2> QED
    BY <1>1, <1>2, <1>4, <2>1, <2>2, <2>3 DEF OneWrite, Busy
<1>7. CASE pending[s] # <<>>
  <2>1. wbuff'[s] = wbuff[s] /\ ~Writes(t, s)'
    BY <1>7 DEF SendTo, Goto, Types, ThreadTypes, Writes
  <2> QED
    BY <1>1, <1>2, <1>3, <1>4, <1>5, <1>7, <2>1 DEF OneWrite, Busy
<1> QED
  BY <1>1, <1>6, <1>7

\* What is first when the first is taken away is the second.
LEMMA SecondIs ==
    ASSUME NEW S, NEW q \in Seq(S), Len(q) > 1
    PROVE  Tail(q) # <<>> /\ Head(Tail(q)) = q[2]
<1>1. q # <<>>
  OBVIOUS
<1>2. Tail(q) \in Seq(S) /\ Len(Tail(q)) = Len(q) - 1 /\ \A i \in 1..Len(Tail(q)) : Tail(q)[i] = q[i + 1]
  BY <1>1, HeadTailProperties
<1>3. Len(Tail(q)) \in Nat /\ Len(Tail(q)) >= 1
  BY <1>2
<1>4. Tail(q)[1] = q[2]
  BY <1>2, <1>3
<1> QED
  BY <1>2, <1>3, <1>4

\* The steps of the handlers keep a session to one write at a time (server.h:31-44, 67-89).
LEMMA SenderKeeps ==
    ASSUME Types, NEW s \in Sessions, OneWrite(s), Outside(s) => Unknown(s),
           NEW t \in Threads, Step(t), ~crashed'
    PROVE  OneWrite(s)'
<1>1. ASSUME NEW s1 \in Sessions, Fan(t, s1) PROVE OneWrite(s)'
  <2>1. /\ SendTo(t, s1, Fewer(msg[t]), "fan") /\ UNCHANGED <<writing, members>> /\ pc[t] = "fan"
        /\ state[s1] # "freed"
    BY <1>1 DEF Fan, Using, At, group
  <2>2. Moved(t) /\ (pc'[t] = "fan" \/ (pc'[t] = "write" /\ dst'[t] = s1))
    BY <1>1, <2>1, FanMoves
  <2>3. Fewer(msg[t]) \in Live
    BY <2>1, FewerIs DEF Types, Control, Fans, Messages
  <2>4. CASE s = s1
    BY <2>1, <2>2, <2>3, <2>4, SendKeeps
  <2>5. CASE s # s1
    <3>1. pending'[s] = pending[s] /\ wbuff'[s] = wbuff[s]
      BY <2>1, <2>5 DEF SendTo, Types, SessionTypes
    <3>2. ~Writes(t, s) /\ ~Writes(t, s)' /\ ~Leaves(t, s)
      BY <2>1, <2>2, <2>5 DEF Writes, Leaves
    <3> QED
      BY <2>1, <2>2, <3>1, <3>2, QuietMove, QuietKeeps
  <2> QED
    BY <2>4, <2>5
<1>2. CASE Replay(t)
  <2>1. /\ SendTo(t, on[t], Head(rest[t]), "replay") /\ UNCHANGED <<writing, members>> /\ pc[t] = "replay"
        /\ on[t] \in Sessions /\ rest[t] \in Seq(Live) /\ rest[t] # <<>>
    BY <1>2 DEF Replay, At, group, Types, Control, ThreadTypes
  <2>2. Moved(t) /\ (pc'[t] = "replay" \/ (pc'[t] = "write" /\ dst'[t] = on[t]))
    BY <1>2, ReplayMoves
  <2>3. Head(rest[t]) \in Live
    BY <2>1
  <2>4. CASE s = on[t]
    BY <2>1, <2>2, <2>3, <2>4, SendKeeps
  <2>5. CASE s # on[t]
    <3>1. pending'[s] = pending[s] /\ wbuff'[s] = wbuff[s]
      BY <2>1, <2>5 DEF SendTo, Types, SessionTypes
    <3>2. ~Writes(t, s) /\ ~Writes(t, s)' /\ ~Leaves(t, s)
      BY <2>1, <2>2, <2>5 DEF Writes, Leaves
    <3> QED
      BY <2>1, <2>2, <3>1, <3>2, QuietMove, QuietKeeps
  <2> QED
    BY <2>4, <2>5
<1>3. CASE Written(t)
  <2>1. /\ on[t] \in Sessions /\ pc[t] = "written" /\ UNCHANGED <<writing, members>>
        /\ pending' = [pending EXCEPT ![on[t]] = Tail(@)]
    BY <1>3 DEF Written, Using, At, Types, Control, group
  <2>2. /\ Moved(t)
        /\ IF Len(pending[on[t]]) > 1 THEN pc'[t] = "write" /\ dst'[t] = on[t] ELSE pc'[t] = "idle"
    BY <1>3, WrittenMoves
  <2>3. IF Len(pending[on[t]]) > 1 THEN wbuff' = [wbuff EXCEPT ![on[t]] = pending[on[t]][2]]
        ELSE wbuff' = wbuff
    BY <1>3 DEF Written, Using
  <2>4. CASE s = on[t]
    <3>1. Writes(t, s)
      BY <2>1, <2>4 DEF Writes
    <3>2. /\ ~writing[s] /\ pending[s] \in Seq(Live) /\ pending[s] # <<>>
          /\ \A u \in Threads : Writes(u, s) => u = t
      BY <3>1 DEF OneWrite, Busy, Types, SessionTypes
    <3>3. \A u \in Threads \ {t} : ~Writes(u, s)'
      BY <2>2, <3>2 DEF Moved, Others, Writes
    <3>4. pending'[s] = Tail(pending[s]) /\ ~writing'[s]
      BY <2>1, <2>4, <3>2 DEF Types, SessionTypes
    <3>5. CASE Len(pending[s]) > 1
      <4>1. Tail(pending[s]) # <<>> /\ Head(Tail(pending[s])) = pending[s][2]
        BY <3>2, <3>5, SecondIs
      <4>2. wbuff'[s] = pending[s][2] /\ Writes(t, s)'
        BY <2>2, <2>3, <2>4, <3>5 DEF Types, SessionTypes, Writes
      <4> QED
        BY <3>3, <3>4, <4>1, <4>2 DEF OneWrite, Busy
    <3>6. CASE ~(Len(pending[s]) > 1)
      <4>1. Tail(pending[s]) = <<>>
        BY <3>2, <3>6
      <4>2. ~Writes(t, s)'
        BY <2>2, <2>4, <3>6 DEF Writes
      <4> QED
        BY <3>3, <3>4, <4>1, <4>2 DEF OneWrite, Busy
    <3> QED
      BY <3>5, <3>6
  <2>5. CASE s # on[t]
    <3>1. pending'[s] = pending[s] /\ wbuff'[s] = wbuff[s]
      BY <2>1, <2>3, <2>5 DEF Types, SessionTypes
    <3>2. ~Writes(t, s) /\ ~Writes(t, s)' /\ ~Leaves(t, s)
      BY <2>1, <2>2, <2>5 DEF Writes, Leaves
    <3> QED
      BY <2>1, <2>2, <3>1, <3>2, QuietMove, QuietKeeps
  <2> QED
    BY <2>4, <2>5
<1>4. CASE DoWrite(t)
  <2>1. /\ pc[t] = "write" /\ dst[t] \in Sessions /\ UNCHANGED <<pending, wbuff, members>>
        /\ writing' = [writing EXCEPT ![dst[t]] = TRUE]
    BY <1>4 DEF DoWrite, Using, At, Types, Control, group
  <2>2. Moved(t) /\ pc'[t] \in {"idle", "fan", "replay"}
    BY <1>4, DoWriteMoves DEF Types, ThreadTypes
  <2>3. CASE s = dst[t]
    <3>1. Writes(t, s)
      BY <2>1, <2>3 DEF Writes
    <3>2. \A u \in Threads : ~Writes(u, s)'
      BY <2>2, <3>1 DEF OneWrite, Moved, Others, Writes
    <3>3. writing'[s] = TRUE
      BY <2>1, <2>3 DEF Types, SessionTypes
    <3> QED
      BY <2>1, <3>1, <3>2, <3>3 DEF OneWrite, Busy
  <2>4. CASE s # dst[t]
    <3>1. writing'[s] = writing[s]
      BY <2>1, <2>4 DEF Types, SessionTypes
    <3>2. ~Writes(t, s) /\ ~Writes(t, s)' /\ ~Leaves(t, s)
      BY <2>1, <2>2, <2>4 DEF Writes, Leaves
    <3> QED
      BY <2>1, <2>2, <3>1, <3>2, QuietMove, QuietKeeps
  <2> QED
    BY <2>3, <2>4
<1>5. CASE Leave(t)
  <2>1. /\ pc[t] = "leave" /\ UNCHANGED <<pending, wbuff, writing>> /\ members' = members \ {on[t]}
    BY <1>5 DEF Leave, Using, At
  <2>2. Moved(t) /\ pc'[t] = "idle"
    BY <1>5, LeaveMoves
  <2>3. ~Writes(t, s) /\ ~Writes(t, s)' /\ (Leaves(t, s) => s \notin members')
    BY <2>1, <2>2 DEF Writes, Leaves
  <2> QED
    BY <2>1, <2>2, <2>3, QuietMove, QuietKeeps
<1>6. CASE Join(t)
  <2>1. /\ pc[t] = "join" /\ UNCHANGED <<pending, wbuff, writing>> /\ members' = members \cup {on[t]}
    BY <1>6 DEF Join, At, sessions
  <2>2. Moved(t) /\ pc'[t] = "replay"
    BY <1>6, JoinMoves
  <2>3. ~Writes(t, s) /\ ~Writes(t, s)' /\ ~Leaves(t, s)
    BY <2>1, <2>2 DEF Writes, Leaves
  <2>4. CASE s = on[t]
    <3>1. Unknown(s)
      BY <2>1, <2>4 DEF Outside
    <3>2. \A u \in Threads : ~Writes(u, s)'
      <4>1. \A u \in Threads : ~Writes(u, s)
        BY <3>1 DEF Unknown
      <4> QED
        BY <2>2, <2>3, <4>1 DEF Moved, Others, Writes
    <3> QED
      BY <2>1, <3>1, <3>2 DEF OneWrite, Busy, Unknown
  <2>5. CASE s # on[t]
    BY <2>1, <2>2, <2>3, <2>5, QuietMove, QuietKeeps
  <2> QED
    BY <2>4, <2>5
<1>7. CASE \/ Check(t) \/ Post(t) \/ Recent(t) \/ JoinEnd(t) \/ Lock(t) \/ Push(t) \/ CWritten(t)
           \/ CRead(t) \/ Run(t) \/ Again(t) \/ CDoWrite(t) \/ CAgain(t)
  <2>1. UNCHANGED <<pending, wbuff, writing, members>>
    BY <1>7 DEF Check, Post, Recent, JoinEnd, Lock, Push, CWritten, CRead, Run, Again, CDoWrite, CAgain,
                Using, group, sessions
  <2>2. pc[t] \notin {"write", "written", "leave"}
    BY <1>7 DEF Check, Post, Recent, JoinEnd, Lock, Push, CWritten, CRead, Run, Again, CDoWrite, CAgain, At
  <2>3. Moved(t) /\ pc'[t] \notin {"write", "written"}
    <3>1. CASE Run(t) \/ Again(t) \/ CDoWrite(t) \/ CAgain(t)
      <4>1. End(t)
        BY <3>1 DEF Run, Again, CDoWrite, CAgain, Using
      <4> QED
        BY <4>1, EndIs
    <3>2. CASE Push(t) \/ CWritten(t) \/ CRead(t)
      BY <3>2, ClientMoves
    <3>3. CASE Check(t) \/ Post(t) \/ Recent(t) \/ JoinEnd(t) \/ Lock(t)
      BY <3>3, CheckMoves, PlainMoves
    <3> QED
      BY <1>7, <3>1, <3>2, <3>3
  <2>4. ~Writes(t, s) /\ ~Writes(t, s)' /\ ~Leaves(t, s)
    BY <2>2, <2>3 DEF Writes, Leaves
  <2> QED
    BY <2>1, <2>3, <2>4, QuietMove, QuietKeeps
<1> QED
  BY <1>1, <1>2, <1>3, <1>4, <1>5, <1>6, <1>7 DEF Step

\* So does the taking of a handler: of on_write, for the write that ends.
LEMMA TakerKeeps ==
    ASSUME Types, NEW s \in Sessions, OneWrite(s), [Next]_vars, ~crashed',
           \A t \in Threads : ~Step(t)
    PROVE  OneWrite(s)'
<1>1. CASE UNCHANGED <<pending, wbuff, writing, members, threads>>
  BY <1>1 DEF threads, OneWrite, Busy, Writes, Leaves
<1>2. ASSUME NEW t \in Threads, NEW s1 \in Sessions, OnWrite(t, s1) PROVE OneWrite(s)'
  <2>1. /\ pc[t] = "idle" /\ writing[s1] /\ UNCHANGED <<pending, wbuff, members>>
        /\ writing' = [writing EXCEPT ![s1] = FALSE]
    BY <1>2 DEF OnWrite, Idle, At, group
  <2>2. Moved(t) /\ pc'[t] = "written" /\ on'[t] = s1
    BY <1>2, TakesMove
  <2>3. CASE s = s1
    <3>1. \A u \in Threads \ {t} : ~Writes(u, s)'
      BY <2>1, <2>2, <2>3 DEF OneWrite, Moved, Others, Writes
    <3>2. Writes(t, s)' /\ ~writing'[s]
      BY <2>1, <2>2, <2>3 DEF Types, SessionTypes, Writes
    <3> QED
      BY <2>1, <2>3, <3>1, <3>2 DEF OneWrite, Busy
  <2>4. CASE s # s1
    <3>1. writing'[s] = writing[s]
      BY <2>1, <2>4 DEF Types, SessionTypes
    <3>2. ~Writes(t, s) /\ ~Writes(t, s)' /\ ~Leaves(t, s)
      BY <2>1, <2>2, <2>4 DEF Writes, Leaves
    <3> QED
      BY <2>1, <2>2, <3>1, <3>2, QuietMove, QuietKeeps
  <2> QED
    BY <2>3, <2>4
<1>3. ASSUME NEW t \in Threads, NEW s1 \in Sessions, OnWriteError(t, s1) PROVE OneWrite(s)'
  <2>1. /\ pc[t] = "idle" /\ writing[s1] /\ UNCHANGED <<pending, wbuff, members>>
        /\ writing' = [writing EXCEPT ![s1] = FALSE]
    BY <1>3 DEF OnWriteError, Idle, At, group
  <2>2. Moved(t) /\ pc'[t] = "leave" /\ on'[t] = s1
    BY <1>3, TakesMove
  <2>3. CASE s = s1
    <3>1. \A u \in Threads : ~Writes(u, s)'
      BY <2>1, <2>2, <2>3 DEF OneWrite, Moved, Others, Writes
    <3>2. Leaves(t, s)' /\ ~writing'[s]
      BY <2>1, <2>2, <2>3 DEF Types, SessionTypes, Leaves
    <3> QED
      BY <2>1, <2>3, <3>1, <3>2 DEF OneWrite, Busy
  <2>4. CASE s # s1
    <3>1. writing'[s] = writing[s]
      BY <2>1, <2>4 DEF Types, SessionTypes
    <3>2. ~Writes(t, s) /\ ~Writes(t, s)' /\ ~Leaves(t, s)
      BY <2>1, <2>2, <2>4 DEF Writes, Leaves
    <3> QED
      BY <2>1, <2>2, <3>1, <3>2, QuietMove, QuietKeeps
  <2> QED
    BY <2>3, <2>4
<1>4. ASSUME NEW t \in Threads,
             \/ OnPost(t) \/ OnCWrite(t) \/ \E m \in Arriving : OnCRead(t, m)
             \/ \E s1 \in Sessions : \/ OnAccept(t, s1) \/ OnReadError(t, s1)
                                     \/ \E m \in Arriving : OnRead(t, s1, m)
      PROVE  OneWrite(s)'
  <2>1. pc[t] = "idle" /\ UNCHANGED <<pending, wbuff, writing, members>>
    BY <1>4 DEF OnPost, OnCWrite, OnCRead, OnAccept, OnReadError, OnRead, Idle, At, group, sessions
  <2>2. Moved(t) /\ pc'[t] \notin {"write", "written"}
    BY <1>4, TakesMove
  <2>3. ~Writes(t, s) /\ ~Writes(t, s)' /\ ~Leaves(t, s)
    BY <2>1, <2>2 DEF Writes, Leaves
  <2> QED
    BY <2>1, <2>2, <2>3, QuietMove, QuietKeeps
<1>5. ASSUME NEW t \in Threads, OnClose(t) \/ OnConnect(t) \/ OnCReadError(t) \/ OnCWriteError(t)
             \/ \E s1 \in Sessions : OnAborted(t, s1)
      PROVE  OneWrite(s)'
  BY <1>1, <1>5 DEF OnClose, OnConnect, OnCReadError, OnCWriteError, OnAborted, group, sessions
<1>6. CASE UNCHANGED vars \/ Close \/ (\E m \in OwnMsgs : Type(m))
  BY <1>1, <1>6 DEF vars, Close, Type, group, sessions
<1> QED
  BY <1>2, <1>3, <1>4, <1>5, <1>6 DEF Next, Takes, WriteEnds, CWriteEnds

\* A session that nobody knows is not in the way of any step but its own.
LEMMA NotInside ==
    ASSUME Types, NEW s \in Sessions, [Next]_vars, ~crashed', Outside(s)' PROVE Outside(s)
<1>1. state'[s] = "new" => state[s] = "new"
  <2>1. CASE UNCHANGED state
    BY <2>1
  <2>2. ASSUME NEW t \in Threads, NEW s1 \in Sessions, OnAccept(t, s1)
        PROVE  state'[s] = "new" => state[s] = "new"
    BY <2>2 DEF OnAccept, Types, SessionTypes
  <2>3. ASSUME NEW t \in Threads, Run(t) PROVE state'[s] = "new" => state[s] = "new"
    BY <2>3 DEF Run, Types, SessionTypes
  <2>4. ASSUME NEW t \in Threads, Leave(t) PROVE state'[s] = "new" => state[s] = "new"
    BY <2>4 DEF Leave, Using, Types, SessionTypes
  <2>5. CASE UNCHANGED sessions
    BY <2>1, <2>5 DEF sessions
  <2>6. ASSUME NEW t \in Threads, NEW s1 \in Sessions,
               \/ Replay(t) \/ Again(t) \/ DoWrite(t) \/ Written(t) \/ Fan(t, s1) \/ OnReadError(t, s1)
               \/ OnWrite(t, s1) \/ OnWriteError(t, s1) \/ \E m \in Arriving : OnRead(t, s1, m)
        PROVE  UNCHANGED state
    BY <2>6 DEF Replay, Again, DoWrite, Written, Fan, OnReadError, OnWrite, OnWriteError, OnRead,
                Using, sessions
  <2> QED
    BY <2>1, <2>2, <2>3, <2>4, <2>5, <2>6, SessionChanges
<1>2. ASSUME NEW t \in Threads, pc'[t] = "join", on'[t] = s, state[s] # "new"
      PROVE  \E u \in Threads : pc[u] = "join" /\ on[u] = s
  <2>1. CASE UNCHANGED threads
    BY <1>2, <2>1 DEF threads
  <2>2. ASSUME NEW u \in Threads, Moved(u), pc'[u] # "join" PROVE \E x \in Threads : pc[x] = "join" /\ on[x] = s
    BY <1>2, <2>2 DEF Moved, Others
  <2>3. ASSUME NEW u \in Threads, NEW s1 \in Sessions, OnAccept(u, s1)
        PROVE  \E x \in Threads : pc[x] = "join" /\ on[x] = s
    <3>1. Moved(u) /\ on'[u] = s1 /\ state[s1] = "new"
      BY <2>3, TakesMove DEF OnAccept
    <3>2. t # u
      BY <1>2, <3>1
    <3> QED
      BY <1>2, <3>1, <3>2 DEF Moved, Others
  <2>4. ASSUME NEW u \in Threads, Step(u) PROVE pc'[u] # "join" /\ Moved(u)
    <3>1. CASE Run(u) \/ Again(u) \/ CDoWrite(u) \/ CAgain(u)
      <4>1. End(u)
        BY <3>1 DEF Run, Again, CDoWrite, CAgain, Using
      <4> QED
        BY <4>1, EndIs
    <3>2. CASE Push(u) \/ CWritten(u) \/ CRead(u)
      BY <3>2, ClientMoves
    <3>3. CASE Check(u) \/ Post(u) \/ Recent(u) \/ JoinEnd(u) \/ Lock(u)
      BY <3>3, CheckMoves, PlainMoves
    <3>4. ASSUME NEW s1 \in Sessions, Fan(u, s1) PROVE pc'[u] # "join" /\ Moved(u)
      <4>1. state[s1] # "freed"
        BY <3>4 DEF Fan, Using
      <4> QED
        BY <3>4, <4>1, FanMoves
    <3>5. CASE Replay(u) \/ Join(u) \/ Leave(u)
      BY <3>5, ReplayMoves, JoinMoves, LeaveMoves
    <3>6. CASE DoWrite(u)
      BY <3>6, DoWriteMoves DEF Types, ThreadTypes
    <3>7. CASE Written(u)
      BY <3>7, WrittenMoves
    <3> QED
      BY <2>4, <3>1, <3>2, <3>3, <3>4, <3>5, <3>6, <3>7 DEF Step
  <2>5. ASSUME NEW u \in Threads,
               \/ OnPost(u) \/ OnCWrite(u) \/ \E m \in Arriving : OnCRead(u, m)
               \/ \E s1 \in Sessions : \/ OnReadError(u, s1) \/ OnWrite(u, s1) \/ OnWriteError(u, s1)
                                       \/ \E m \in Arriving : OnRead(u, s1, m)
        PROVE  pc'[u] # "join" /\ Moved(u)
    BY <2>5, TakesMove
  <2>6. ASSUME NEW u \in Threads, OnClose(u) \/ OnConnect(u) \/ OnCReadError(u) \/ OnCWriteError(u)
               \/ \E s1 \in Sessions : OnAborted(u, s1)
        PROVE  UNCHANGED threads
    BY <2>6 DEF OnClose, OnConnect, OnCReadError, OnCWriteError, OnAborted
  <2>7. CASE UNCHANGED vars \/ Close \/ (\E m \in OwnMsgs : Type(m))
    BY <2>1, <2>7 DEF vars, Close, Type
  <2> QED
    BY <2>1, <2>2, <2>3, <2>4, <2>5, <2>6, <2>7 DEF Next, Takes, WriteEnds, CWriteEnds
<1> QED
  BY <1>1, <1>2 DEF Outside

\* A handler keeps its session until it ends.
LEMMA StepKeepsOn ==
    ASSUME Types, NEW t \in Threads, Step(t), ~crashed' PROVE on'[t] \in {on[t], None}
<1>1. CASE on' = on \/ on' = [on EXCEPT ![t] = None]
  BY <1>1 DEF Types, ThreadTypes
<1>2. CASE End(t) \/ Handle(t, "cwrite", None, None)
  BY <1>1, <1>2 DEF End, Handle
<1>3. ASSUME NEW s \in Sessions, Fan(t, s) PROVE on' = on
  BY <1>3 DEF Fan, Using
<1>4. CASE DoWrite(t) \/ Written(t) \/ Leave(t) \/ Again(t)
  BY <1>1, <1>2, <1>4 DEF DoWrite, Written, Leave, Again, Using
<1>5. CASE Run(t) \/ CDoWrite(t) \/ CAgain(t) \/ Push(t) \/ CWritten(t)
  BY <1>2, <1>5 DEF Run, CDoWrite, CAgain, Push, CWritten
<1>6. CASE \/ CRead(t) \/ Check(t) \/ Post(t) \/ Recent(t) \/ JoinEnd(t) \/ Lock(t)
           \/ Replay(t) \/ Join(t)
  BY <1>1, <1>6 DEF CRead, Check, Post, Recent, JoinEnd, Lock, Replay, Join
<1> QED
  BY <1>1, <1>3, <1>4, <1>5, <1>6 DEF Step

\* What a loop has left: less, all the members when it begins, or one more that joins meanwhile.
LEMMA LeftChanges ==
    ASSUME Types, [Next]_vars, NEW u \in Threads
    PROVE  \/ left'[u] \subseteq left[u] \/ left'[u] = members
           \/ \E t \in Threads : Join(t) /\ left'[u] = left[u] \cup {on[t]}
<1>1. CASE UNCHANGED left
  BY <1>1
<1>2. ASSUME NEW t \in Threads, Check(t) PROVE left'[u] = left[u] \/ left'[u] = members
  BY <1>2 DEF Check, Types, ThreadTypes
<1>3. ASSUME NEW t \in Threads, NEW s \in Sessions, Fan(t, s) PROVE left'[u] \subseteq left[u]
  BY <1>3 DEF Fan, Using, threads, Types, ThreadTypes
<1>4. ASSUME NEW t \in Threads, Leave(t) PROVE left'[u] \subseteq left[u]
  <2>1. UNCHANGED left \/ \E loops \in SUBSET Loops :
          left' = [x \in Threads |-> IF x \in loops THEN left[x] \ {on[t]} ELSE left[x]]
    BY <1>4 DEF Leave, Using, threads
  <2> QED
    BY <2>1
<1>5. ASSUME NEW t \in Threads, Join(t) PROVE left'[u] = left[u] \/ left'[u] = left[u] \cup {on[t]}
  <2>1. \E loops \in SUBSET Loops :
          left' = [x \in Threads |-> IF x \in loops THEN left[x] \cup {on[t]} ELSE left[x]]
    BY <1>5 DEF Join
  <2> QED
    BY <2>1
<1>6. ASSUME NEW t \in Threads, Step(t), ~Check(t), ~Leave(t), ~Join(t), \A s \in Sessions : ~Fan(t, s)
      PROVE  UNCHANGED left
  BY <1>6 DEF Step, Post, Recent, Replay, JoinEnd, Run, Again, DoWrite, Written, Lock, Push,
              CDoWrite, CWritten, CRead, CAgain, Using, End, Handle, threads
<1>7. ASSUME NEW t \in Threads, Takes(t) PROVE UNCHANGED left
  BY <1>7 DEF Takes, OnAccept, OnReadError, OnRead, OnCRead, OnPost, OnClose, OnConnect,
              OnCReadError, Handle, threads
<1>8. ASSUME NEW s \in Sessions, WriteEnds(s) PROVE UNCHANGED left
  BY <1>8 DEF WriteEnds, OnWrite, OnWriteError, OnAborted, Handle, threads
<1>9. CASE CWriteEnds \/ UNCHANGED vars \/ Close \/ \E m \in OwnMsgs : Type(m)
  BY <1>9 DEF CWriteEnds, OnCWrite, OnCWriteError, Handle, threads, vars, Close, Type
<1> QED
  BY <1>1, <1>2, <1>3, <1>4, <1>5, <1>6, <1>7, <1>8, <1>9 DEF Next

\* Nobody but the thread that brings it in does anything to a session that has not joined.
LEMMA UnknownKeeps ==
    ASSUME Types, Types', OneAccept, NEW s \in Sessions, Unknown(s), Outside(s)', [Next]_vars, ~crashed'
    PROVE  Unknown(s)'
<1>1. ASSUME NEW t \in Threads, Join(t) PROVE on[t] # s
  <2> SUFFICES ASSUME on[t] = s PROVE FALSE
    OBVIOUS
  <2>1. pc[t] = "join" /\ state' = state /\ Accepts(t)
    BY <1>1 DEF Join, At, sessions, Accepts
  <2>2. state'[s] = "open"
    BY <2>1 DEF Unknown
  <2>3. PICK u \in Threads : pc'[u] = "join" /\ on'[u] = s
    BY <2>2 DEF Outside
  <2>4. Moved(t) /\ pc'[t] = "replay"
    BY <1>1, JoinMoves
  <2>5. u # t /\ Accepts(u)
    BY <2>3, <2>4 DEF Moved, Others, Accepts
  <2> QED
    BY <2>1, <2>5 DEF OneAccept
<1>2. ASSUME NEW t \in Threads, Step(t) PROVE on[t] # s
  <2>1. CASE Join(t)
    BY <1>1, <2>1
  <2>2. CASE ~Join(t)
    <3>1. pc[t] # "join"
      BY <1>2, <2>2 DEF Step, Check, Fan, Post, Recent, Replay, JoinEnd, Run, Again, DoWrite, Written,
                        Leave, Lock, Push, CDoWrite, CWritten, CRead, CAgain, At
    <3> QED
      BY <3>1 DEF Unknown
  <2> QED
    BY <2>1, <2>2
<1> DEFINE Alone == /\ pending'[s] = pending[s] /\ out'[s] = out[s] /\ writing'[s] = writing[s]
                    /\ reading'[s] = reading[s]
                    /\ state[s] = "open" => state'[s] = "open"
<1>3. Alone
  <2>1. CASE UNCHANGED sessions
    BY <2>1 DEF sessions
  <2>2. ASSUME NEW t \in Threads, NEW s1 \in Sessions, Fan(t, s1) PROVE Alone
    <3>1. s1 # s
      BY <2>2 DEF Fan, Unknown
    <3> QED
      BY <2>2, <3>1 DEF Fan, Using, SendTo, sessions, Types, SessionTypes
  <2>7. ASSUME NEW t \in Threads, Replay(t) PROVE Alone
    <3>1. on[t] # s
      BY <1>2, <2>7 DEF Step
    <3> QED
      BY <2>7, <3>1 DEF Replay, SendTo, Types, SessionTypes
  <2>3. ASSUME NEW t \in Threads, Run(t) \/ Again(t) \/ Written(t) \/ Leave(t) PROVE Alone
    <3>1. on[t] # s
      BY <1>2, <2>3 DEF Step
    <3> QED
      BY <2>3, <3>1 DEF Run, Again, Written, Leave, Using, Types, SessionTypes
  <2>4. ASSUME NEW t \in Threads, DoWrite(t) PROVE Alone
    <3>1. dst[t] # s
      BY <2>4 DEF DoWrite, At, Unknown, Writes
    <3> QED
      BY <2>4, <3>1 DEF DoWrite, Using, Types, SessionTypes
  <2>5. ASSUME NEW t \in Threads, NEW s1 \in Sessions,
               OnReadError(t, s1) \/ OnWrite(t, s1) \/ OnWriteError(t, s1) \/ \E m \in Arriving : OnRead(t, s1, m)
        PROVE  Alone
    <3>1. s1 # s
      BY <2>5 DEF OnReadError, OnWrite, OnWriteError, OnRead, Unknown
    <3> QED
      BY <2>5, <3>1 DEF OnReadError, OnWrite, OnWriteError, OnRead, Types, SessionTypes
  <2>6. ASSUME NEW t \in Threads, NEW s1 \in Sessions, OnAccept(t, s1) PROVE Alone
    BY <2>6 DEF OnAccept, Types, SessionTypes
  <2> QED
    BY <2>1, <2>2, <2>3, <2>4, <2>5, <2>6, <2>7, SessionChanges
<1> HIDE DEF Alone
<1>4. s \notin members'
  <2>1. members' \subseteq members \/ \E t \in Threads : Join(t) /\ members' = members \cup {on[t]}
    BY GroupChanges DEF Check, Recent, Join, JoinEnd, Leave, Using, group
  <2> QED
    BY <1>1, <2>1 DEF Unknown
<1>5. ASSUME NEW u \in Threads PROVE s \notin left'[u]
  <2>1. left'[u] \subseteq left[u] \/ left'[u] = members \/ \E t \in Threads : Join(t) /\ left'[u] = left[u] \cup {on[t]}
    BY LeftChanges
  <2> QED
    BY <1>1, <2>1 DEF Unknown
<1>6. ASSUME NEW u \in Threads PROVE ~Writes(u, s)' /\ (on'[u] = s => pc'[u] = "join" /\ state'[s] = "open")
  <2>1. ASSUME pc'[u] = pc[u], on'[u] = on[u], dst'[u] = dst[u]
        PROVE  ~Writes(u, s)' /\ (on'[u] = s => pc'[u] = "join" /\ state'[s] = "open")
    BY <1>3, <2>1 DEF Alone, Unknown, Writes
  <2>2. CASE UNCHANGED threads
    BY <2>1, <2>2 DEF threads
  <2>3. ASSUME NEW t \in Threads, Moved(t), t # u
        PROVE  ~Writes(u, s)' /\ (on'[u] = s => pc'[u] = "join" /\ state'[s] = "open")
    BY <2>1, <2>3 DEF Moved, Others
  <2>4. CASE Step(u)
    <3>1. on[u] # s /\ on'[u] # s
      BY <1>2, <2>4, StepKeepsOn, NamesAssumption
    <3>2. CASE \E s1 \in Sessions : Fan(u, s1)
      <4>1. PICK s1 \in Sessions : Fan(u, s1)
        BY <3>2
      <4>2. s1 # s /\ state[s1] # "freed"
        BY <4>1 DEF Fan, Using, Unknown
      <4> QED
        BY <3>1, <4>1, <4>2, FanMoves DEF Writes
    <3>3. CASE Replay(u)
      BY <3>1, <3>3, ReplayMoves DEF Writes
    <3>4. CASE Written(u)
      BY <3>1, <3>4, WrittenMoves DEF Writes
    <3>5. CASE DoWrite(u)
      BY <3>1, <3>5, DoWriteMoves DEF Writes, Types, ThreadTypes
    <3>6. CASE Join(u) \/ Leave(u)
      BY <3>1, <3>6, JoinMoves, LeaveMoves DEF Writes
    <3>7. CASE Run(u) \/ Again(u) \/ CDoWrite(u) \/ CAgain(u)
      <4>1. End(u)
        BY <3>7 DEF Run, Again, CDoWrite, CAgain, Using
      <4> QED
        BY <3>1, <4>1, EndIs DEF Writes
    <3>8. CASE Push(u) \/ CWritten(u) \/ CRead(u)
      BY <3>1, <3>8, ClientMoves DEF Writes
    <3>9. CASE Check(u) \/ Post(u) \/ Recent(u) \/ JoinEnd(u) \/ Lock(u)
      BY <3>1, <3>9, CheckMoves, PlainMoves DEF Writes
    <3> QED
      BY <2>4, <3>2, <3>3, <3>4, <3>5, <3>6, <3>7, <3>8, <3>9 DEF Step
  <2>5. ASSUME NEW s1 \in Sessions, OnAccept(u, s1)
        PROVE  ~Writes(u, s)' /\ (on'[u] = s => pc'[u] = "join" /\ state'[s] = "open")
    <3>1. pc'[u] = "join" /\ on'[u] = s1
      BY <2>5, TakesMove
    <3>2. state'[s1] = "open"
      BY <2>5 DEF OnAccept, Types, SessionTypes
    <3> QED
      BY <3>1, <3>2 DEF Writes
  <2>6. ASSUME NEW s1 \in Sessions,
               OnReadError(u, s1) \/ OnWrite(u, s1) \/ OnWriteError(u, s1) \/ \E m \in Arriving : OnRead(u, s1, m)
        PROVE  ~Writes(u, s)' /\ (on'[u] = s => pc'[u] = "join" /\ state'[s] = "open")
    <3>1. s1 # s
      BY <2>6 DEF OnReadError, OnWrite, OnWriteError, OnRead, Unknown
    <3>2. on'[u] = s1 /\ pc'[u] # "write"
      BY <2>6, TakesMove
    <3> QED
      BY <3>1, <3>2 DEF Writes
  <2>7. ASSUME OnPost(u) \/ OnCWrite(u) \/ \E m \in Arriving : OnCRead(u, m)
        PROVE  ~Writes(u, s)' /\ (on'[u] = s => pc'[u] = "join" /\ state'[s] = "open")
    <3>1. pc'[u] \in {"lock", "cwritten", "cread"}
      BY <2>7, TakesMove
    <3>2. on'[u] \in {"post", "client"}
      BY <2>7 DEF OnPost, OnCWrite, OnCRead, Handle, Types, ThreadTypes
    <3> QED
      BY <3>1, <3>2, NamesAssumption DEF Writes
  <2>8. ASSUME NEW t \in Threads, OnClose(t) \/ OnConnect(t) \/ OnCReadError(t) \/ OnCWriteError(t)
               \/ \E s1 \in Sessions : OnAborted(t, s1)
        PROVE  UNCHANGED threads
    BY <2>8 DEF OnClose, OnConnect, OnCReadError, OnCWriteError, OnAborted
  <2>9. CASE UNCHANGED vars \/ Close \/ (\E m \in OwnMsgs : Type(m))
    BY <2>2, <2>9 DEF vars, Close, Type
  <2>10. ASSUME NEW t \in Threads, Step(t) \/ (\E s1 \in Sessions : OnAccept(t, s1) \/ OnReadError(t, s1)
                 \/ OnWrite(t, s1) \/ OnWriteError(t, s1) \/ \E m \in Arriving : OnRead(t, s1, m))
                 \/ OnPost(t) \/ OnCWrite(t) \/ \E m \in Arriving : OnCRead(t, m)
         PROVE  Moved(t)
    BY <2>10, TakesMove, StepMoves
  <2> QED
    BY <2>2, <2>3, <2>4, <2>5, <2>6, <2>7, <2>8, <2>9, <2>10 DEF Next, Takes, WriteEnds, CWriteEnds
<1> QED
  BY <1>3, <1>4, <1>5, <1>6 DEF Alone, Unknown

\* The same for the client: a step of a thread that is at no write of it.
LEMMA CQuiet ==
    ASSUME OneCWrite, NEW t \in Threads, Moved(t), ~CWrites(t), ~CWrites(t)',
           UNCHANGED <<cpending, cwbuff, cwriting>>, conn = "closed" => conn' = "closed"
    PROVE  OneCWrite'
<1>1. \A u \in Threads : CWrites(u)' <=> CWrites(u)
  BY DEF Moved, Others, CWrites
<1> QED
  BY <1>1 DEF OneCWrite, CBusy

\* Every step keeps the client to one write at a time (client.h:30-47, 95-117).
LEMMA OneCWriteNext ==
    ASSUME Types, OneCWrite, [Next]_vars PROVE OneCWrite'
<1>1. CASE crashed' # crashed \/ crashed
  BY <1>1, CrashStays DEF client, threads, OneCWrite, CWrites, CBusy
<1> SUFFICES ASSUME ~crashed' PROVE OneCWrite'
  BY <1>1 DEF Types, InputTypes
<1>2. CASE UNCHANGED <<cpending, cwbuff, cwriting, threads>> /\ (conn = "closed" => conn' = "closed")
  BY <1>2 DEF threads, OneCWrite, CWrites, CBusy
<1>3. ASSUME NEW t \in Threads, Push(t) PROVE OneCWrite'
  <2>1. /\ pc[t] = "push" /\ cpending' = Append(cpending, msg[t]) /\ UNCHANGED <<cwriting, conn>>
        /\ cpending \in Seq(Live) /\ msg[t] \in Live
    BY <1>3 DEF Push, At, Types, ClientTypes, Control
  <2>2. Moved(t) /\ ~CWrites(t) /\ \A u \in Threads \ {t} : CWrites(u)' <=> CWrites(u)
    BY <1>3, <2>1, ClientMoves DEF Moved, Others, CWrites
  <2>3. cpending' # <<>> /\ (cpending # <<>> => Head(cpending') = Head(cpending))
    BY <2>1
  <2>4. CASE cpending = <<>>
    <3>1. cwbuff' = msg[t] /\ CWrites(t)'
      BY <1>3, <2>4 DEF Push, Handle, Goto, CWrites, Types, ThreadTypes
    <3>2. Head(cpending') = msg[t]
      BY <2>1, <2>4
    <3> QED
      BY <2>1, <2>2, <2>3, <2>4, <3>1, <3>2 DEF OneCWrite, CBusy
  <2>5. CASE cpending # <<>>
    <3>1. cwbuff' = cwbuff /\ ~CWrites(t)'
      BY <1>3, <2>5, EndIs DEF Push, CWrites
    <3> QED
      BY <2>1, <2>2, <2>3, <2>5, <3>1 DEF OneCWrite, CBusy
  <2> QED
    BY <2>4, <2>5
<1>4. ASSUME NEW t \in Threads, CWritten(t) PROVE OneCWrite'
  <2>1. /\ pc[t] = "cwritten" /\ cpending' = Tail(cpending) /\ UNCHANGED <<cwriting, conn>>
        /\ cpending \in Seq(Live) /\ CWrites(t)
    BY <1>4 DEF CWritten, At, Types, ClientTypes, CWrites
  <2>2. ~cwriting /\ cpending # <<>> /\ \A u \in Threads \ {t} : ~CWrites(u)
    BY <2>1 DEF OneCWrite, CBusy
  <2>3. \A u \in Threads \ {t} : ~CWrites(u)'
    BY <1>4, <2>2, ClientMoves DEF Moved, Others, CWrites
  <2>4. CASE Len(cpending) > 1
    <3>1. cwbuff' = cpending[2] /\ CWrites(t)'
      BY <1>4, <2>4 DEF CWritten, Handle, Goto, CWrites, Types, ThreadTypes
    <3>2. cpending' # <<>> /\ cwbuff' = Head(cpending')
      BY <2>1, <2>4, <3>1, SecondIs
    <3> QED
      BY <2>1, <2>2, <2>3, <3>1, <3>2 DEF OneCWrite, CBusy
  <2>5. CASE ~(Len(cpending) > 1)
    <3>1. cpending' = <<>>
      BY <2>1, <2>2, <2>5
    <3>2. ~CWrites(t)'
      BY <1>4, <2>5, EndIs DEF CWritten, CWrites
    <3> QED
      BY <2>1, <2>2, <2>3, <3>1, <3>2 DEF OneCWrite, CBusy
  <2> QED
    BY <2>4, <2>5
<1>5. ASSUME NEW t \in Threads, CDoWrite(t) PROVE OneCWrite'
  <2>1. CWrites(t) /\ cwriting' = TRUE /\ UNCHANGED <<cpending, cwbuff, conn>> /\ End(t)
    BY <1>5 DEF CDoWrite, At, CWrites
  <2>2. \A u \in Threads : ~CWrites(u)'
    BY <2>1, EndIs DEF OneCWrite, Moved, Others, CWrites
  <2> QED
    BY <2>1, <2>2 DEF OneCWrite, CBusy
<1>6. ASSUME NEW t \in Threads, OnCWrite(t) PROVE OneCWrite'
  <2>1. cwriting /\ cwriting' = FALSE /\ UNCHANGED <<cpending, cwbuff, conn>>
    BY <1>6 DEF OnCWrite
  <2>2. \A u \in Threads \ {t} : ~CWrites(u)'
    BY <1>6, <2>1, TakesMove DEF OneCWrite, Moved, Others, CWrites
  <2>3. CWrites(t)'
    BY <1>6, TakesMove DEF CWrites
  <2> QED
    BY <2>1, <2>2, <2>3 DEF OneCWrite, CBusy
<1>7. ASSUME NEW t \in Threads, OnCWriteError(t) PROVE OneCWrite'
  <2>1. cwriting /\ cwriting' = FALSE /\ UNCHANGED <<cpending, cwbuff, threads>> /\ conn' = "closed"
    BY <1>7 DEF OnCWriteError
  <2> QED
    BY <2>1 DEF threads, OneCWrite, CBusy, CWrites
<1>8. ASSUME NEW t \in Threads, OnClose(t) \/ OnConnect(t) \/ OnCReadError(t) \/ \E s \in Sessions : OnAborted(t, s)
      PROVE  OneCWrite'
  BY <1>2, <1>8 DEF OnClose, OnConnect, OnCReadError, OnAborted, client
<1>9. CASE UNCHANGED vars \/ Close \/ (\E m \in OwnMsgs : Type(m))
  BY <1>2, <1>9 DEF vars, Close, Type, client
<1>10. ASSUME NEW t \in Threads,
              \/ OnPost(t) \/ \E m \in Arriving : OnCRead(t, m)
              \/ \E s \in Sessions : \/ OnAccept(t, s) \/ OnReadError(t, s) \/ OnWrite(t, s) \/ OnWriteError(t, s)
                                     \/ \E m \in Arriving : OnRead(t, s, m)
       PROVE  OneCWrite'
  <2>1. Moved(t) /\ pc'[t] \in {"lock", "cread", "join", "leave", "written", "check"}
    BY <1>10, TakesMove
  <2>2. pc[t] = "idle" /\ UNCHANGED <<cpending, cwbuff, cwriting, conn>>
    BY <1>10 DEF OnPost, OnCRead, OnAccept, OnReadError, OnWrite, OnWriteError, OnRead, Idle, At, client
  <2> QED
    BY <2>1, <2>2, CQuiet DEF CWrites
<1>11. ASSUME NEW t \in Threads, Step(t), ~Push(t), ~CWritten(t), ~CDoWrite(t) PROVE OneCWrite'
  <2>1. UNCHANGED <<cpending, cwbuff, cwriting, conn>> /\ pc[t] \notin {"cwrite", "cwritten"}
    BY <1>11 DEF Step, Check, Fan, Using, Post, Recent, Join, Replay, JoinEnd, Run, Again, DoWrite,
                 Written, Leave, Lock, CRead, CAgain, At, client
  <2>2. pc'[t] \notin {"cwrite", "cwritten"}
    <3>1. CASE Run(t) \/ Again(t) \/ CAgain(t)
      <4>1. End(t)
        BY <3>1 DEF Run, Again, CAgain, Using
      <4> QED
        BY <4>1, EndIs
    <3>2. CASE CRead(t) \/ Check(t) \/ Post(t) \/ Recent(t) \/ JoinEnd(t) \/ Lock(t) \/ Replay(t) \/ Join(t)
      BY <3>2, ClientMoves, CheckMoves, PlainMoves, ReplayMoves, JoinMoves
    <3>3. CASE Leave(t) \/ DoWrite(t) \/ Written(t)
      BY <3>3, LeaveMoves, DoWriteMoves, WrittenMoves DEF Types, ThreadTypes
    <3>4. ASSUME NEW s \in Sessions, Fan(t, s) PROVE pc'[t] \notin {"cwrite", "cwritten"}
      <4>1. state[s] # "freed"
        BY <3>4 DEF Fan, Using
      <4> QED
        BY <3>4, <4>1, FanMoves
    <3> QED
      BY <1>11, <3>1, <3>2, <3>3, <3>4 DEF Step
  <2> QED
    BY <1>11, <2>1, <2>2, StepMoves, CQuiet DEF CWrites
<1> QED
  BY <1>3, <1>4, <1>5, <1>6, <1>7, <1>8, <1>9, <1>10, <1>11 DEF Next, Takes, WriteEnds, CWriteEnds

-----------------------------------------------------------------------------
(* The first invariant *)

\* Every step keeps every session to one write at a time.
LEMMA SendsNext ==
    ASSUME Types, Types', OneAccept, Sends, [Next]_vars PROVE Sends'
<1>1. CASE crashed' # crashed \/ crashed
  BY <1>1, CrashStays DEF group, sessions, threads, Sends, OneWrite, Busy, Writes, Leaves, Outside, Unknown
<1> SUFFICES ASSUME ~crashed', NEW s \in Sessions PROVE OneWrite(s)' /\ (Outside(s)' => Unknown(s)')
  BY <1>1 DEF Sends, Types, InputTypes
<1>2. OneWrite(s) /\ (Outside(s) => Unknown(s))
  BY DEF Sends
<1>3. OneWrite(s)'
  BY <1>2, SenderKeeps, TakerKeeps
<1>4. Outside(s)' => Unknown(s)'
  BY <1>2, NotInside, UnknownKeeps
<1> QED
  BY <1>3, <1>4

WInv == Types /\ Sends /\ OneCWrite /\ OneAccept

\* The invariant holds at the beginning.
LEMMA WInvInit == Init => WInv
<1> SUFFICES ASSUME Init PROVE WInv
  OBVIOUS
<1>1. Sends
  <2> SUFFICES ASSUME NEW s \in Sessions PROVE OneWrite(s) /\ Unknown(s)
    BY DEF Sends
  <2>1. \A t \in Threads : pc[t] = "idle" /\ on[t] = None /\ left[t] = {}
    BY DEF Init
  <2>2. pending[s] = <<>> /\ out[s] = <<>> /\ ~writing[s] /\ ~reading[s] /\ s \notin members
    BY DEF Init
  <2>3. \A t \in Threads : ~Writes(t, s) /\ on[t] # s
    BY <2>1, NamesAssumption DEF Writes
  <2> QED
    BY <2>1, <2>2, <2>3 DEF OneWrite, Busy, Unknown
<1>2. OneCWrite /\ OneAccept
  BY DEF Init, OneCWrite, CBusy, CWrites, OneAccept, Accepts
<1> QED
  BY <1>1, <1>2, TypesInit DEF WInv

\* The invariant is inductive.
LEMMA WInvNext == WInv /\ [Next]_vars => WInv'
  BY TypesNext, SendsNext, OneCWriteNext, OneAcceptNext DEF WInv

\* A set without two different elements.
LEMMA AtMostOne ==
    ASSUME NEW S, \A x, y \in S : x = y
    PROVE  Cardinality(S) =< 1 /\ Cardinality(S) \in Nat /\ (S = {} => Cardinality(S) = 0)
<1>1. CASE S = {}
  BY <1>1, FS_EmptySet
<1>2. CASE S # {}
  <2>1. PICK x : S = {x}
    BY <1>2
  <2>2. Cardinality({x}) = 1
    BY FS_Singleton
  <2> QED
    BY <1>2, <2>1, <2>2
<1> QED
  BY <1>1, <1>2

\* send and on_write release the mutex before do_write, and pending alone tells that a write is in
\* progress (server.h:31-44, 72-83; client.h the same): no two writes of a connection are ever in
\* progress, there is one whenever something is pending, and wbuff is what is first.
THEOREM OneWriteEach == Spec => []OneWriteAtATime
<1>1. ASSUME WInv PROVE OneWriteAtATime
  <2>1. ASSUME NEW s \in Sessions
        PROVE  /\ Cardinality(Writers(s)) + (IF writing[s] THEN 1 ELSE 0) =< 1
               /\ (writing[s] \/ Writers(s) # {}) => pending[s] # <<>> /\ wbuff[s] = Head(pending[s])
               /\ pending[s] # <<>> => writing[s] \/ Writers(s) # {} \/ Failing(s)
    <3>1. OneWrite(s)
      BY <1>1 DEF WInv, Sends
    <3>2. Writers(s) = {t \in Threads : Writes(t, s)}
      BY DEF Writers, Writes
    <3>3. \A x, y \in Writers(s) : x = y
      BY <3>1, <3>2 DEF OneWrite
    <3>4. writing[s] => Writers(s) = {}
      BY <3>1, <3>2 DEF OneWrite
    <3>5. Cardinality(Writers(s)) + (IF writing[s] THEN 1 ELSE 0) =< 1
      BY <3>3, <3>4, AtMostOne
    <3>6. Writers(s) # {} <=> \E t \in Threads : Writes(t, s)
      BY <3>2
    <3> QED
      BY <3>1, <3>5, <3>6 DEF OneWrite, Busy, Failing, Leaves
  <2>2. OneCWrite
    BY <1>1 DEF WInv
  <2>3. CWriters = {t \in Threads : CWrites(t)}
    BY DEF CWriters, CWrites
  <2>4. (\A x, y \in CWriters : x = y) /\ (cwriting => CWriters = {})
    BY <2>2, <2>3 DEF OneCWrite
  <2>5. Cardinality(CWriters) + (IF cwriting THEN 1 ELSE 0) =< 1
    BY <2>4, AtMostOne
  <2>6. CWriters # {} <=> \E t \in Threads : CWrites(t)
    BY <2>3
  <2> QED
    BY <2>1, <2>2, <2>5, <2>6 DEF OneWriteAtATime, OneCWrite, CBusy
<1> QED
  BY <1>1, WInvInit, WInvNext, PTL DEF Spec

-----------------------------------------------------------------------------
(* A session is a queue *)

\* Sequences: the tail of what was appended to.
LEMMA TailOfAppend ==
    ASSUME NEW S, NEW q \in Seq(S), q # <<>>, NEW m \in S
    PROVE  Tail(Append(q, m)) = Append(Tail(q), m)
  OBVIOUS

\* Sequences: the head of the second moves to the end of the first.
LEMMA HeadMoves ==
    ASSUME NEW S, NEW p \in Seq(S), NEW q \in Seq(S), q # <<>>
    PROVE  Append(p, Head(q)) \o Tail(q) = p \o q
  OBVIOUS

\* Sequences: to append to the second is to append to the two.
LEMMA AppendAfter ==
    ASSUME NEW S, NEW p \in Seq(S), NEW q \in Seq(S), NEW m \in S
    PROVE  p \o Append(q, m) = Append(p \o q, m)
  OBVIOUS

\* A sequence is a prefix of itself.
LEMMA Same == ASSUME NEW S, NEW q \in Seq(S) PROVE IsPrefix(q, q)
  BY DEF IsPrefix

\* A sequence is a prefix of itself with one more.
LEMMA Longer ==
    ASSUME NEW S, NEW q \in Seq(S), NEW m \in S
    PROVE  IsPrefix(q, Append(q, m))
<1>1. Len(q) \in Nat /\ Len(Append(q, m)) = Len(q) + 1
  OBVIOUS
<1>2. SubSeq(q, 1, Len(q)) = SubSeq(Append(q, m), 1, Len(q))
  OBVIOUS
<1> QED
  BY <1>1, <1>2 DEF IsPrefix

\* The thread is at the end of a write of the session; what of pending was not sent.
Ends(t, s) == pc[t] = "written" /\ on[t] = s
Waits(s)   == IF \E t \in Threads : Ends(t, s) THEN Tail(pending[s]) ELSE pending[s]

\* What a session was given is what its peer got, and then what waits.
LEMMA GivenIs ==
    ASSUME Types, NEW s \in Sessions, OneWrite(s)
    PROVE  /\ Given(s) = out[s] \o Waits(s) /\ Given(s) \in Seq(Live)
           /\ out[s] \in Seq(Live) /\ pending[s] \in Seq(Live) /\ Waits(s) \in Seq(Live)
           /\ (\E t \in Threads : Ends(t, s)) => pending[s] # <<>>
<1>1. Given(s) = out[s] \o Waits(s)
  BY DEF Given, Waits, Ends
<1>2. out[s] \in Seq(Live) /\ pending[s] \in Seq(Live)
  BY DEF Types, SessionTypes
<1>3. (\E t \in Threads : Ends(t, s)) => pending[s] # <<>>
  BY DEF OneWrite, Busy, Writes, Ends
<1>4. Waits(s) \in Seq(Live)
  BY <1>2, <1>3 DEF Waits
<1> QED
  BY <1>1, <1>2, <1>3, <1>4

\* It is the same after a step of a thread that is not at the end of its write.
LEMMA GivenStays ==
    ASSUME Types, NEW s \in Sessions, NEW t \in Threads, Moved(t), ~Ends(t, s), ~Ends(t, s)',
           pending'[s] = pending[s], out'[s] = out[s]
    PROVE  Given(s)' = Given(s)
<1>1. (\E u \in Threads : Ends(u, s))' <=> \E u \in Threads : Ends(u, s)
  BY DEF Moved, Others, Ends
<1> QED
  BY <1>1 DEF Given, Ends

\* Session::send puts the message behind what the session was given before.
LEMMA GivenGrows ==
    ASSUME Types, NEW t \in Threads, NEW s \in Sessions, OneWrite(s), NEW m \in Live,
           NEW l \in {"fan", "replay"}, SendTo(t, s, m, l), pc[t] = l, Moved(t), UNCHANGED out
    PROVE  Given(s)' = Append(Given(s), m)
<1>1. ~Ends(t, s) /\ ~Ends(t, s)'
  BY SendToIs DEF Ends
<1>2. (\E u \in Threads : Ends(u, s))' <=> \E u \in Threads : Ends(u, s)
  BY <1>1 DEF Moved, Others, Ends
<1>3. pending'[s] = Append(pending[s], m)
  BY DEF SendTo, Types, SessionTypes
<1>4. Waits(s)' = Append(Waits(s), m)
  <2>1. CASE \E u \in Threads : Ends(u, s)
    <3>1. Waits(s)' = Tail(pending'[s]) /\ Waits(s) = Tail(pending[s])
      BY <1>2, <2>1 DEF Waits
    <3> QED
      BY <1>3, <2>1, <3>1, GivenIs, TailOfAppend
  <2>2. CASE ~\E u \in Threads : Ends(u, s)
    BY <1>2, <1>3, <2>2 DEF Waits
  <2> QED
    BY <2>1, <2>2
<1>5. Given(s)' = out'[s] \o Waits(s)'
  BY DEF Given, Waits, Ends
<1> QED
  <2> DEFINE p == out[s]
             q == Waits(s)
  <2>1. Given(s) = p \o q /\ p \in Seq(Live) /\ q \in Seq(Live)
    BY GivenIs
  <2>2. Given(s)' = p \o Append(q, m)
    BY <1>4, <1>5
  <2> HIDE DEF p, q
  <2> QED
    BY <2>1, <2>2, AppendAfter

\* The session is given the message m by the thread t.
Sent(t, s, m) == \/ /\ pc[t] = "fan" /\ s \in left[t] /\ left'[t] = left[t] \ {s}
                    /\ m = Fewer(msg[t]) /\ UNCHANGED rest
                 \/ /\ pc[t] = "replay" /\ on[t] = s /\ rest[t] # <<>> /\ rest'[t] = Tail(rest[t])
                    /\ m = Head(rest[t]) /\ UNCHANGED left

\* A step of a handler gives a session nothing, or one message, behind the others: from the loop of
\* broadcast (group.h:71) or from that of join (group.h:46).
LEMMA StepGives ==
    ASSUME Types, NEW s \in Sessions, OneWrite(s), NEW t \in Threads, Step(t), ~crashed'
    PROVE  Given(s)' = Given(s) \/ \E m \in Live : Given(s)' = Append(Given(s), m) /\ Sent(t, s, m)
<1>1. ASSUME NEW s1 \in Sessions, Fan(t, s1)
      PROVE  Given(s)' = Given(s) \/ \E m \in Live : Given(s)' = Append(Given(s), m) /\ Sent(t, s, m)
  <2>1. /\ SendTo(t, s1, Fewer(msg[t]), "fan") /\ UNCHANGED <<out, rest>> /\ pc[t] = "fan"
        /\ state[s1] # "freed" /\ s1 \in left[t] /\ left' = [left EXCEPT ![t] = @ \ {s1}]
    BY <1>1 DEF Fan, Using, At
  <2>2. Moved(t) /\ pc'[t] # "written"
    BY <1>1, <2>1, FanMoves
  <2>3. Fewer(msg[t]) \in Live
    BY <2>1, FewerIs DEF Types, Control, Fans, Messages
  <2>4. CASE s = s1
    <3>1. Given(s)' = Append(Given(s), Fewer(msg[t]))
      BY <2>1, <2>2, <2>3, <2>4, GivenGrows
    <3>2. left'[t] = left[t] \ {s1}
      BY <2>1 DEF Types, ThreadTypes
    <3> QED
      BY <2>1, <2>3, <2>4, <3>1, <3>2 DEF Sent
  <2>5. CASE s # s1
    <3>1. pending'[s] = pending[s]
      BY <2>1, <2>5 DEF SendTo, Types, SessionTypes
    <3>2. ~Ends(t, s) /\ ~Ends(t, s)'
      BY <2>1, <2>2 DEF Ends
    <3> QED
      BY <2>1, <2>2, <3>1, <3>2, GivenStays
  <2> QED
    BY <2>4, <2>5
<1>2. CASE Replay(t)
  <2>1. /\ SendTo(t, on[t], Head(rest[t]), "replay") /\ UNCHANGED <<out, left>> /\ pc[t] = "replay"
        /\ on[t] \in Sessions /\ rest[t] \in Seq(Live) /\ rest[t] # <<>>
    BY <1>2 DEF Replay, At, Types, Control, ThreadTypes
  <2>2. Moved(t) /\ pc'[t] # "written" /\ rest'[t] = Tail(rest[t])
    BY <1>2, ReplayMoves
  <2>3. Head(rest[t]) \in Live
    BY <2>1
  <2>4. CASE s = on[t]
    <3>1. Given(s)' = Append(Given(s), Head(rest[t]))
      BY <2>1, <2>2, <2>3, <2>4, GivenGrows
    <3> QED
      BY <2>1, <2>2, <2>3, <2>4, <3>1 DEF Sent
  <2>5. CASE s # on[t]
    <3>1. pending'[s] = pending[s]
      BY <2>1, <2>5 DEF SendTo, Types, SessionTypes
    <3>2. ~Ends(t, s) /\ ~Ends(t, s)'
      BY <2>1, <2>2 DEF Ends
    <3> QED
      BY <2>1, <2>2, <3>1, <3>2, GivenStays
  <2> QED
    BY <2>4, <2>5
<1>3. CASE Written(t)
  <2>1. /\ on[t] \in Sessions /\ pc[t] = "written" /\ UNCHANGED out
        /\ pending' = [pending EXCEPT ![on[t]] = Tail(@)]
    BY <1>3 DEF Written, Using, At, Types, Control
  <2>2. Moved(t) /\ pc'[t] # "written"
    BY <1>3, WrittenMoves
  <2>3. CASE s = on[t]
    <3>1. Ends(t, s) /\ \A u \in Threads : Writes(u, s) => u = t
      BY <2>1, <2>3 DEF OneWrite, Writes, Ends
    <3>2. \A u \in Threads : ~Ends(u, s)'
      BY <2>2, <3>1 DEF Moved, Others, Writes, Ends
    <3>3. pending'[s] = Tail(pending[s])
      BY <2>1, <2>3 DEF Types, SessionTypes
    <3>4. Given(s)' = out'[s] \o Tail(pending[s]) /\ Given(s) = out[s] \o Tail(pending[s])
      BY <3>1, <3>2, <3>3 DEF Given, Ends
    <3> QED
      BY <2>1, <3>4
  <2>4. CASE s # on[t]
    <3>1. pending'[s] = pending[s]
      BY <2>1, <2>4 DEF Types, SessionTypes
    <3>2. ~Ends(t, s) /\ ~Ends(t, s)'
      BY <2>2, <2>4 DEF Ends
    <3> QED
      BY <2>1, <2>2, <3>1, <3>2, GivenStays
  <2> QED
    BY <2>3, <2>4
<1>4. ASSUME ~Replay(t), ~Written(t), \A s1 \in Sessions : ~Fan(t, s1) PROVE Given(s)' = Given(s)
  <2>1. pc[t] # "written" /\ UNCHANGED <<pending, out>>
    BY <1>4 DEF Step, Check, Post, Recent, Join, JoinEnd, Lock, Push, CWritten, CRead, Run, Again,
                CDoWrite, CAgain, DoWrite, Leave, Using, At, sessions
  <2>2. Moved(t) /\ pc'[t] # "written"
    <3>1. CASE Run(t) \/ Again(t) \/ CDoWrite(t) \/ CAgain(t)
      <4>1. End(t)
        BY <3>1 DEF Run, Again, CDoWrite, CAgain, Using
      <4> QED
        BY <4>1, EndIs
    <3>2. CASE Push(t) \/ CWritten(t) \/ CRead(t)
      BY <3>2, ClientMoves
    <3>3. CASE Check(t) \/ Post(t) \/ Recent(t) \/ JoinEnd(t) \/ Lock(t)
      BY <3>3, CheckMoves, PlainMoves
    <3>4. CASE Join(t) \/ Leave(t)
      BY <3>4, JoinMoves, LeaveMoves
    <3>5. CASE DoWrite(t)
      BY <3>5, DoWriteMoves DEF Types, ThreadTypes
    <3> QED
      BY <1>4, <3>1, <3>2, <3>3, <3>4, <3>5 DEF Step
  <2>3. ~Ends(t, s) /\ ~Ends(t, s)'
    BY <2>1, <2>2 DEF Ends
  <2> QED
    BY <2>1, <2>2, <2>3, GivenStays
<1> QED
  BY <1>1, <1>2, <1>3, <1>4

\* The taking of a handler gives a session nothing: on_write moves the message from pending to out.
LEMMA OthersGive ==
    ASSUME Types, NEW s \in Sessions, OneWrite(s), [Next]_vars, \A t \in Threads : ~Step(t)
    PROVE  Given(s)' = Given(s)
<1>1. CASE UNCHANGED <<pending, out, threads>>
  BY <1>1 DEF threads, Given
<1>2. ASSUME NEW t \in Threads, NEW s1 \in Sessions, OnWrite(t, s1) PROVE Given(s)' = Given(s)
  <2>1. /\ pc[t] = "idle" /\ writing[s1] /\ UNCHANGED pending
        /\ out' = [out EXCEPT ![s1] = Append(@, wbuff[s1])]
    BY <1>2 DEF OnWrite, Idle, At
  <2>2. Moved(t) /\ pc'[t] = "written" /\ on'[t] = s1
    BY <1>2, TakesMove
  <2>3. CASE s = s1
    <3>1. /\ \A u \in Threads : ~Writes(u, s)
          /\ pending[s] # <<>> /\ wbuff[s] = Head(pending[s])
      BY <2>1, <2>3 DEF OneWrite, Busy
    <3>2. \A u \in Threads : ~Ends(u, s)
      BY <3>1 DEF Writes, Ends
    <3>3. Ends(t, s)'
      BY <2>2, <2>3 DEF Ends
    <3>4. Given(s) = out[s] \o pending[s] /\ Given(s)' = out'[s] \o Tail(pending'[s])
      BY <3>2, <3>3 DEF Given, Ends
    <3>5. out'[s] = Append(out[s], Head(pending[s])) /\ pending'[s] = pending[s]
      BY <2>1, <2>3, <3>1 DEF Types, SessionTypes
    <3> QED
      BY <3>1, <3>4, <3>5, GivenIs, HeadMoves
  <2>4. CASE s # s1
    <3>1. out'[s] = out[s]
      BY <2>1, <2>4 DEF Types, SessionTypes
    <3>2. ~Ends(t, s) /\ ~Ends(t, s)'
      BY <2>1, <2>2, <2>4 DEF Ends
    <3> QED
      BY <2>1, <2>2, <3>1, <3>2, GivenStays
  <2> QED
    BY <2>3, <2>4
<1>3. ASSUME NEW t \in Threads,
             \/ OnPost(t) \/ OnCWrite(t) \/ \E m \in Arriving : OnCRead(t, m)
             \/ \E s1 \in Sessions : \/ OnAccept(t, s1) \/ OnReadError(t, s1) \/ OnWriteError(t, s1)
                                     \/ \E m \in Arriving : OnRead(t, s1, m)
      PROVE  Given(s)' = Given(s)
  <2>1. pc[t] = "idle" /\ UNCHANGED <<pending, out>>
    BY <1>3 DEF OnPost, OnCWrite, OnCRead, OnAccept, OnReadError, OnWriteError, OnRead, Idle, At, sessions
  <2>2. Moved(t) /\ pc'[t] # "written"
    BY <1>3, TakesMove
  <2>3. ~Ends(t, s) /\ ~Ends(t, s)'
    BY <2>1, <2>2 DEF Ends
  <2> QED
    BY <2>1, <2>2, <2>3, GivenStays
<1>4. ASSUME NEW t \in Threads, OnClose(t) \/ OnConnect(t) \/ OnCReadError(t) \/ OnCWriteError(t)
             \/ \E s1 \in Sessions : OnAborted(t, s1)
      PROVE  Given(s)' = Given(s)
  BY <1>1, <1>4 DEF OnClose, OnConnect, OnCReadError, OnCWriteError, OnAborted, sessions
<1>5. CASE UNCHANGED vars \/ Close \/ (\E m \in OwnMsgs : Type(m))
  BY <1>1, <1>5 DEF vars, Close, Type, sessions
<1> QED
  BY <1>2, <1>3, <1>4, <1>5 DEF Next, Takes, WriteEnds, CWriteEnds

\* Whichever threads call send of a session, and however its writes end, nothing that it was given is
\* lost, sent twice or overtaken (server.h:31-44, 72-83).
THEOREM EachIsFifo == Spec => SessionIsFifo
<1>1. WInv /\ [Next]_vars => [\A s \in Sessions : IsPrefix(Given(s), Given(s)')]_vars
  <2> SUFFICES ASSUME WInv, [Next]_vars, NEW s \in Sessions PROVE IsPrefix(Given(s), Given(s)')
    OBVIOUS
  <2>1. Types /\ OneWrite(s)
    BY DEF WInv, Sends
  <2>2. Given(s) \in Seq(Live)
    BY <2>1, GivenIs
  <2>3. Given(s)' = Given(s) \/ \E m \in Live : Given(s)' = Append(Given(s), m)
    <3>1. CASE crashed' # crashed \/ crashed
      BY <3>1, CrashStays DEF sessions, threads, Given
    <3>2. CASE ~crashed'
      BY <2>1, <3>2, StepGives, OthersGive
    <3> QED
      BY <2>1, <3>1, <3>2 DEF Types, InputTypes
  <2>4. CASE Given(s)' = Given(s)
    BY <2>2, <2>4, Same
  <2>5. ASSUME NEW m \in Live, Given(s)' = Append(Given(s), m) PROVE IsPrefix(Given(s), Given(s)')
    BY <2>2, <2>5, Longer
  <2> QED
    BY <2>3, <2>4, <2>5
<1> QED
  BY <1>1, WInvInit, WInvNext, PTL DEF Spec, SessionIsFifo

-----------------------------------------------------------------------------
(* Lists without a second copy of a message *)

Distinct(list) == \A j, k \in 1..Len(list) : list[j].id = list[k].id => j = k

\* A list with one more message has that message, and no second copy of it if it had none.
LEMMA HasAppend ==
    ASSUME NEW S, NEW q \in Seq(S), NEW m \in S, NEW id
    PROVE  /\ Has(Append(q, m), id) <=> Has(q, id) \/ m.id = id
           /\ Distinct(q) /\ ~Has(q, m.id) => Distinct(Append(q, m))
<1> DEFINE r == Append(q, m)
<1>1. Len(r) = Len(q) + 1 /\ Len(q) \in Nat /\ r[Len(q) + 1] = m /\ \A k \in 1..Len(q) : r[k] = q[k]
  OBVIOUS
<1>2. \A k : k \in 1..Len(r) <=> k \in 1..Len(q) \/ k = Len(q) + 1
  BY <1>1
<1> HIDE DEF r
<1>3. Has(r, id) <=> Has(q, id) \/ m.id = id
  BY <1>1, <1>2 DEF Has
<1>4. Distinct(q) /\ ~Has(q, m.id) => Distinct(r)
  BY <1>1, <1>2 DEF Has, Distinct
<1> QED
  BY <1>3, <1>4 DEF r

\* A list without a second copy has none of its first message behind it.
LEMMA HasTail ==
    ASSUME NEW S, NEW q \in Seq(S), q # <<>>, NEW id
    PROVE  /\ Has(q, id) <=> Has(Tail(q), id) \/ Head(q).id = id
           /\ Distinct(q) => Distinct(Tail(q)) /\ ~Has(Tail(q), Head(q).id)
<1> DEFINE r == Tail(q)
<1>1. /\ Len(r) = Len(q) - 1 /\ Len(q) \in Nat \ {0} /\ Head(q) = q[1]
      /\ \A k \in 1..Len(r) : r[k] = q[k + 1]
  BY HeadTailProperties
<1>2. \A k \in 1..Len(r) : k + 1 \in 1..Len(q) /\ k + 1 # 1
  BY <1>1
<1>3. 1 \in 1..Len(q) /\ \A k \in 1..Len(q) : k = 1 \/ (k - 1 \in 1..Len(r) /\ r[k - 1] = q[k])
  BY <1>1
<1> HIDE DEF r
<1>4. Has(q, id) <=> Has(r, id) \/ Head(q).id = id
  BY <1>1, <1>2, <1>3 DEF Has
<1>5. ASSUME Distinct(q) PROVE Distinct(r) /\ ~Has(r, Head(q).id)
  <2>1. ~Has(r, Head(q).id)
    BY <1>1, <1>2, <1>3, <1>5 DEF Has, Distinct
  <2>2. ASSUME NEW j \in 1..Len(r), NEW k \in 1..Len(r), r[j].id = r[k].id PROVE j = k
    <3>1. j + 1 = k + 1
      BY <1>1, <1>2, <1>5, <2>2 DEF Distinct
    <3> QED
      BY <1>1, <3>1
  <2> QED
    BY <2>1, <2>2 DEF Distinct
<1> QED
  BY <1>4, <1>5 DEF r

\* push_back and pop_front bring in the new message only (group.h:76-79; message.h, MessageCache::add).
LEMMA HasKeep ==
    ASSUME NEW q \in Seq(Live), NEW m \in Live, NEW max \in Nat, NEW id
    PROVE  /\ Has(Keep(q, m, max), id) => Has(q, id) \/ m.id = id
           /\ Distinct(q) /\ ~Has(q, m.id) => Distinct(Keep(q, m, max))
           /\ Len(q) < max => Keep(q, m, max) = Append(q, m)
<1> DEFINE l == Append(q, m)
           r == Keep(q, m, max)
           n == Len(l) - max
<1>1. l \in Seq(Live) /\ Len(l) \in Nat /\ Len(l) = Len(q) + 1 /\ Len(q) \in Nat
  OBVIOUS
<1>2. (Has(l, id) <=> Has(q, id) \/ m.id = id) /\ (Distinct(q) /\ ~Has(q, m.id) => Distinct(l))
  BY HasAppend
<1>3. CASE Len(l) > max
  <2>1. r = SubSeq(l, n + 1, Len(l))
    BY <1>3 DEF Keep
  <2>2. n \in Nat /\ Len(l) = n + max
    BY <1>1, <1>3
  <2> HIDE DEF l, r, n
  <2>3. Len(r) = max /\ \A k \in 1..Len(r) : r[k] = l[n + k]
    <3>1. n + 1 \in 1..Len(l) + 1 /\ Len(l) \in n + 1 - 1..Len(l) /\ Len(l) - (n + 1) + 1 = max
      BY <1>1, <2>2
    <3>2. Len(r) = max /\ \A k \in 1..max : r[k] = l[n + 1 + k - 1]
      BY <1>1, <2>1, <3>1, SubSeqProperties
    <3> QED
      BY <2>2, <3>2
  <2>4. \A k \in 1..Len(r) : n + k \in 1..Len(l)
    BY <1>1, <2>2, <2>3
  <2>5. Has(r, id) => Has(l, id)
    BY <2>3, <2>4 DEF Has
  <2>6. ASSUME Distinct(l), NEW j \in 1..Len(r), NEW k \in 1..Len(r), r[j].id = r[k].id PROVE j = k
    <3>1. n + j = n + k
      BY <2>3, <2>4, <2>6 DEF Distinct
    <3> QED
      BY <2>2, <2>3, <3>1
  <2>7. Distinct(l) => Distinct(r)
    BY <2>6 DEF Distinct
  <2> QED
    BY <1>1, <1>2, <1>3, <2>5, <2>7 DEF r
<1>4. CASE ~(Len(l) > max)
  <2>1. Keep(q, m, max) = l
    BY <1>4 DEF Keep
  <2> HIDE DEF l
  <2> QED
    BY <1>2, <2>1 DEF l
<1> QED
  BY <1>3, <1>4

\* A list without a second copy is no longer than there are messages to have one of.
LEMMA FewEnough ==
    ASSUME NEW S, IsFiniteSet(S), NEW q \in Seq(Live), Distinct(q), \A k \in 1..Len(q) : q[k].id \in S
    PROVE  Len(q) =< Cardinality(S)
<1> DEFINE f == [k \in 1..Len(q) |-> q[k].id]
<1>1. Len(q) \in Nat /\ Cardinality(S) \in Nat
  BY FS_CardinalityType
<1>2. IsFiniteSet(1..Len(q)) /\ Cardinality(1..Len(q)) = Len(q)
  <2>1. 1 \in Int /\ Len(q) \in Int
    BY <1>1
  <2>2. IsFiniteSet(1..Len(q)) /\ Cardinality(1..Len(q)) = IF 1 > Len(q) THEN 0 ELSE Len(q) - 1 + 1
    BY <2>1, FS_Interval, Zenon
  <2> QED
    BY <1>1, <2>2
<1>3. f \in [1..Len(q) -> S] /\ \A k \in 1..Len(q) : f[k] = q[k].id
  OBVIOUS
<1> HIDE DEF f
<1>4. ASSUME Cardinality(S) < Len(q) PROVE FALSE
  <2>1. \E j, k \in 1..Len(q) : j # k /\ f[j] = f[k]
    BY <1>1, <1>2, <1>3, <1>4, FS_PigeonHole
  <2> QED
    BY <1>3, <2>1 DEF Distinct
<1> QED
  BY <1>1, <1>4

-----------------------------------------------------------------------------
(* A message goes everywhere once *)

\* As long as no more messages are forwarded than the cache holds, it forgets none.
CacheHoldsAll == IsFiniteSet(Ids \ Black) /\ Cardinality(Ids \ Black) =< MaxCache

\* The thread broadcasts its message; it replays the recent ones to the session.
Casts(t) == Fans(t) \/ pc[t] = "recent"
Replays(t, s) == on[t] = s /\ (pc[t] = "replay" \/ (pc[t] = "write" /\ back[t] = "replay"))

\* The cache has what was ever broadcast.
Cached ==
  /\ Distinct(cache) /\ \A k \in 1..Len(cache) : cache[k].id \in Ids \ Black
  /\ Distinct(recent) /\ \A id \in Ids : Has(recent, id) => Has(cache, id)
  /\ \A s \in Sessions, id \in Ids : Has(Given(s), id) => Has(cache, id)

\* One thread broadcasts a message, and it is not yet recent.
Casting ==
  \A t \in Threads : Casts(t) =>
    /\ Has(cache, msg[t].id) /\ ~Has(recent, msg[t].id)
    /\ \A u \in Threads : Casts(u) /\ msg[u].id = msg[t].id => u = t

\* What a join still has to replay, the session has not been given.
Replaying ==
  \A t \in Threads, s \in Sessions : Replays(t, s) =>
    /\ Distinct(rest[t])
    /\ \A id \in Ids : Has(rest[t], id) => Has(cache, id) /\ ~Has(Given(s), id)

\* Nor what a broadcast still has to send it, which no join replays to it either.
Fanning ==
  \A t \in Threads, s \in Sessions : Fans(t) /\ s \in left[t] =>
    /\ ~Has(Given(s), msg[t].id)
    /\ \A u \in Threads : Replays(u, s) => ~Has(rest[u], msg[t].id)

Once == Cached /\ Casting /\ Replaying /\ Fanning /\ \A s \in Sessions : Distinct(Given(s))

\* A step that begins no broadcast and no replay, and sends nothing.
Still ==
  /\ cache' = cache /\ recent' = recent /\ \A s \in Sessions : Given(s)' = Given(s)
  /\ \A u \in Threads : Casts(u)' => Casts(u) /\ msg'[u] = msg[u]
  /\ \A u \in Threads : Fans(u)' => Fans(u) /\ left'[u] \subseteq left[u]
  /\ \A u \in Threads, s \in Sessions : Replays(u, s)' => Replays(u, s) /\ rest'[u] = rest[u]

\* A step that begins no broadcast and no replay, and sends nothing, keeps the invariant.
LEMMA StillKeeps == ASSUME Once, Still PROVE Once'
<1>1. Cached'
  BY DEF Once, Cached, Still
<1>2. Casting'
  BY DEF Once, Casting, Still
<1>3. Replaying'
  BY DEF Once, Replaying, Still
<1>4. Fanning'
  BY DEF Once, Fanning, Still, Casts
<1>5. \A s \in Sessions : Distinct(Given(s)')
  BY DEF Once, Still
<1> QED
  BY <1>1, <1>2, <1>3, <1>4, <1>5 DEF Once

\* Such is a step of a thread that goes on in the same broadcast or replay, or in none.
LEMMA StillMove ==
    ASSUME Types, NEW t \in Threads, Moved(t), cache' = cache, recent' = recent,
           \A s \in Sessions : Given(s)' = Given(s),
           \A u \in Threads : left'[u] \subseteq left[u],
           Casts(t)' => Casts(t) /\ msg'[t] = msg[t], Fans(t)' => Fans(t),
           \A s \in Sessions : Replays(t, s)' => Replays(t, s) /\ rest'[t] = rest[t]
    PROVE  Still
<1>1. \A u \in Threads \ {t} : /\ Casts(u)' <=> Casts(u)
                               /\ Fans(u)' <=> Fans(u)
                               /\ msg'[u] = msg[u] /\ rest'[u] = rest[u]
  BY DEF Moved, Others, Casts, Fans
<1>2. \A u \in Threads \ {t}, s \in Sessions : Replays(u, s)' <=> Replays(u, s)
  BY DEF Moved, Others, Replays
<1> QED
  BY <1>1, <1>2 DEF Still

\* The cache takes in a message that it has not, and forgets none.
LEMMA CacheGrows ==
    ASSUME CacheHoldsAll, Types, Once, NEW t \in Threads, Check(t),
           ~(msg[t].ttl - 1 =< 0 \/ Has(cache, msg[t].id) \/ msg[t].id \in Black)
    PROVE  /\ Fewer(msg[t]) \in Live /\ Fewer(msg[t]).id = msg[t].id /\ msg[t].id \in Ids \ Black
           /\ ~Has(cache, msg[t].id) /\ cache \in Seq(Live) /\ Len(cache) \in Nat
           /\ cache' = Append(cache, Fewer(msg[t]))
<1> DEFINE m == Fewer(msg[t])
           id == msg[t].id
<1>0. msg[t] \in Messages
  BY DEF Check, At, Types, Control
<1>1. /\ m \in Live /\ m.id = id /\ id \in Ids \ Black /\ ~Has(cache, id)
      /\ cache \in Seq(Live) /\ Len(cache) \in Nat
  BY <1>0, FewerIs DEF Types, GroupTypes, Messages
<1>2. Len(cache) < MaxCache
  <2> DEFINE q == Append(cache, m)
             S == Ids \ Black
  <2>1. q \in Seq(Live) /\ Len(q) = Len(cache) + 1 /\ q[Len(cache) + 1] = m
        /\ \A k \in 1..Len(cache) : q[k] = cache[k]
    BY <1>1
  <2>2. Distinct(q)
    BY <1>1, HasAppend DEF Once, Cached
  <2>3. \A k \in 1..Len(q) : k \in 1..Len(cache) \/ k = Len(cache) + 1
    BY <1>1, <2>1
  <2> HIDE DEF q, m, id
  <2>4. \A k \in 1..Len(q) : q[k].id \in S
    BY <1>1, <2>1, <2>3 DEF Once, Cached
  <2> HIDE DEF S
  <2>5. Len(q) =< Cardinality(S) /\ Cardinality(S) \in Nat /\ Cardinality(S) =< MaxCache
    <3>1. IsFiniteSet(S) /\ Cardinality(S) =< MaxCache
      BY DEF CacheHoldsAll, S
    <3>2. Cardinality(S) \in Nat
      BY <3>1, FS_CardinalityType
    <3> QED
      BY <2>1, <2>2, <2>4, <3>1, <3>2, FewEnough
  <2> QED
    BY <1>1, <2>1, <2>5, ChatAssumption
<1>3. cache' = Append(cache, m)
  <2>1. cache' = Add(cache, m)
    BY DEF Check
  <2>2. Add(cache, m) = Keep(cache, m, MaxCache)
    BY <1>1 DEF Add
  <2> QED
    BY <1>1, <1>2, <2>1, <2>2, HasKeep, ChatAssumption
<1> QED
  BY <1>1, <1>3

\* The cache takes in a message that nobody has yet.
LEMMA CheckOnce ==
    ASSUME CacheHoldsAll, Types, Sends, Once, NEW t \in Threads, Check(t),
           \A s \in Sessions : Given(s)' = Given(s)
    PROVE  Once'
<1>1. /\ pc[t] = "check" /\ recent' = recent /\ UNCHANGED <<on, msg, back, rest>> /\ msg[t] \in Messages
  BY DEF Check, At, Types, Control, group
<1>2. Moved(t) /\ pc'[t] \in {"fan", "push", "again"}
  BY CheckMoves
<1>3. CASE msg[t].ttl - 1 =< 0 \/ Has(cache, msg[t].id) \/ msg[t].id \in Black
  <2>1. cache' = cache /\ left' = left /\ pc'[t] \in {"push", "again"}
    BY <1>3 DEF Check, AfterBroadcast, Goto, Types, ThreadTypes
  <2> QED
    BY <1>1, <1>2, <2>1, StillMove, StillKeeps DEF Casts, Fans, Replays
<1>4. CASE ~(msg[t].ttl - 1 =< 0 \/ Has(cache, msg[t].id) \/ msg[t].id \in Black)
  <2> DEFINE m == Fewer(msg[t])
             id == msg[t].id
  <2>1. /\ m \in Live /\ m.id = id /\ id \in Ids \ Black /\ ~Has(cache, id)
        /\ cache \in Seq(Live) /\ Len(cache) \in Nat
    BY <1>4, CacheGrows
  <2>3. cache' = Append(cache, m)
    BY <1>4, CacheGrows
  <2>4. pc'[t] = "fan" /\ left' = [left EXCEPT ![t] = members]
    BY <1>4 DEF Check, Goto, Types, ThreadTypes
  <2> HIDE DEF m
  <2>5. (\A i : Has(cache', i) <=> Has(cache, i) \/ i = id) /\ Distinct(cache')
    BY <2>1, <2>3, HasAppend DEF Once, Cached
  <2>6. \A k \in 1..Len(cache') : cache'[k].id \in Ids \ Black
    <3>1. Len(cache') = Len(cache) + 1 /\ cache'[Len(cache) + 1] = m /\ \A k \in 1..Len(cache) : cache'[k] = cache[k]
      BY <2>1, <2>3
    <3> QED
      BY <2>1, <3>1 DEF Once, Cached
  <2>7. Cached'
    BY <1>1, <2>5, <2>6 DEF Once, Cached
  <2>8. /\ \A u \in Threads : Casts(u) => msg[u].id # id
        /\ \A s \in Sessions : ~Has(Given(s), id)
        /\ ~Has(recent, id)
        /\ \A u \in Threads, s \in Sessions : Replays(u, s) => ~Has(rest[u], id)
    BY <2>1 DEF Once, Casting, Cached, Replaying
  <2>9. /\ \A u \in Threads \ {t} : (Casts(u)' <=> Casts(u)) /\ (Fans(u)' <=> Fans(u))
        /\ \A u \in Threads \ {t} : left'[u] = left[u]
        /\ \A u \in Threads, s \in Sessions : Replays(u, s)' => Replays(u, s)
    BY <1>1, <1>2, <2>4 DEF Moved, Others, Casts, Fans, Replays, Types, ThreadTypes
  <2>10. Casting'
    BY <1>1, <2>5, <2>8, <2>9 DEF Once, Casting
  <2>11. Replaying'
    BY <1>1, <2>5, <2>9 DEF Once, Replaying
  <2>12. Fanning'
    BY <1>1, <2>8, <2>9 DEF Once, Fanning
  <2>13. \A s \in Sessions : Distinct(Given(s)')
    BY DEF Once
  <2> QED
    BY <2>7, <2>10, <2>11, <2>12, <2>13 DEF Once
<1> QED
  BY <1>3, <1>4

\* The broadcast ends: its message is recent, and nobody else's is the same.
LEMMA RecentOnce ==
    ASSUME Types, Once, NEW t \in Threads, Recent(t), \A s \in Sessions : Given(s)' = Given(s)
    PROVE  Once'
<1>1. /\ pc[t] = "recent" /\ cache' = cache /\ UNCHANGED <<on, msg, left, back, rest>>
      /\ msg[t] \in Messages /\ msg[t].ttl > 1 /\ recent' = Keep(recent, Fewer(msg[t]), MaxRecent)
  BY DEF Recent, At, Types, Control
<1>2. Moved(t) /\ pc'[t] \in {"push", "again"}
  BY PlainMoves
<1> DEFINE m == Fewer(msg[t])
           id == msg[t].id
<1>3. m \in Live /\ m.id = id /\ recent \in Seq(Live)
  BY <1>1, FewerIs DEF Types, GroupTypes, Messages
<1>4. Has(cache, id) /\ ~Has(recent, id) /\ \A u \in Threads \ {t} : Casts(u) => msg[u].id # id
  BY <1>1 DEF Once, Casting, Casts
<1> HIDE DEF m
<1>5. (\A i : Has(recent', i) => Has(recent, i) \/ i = id) /\ Distinct(recent')
  BY <1>1, <1>3, <1>4, HasKeep, ChatAssumption DEF Once, Cached, m
<1>6. /\ \A u \in Threads \ {t} : (Casts(u)' <=> Casts(u)) /\ (Fans(u)' <=> Fans(u))
      /\ ~Casts(t)' /\ ~Fans(t)'
      /\ \A u \in Threads, s \in Sessions : Replays(u, s)' => Replays(u, s)
  BY <1>1, <1>2 DEF Moved, Others, Casts, Fans, Replays
<1>7. Cached'
  BY <1>1, <1>4, <1>5 DEF Once, Cached
<1>8. Casting'
  BY <1>1, <1>4, <1>5, <1>6 DEF Once, Casting
<1>9. Replaying'
  BY <1>1, <1>6 DEF Once, Replaying
<1>10. Fanning'
  BY <1>1, <1>6 DEF Once, Fanning
<1>11. \A s \in Sessions : Distinct(Given(s)')
  BY DEF Once
<1> QED
  BY <1>7, <1>8, <1>9, <1>10, <1>11 DEF Once

\* A session joins, to which nothing was given: nobody broadcasts what is recent.
LEMMA JoinOnce ==
    ASSUME Types, Sends, Once, OneAccept, NEW t \in Threads, Join(t), \A s \in Sessions : Given(s)' = Given(s)
    PROVE  Once'
<1>1. /\ pc[t] = "join" /\ cache' = cache /\ recent' = recent /\ UNCHANGED <<on, msg, back>>
      /\ on[t] \in Sessions /\ recent \in Seq(Live)
  BY DEF Join, At, Types, Control, GroupTypes
<1>2. Moved(t) /\ pc'[t] = "replay" /\ rest'[t] = recent
  BY JoinMoves
<1>3. \A id : ~Has(Given(on[t]), id)
  <2>1. Unknown(on[t])
    BY <1>1 DEF Sends, Outside
  <2>2. out[on[t]] = <<>> /\ pending[on[t]] = <<>> /\ \A u \in Threads : ~Ends(u, on[t])
    BY <2>1 DEF Unknown, Writes, Ends
  <2>3. Given(on[t]) = <<>>
    BY <2>2 DEF Given, Ends
  <2> QED
    BY <2>3 DEF Has
<1>4. /\ \A u \in Threads : (Casts(u)' <=> Casts(u)) /\ (Fans(u)' <=> Fans(u))
      /\ \A u \in Threads \ {t} : rest'[u] = rest[u]
  BY <1>1, <1>2 DEF Moved, Others, Casts, Fans
<1>5. \A u \in Threads : left'[u] \subseteq left[u] \cup {on[t]}
  BY DEF Join
<1>6. \A u \in Threads, s \in Sessions : Replays(u, s)' => (u = t /\ s = on[t])
  <2>1. \A u \in Threads \ {t} : ~Accepts(u)
    BY <1>1 DEF OneAccept, Accepts
  <2>2. \A u \in Threads \ {t}, s \in Sessions : ~Replays(u, s)'
    BY <1>1, <1>2, <2>1 DEF Moved, Others, Accepts, Replays
  <2> QED
    BY <1>1, <2>2 DEF Replays
<1>7. Cached'
  BY <1>1 DEF Once, Cached
<1>8. Casting'
  BY <1>1, <1>4 DEF Once, Casting
<1>9. Replaying'
  BY <1>1, <1>2, <1>3, <1>6 DEF Once, Replaying, Cached
<1>10. Fanning'
  <2> SUFFICES ASSUME NEW u \in Threads, NEW s \in Sessions, Fans(u)', s \in left'[u]
               PROVE  ~Has(Given(s)', msg'[u].id) /\ \A x \in Threads : Replays(x, s)' => ~Has(rest'[x], msg'[u].id)
    BY DEF Fanning
  <2>1. Fans(u) /\ msg'[u] = msg[u] /\ ~Has(recent, msg[u].id)
    BY <1>1, <1>4 DEF Once, Casting, Casts
  <2>2. ~Has(Given(s)', msg'[u].id)
    BY <1>3, <1>5, <2>1 DEF Once, Fanning
  <2>3. \A x \in Threads : Replays(x, s)' => ~Has(rest'[x], msg'[u].id)
    BY <1>2, <1>6, <2>1
  <2> QED
    BY <2>2, <2>3
<1>11. \A s \in Sessions : Distinct(Given(s)')
  BY DEF Once
<1> QED
  BY <1>7, <1>8, <1>9, <1>10, <1>11 DEF Once

\* A member is sent the message of a broadcast, which it has neither got nor will be replayed.
LEMMA FanOnce ==
    ASSUME Types, Sends, Once, NEW t \in Threads, NEW s1 \in Sessions, Fan(t, s1), ~crashed'
    PROVE  Once'
<1> DEFINE m == Fewer(msg[t])
           id == msg[t].id
<1>1. /\ pc[t] = "fan" /\ UNCHANGED <<cache, recent, on, msg, rest>> /\ s1 \in left[t] /\ state[s1] # "freed"
      /\ left' = [left EXCEPT ![t] = @ \ {s1}] /\ msg[t] \in Messages /\ msg[t].ttl > 1
  BY DEF Fan, Using, At, group, Types, Control, Fans
<1>2. Moved(t) /\ (pc'[t] = "fan" \/ (pc'[t] = "write" /\ back'[t] = "fan"))
  BY <1>1, FanMoves
<1>3. /\ s1 \notin left'[t] /\ \A u \in Threads : left'[u] \subseteq left[u]
      /\ \A u \in Threads : (Casts(u)' <=> Casts(u)) /\ (Fans(u)' <=> Fans(u))
      /\ \A u \in Threads, s \in Sessions : Replays(u, s)' => Replays(u, s)
      /\ Casts(t) /\ Fans(t)
  BY <1>1, <1>2 DEF Moved, Others, Casts, Fans, Replays, Types, ThreadTypes
<1>4. m \in Live /\ m.id = id
  BY <1>1, FewerIs DEF Messages
<1>5. /\ ~Has(Given(s1), id) /\ \A u \in Threads : Replays(u, s1) => ~Has(rest[u], id)
      /\ Has(cache, id) /\ \A u \in Threads \ {t} : Casts(u) => msg[u].id # id
  BY <1>1, <1>3 DEF Once, Casting, Fanning
<1>6. ASSUME NEW s \in Sessions
      PROVE  /\ \A i \in Ids : Has(Given(s)', i) => Has(Given(s), i) \/ (s = s1 /\ i = id)
             /\ Distinct(Given(s)')
  <2>1. Step(t) /\ OneWrite(s)
    BY DEF Step, Sends
  <2>2. CASE Given(s)' = Given(s)
    BY <2>2 DEF Once
  <2>3. ASSUME NEW x \in Live, Given(s)' = Append(Given(s), x), Sent(t, s, x) PROVE s = s1 /\ x = m
    BY <1>1, <2>3 DEF Sent, Types, ThreadTypes
  <2>4. CASE s = s1 /\ Given(s)' = Append(Given(s), m)
    <3>1. Given(s) \in Seq(Live)
      BY <2>1, GivenIs
    <3> DEFINE g == Given(s)
    <3>2. Given(s)' = Append(g, m) /\ g \in Seq(Live) /\ ~Has(g, id) /\ Distinct(g)
      BY <1>5, <2>4, <3>1 DEF Once
    <3> HIDE DEF g, m
    <3>3. (\A i : Has(Append(g, m), i) <=> Has(g, i) \/ i = id) /\ Distinct(Append(g, m))
      BY <1>4, <3>2, HasAppend
    <3> QED
      BY <2>4, <3>2, <3>3 DEF g
  <2> QED
    BY <2>1, <2>2, <2>3, <2>4, StepGives
<1> HIDE DEF m
<1>7. Cached'
  BY <1>1, <1>5, <1>6 DEF Once, Cached
<1>8. Casting'
  BY <1>1, <1>3 DEF Once, Casting
<1>9. Replaying'
  BY <1>1, <1>3, <1>5, <1>6 DEF Once, Replaying
<1>10. Fanning'
  <2> SUFFICES ASSUME NEW u \in Threads, NEW s \in Sessions, Fans(u)', s \in left'[u]
               PROVE  ~Has(Given(s)', msg'[u].id) /\ \A x \in Threads : Replays(x, s)' => ~Has(rest'[x], msg'[u].id)
    BY DEF Fanning
  <2>1. /\ Fans(u) /\ Casts(u) /\ s \in left[u] /\ msg'[u] = msg[u] /\ (u = t => s # s1) /\ msg[u].id \in Ids
    BY <1>1, <1>3 DEF Casts, Types, Control, Messages
  <2>2. s = s1 => msg[u].id # id
    BY <1>5, <2>1
  <2> QED
    BY <1>1, <1>3, <1>6, <2>1, <2>2 DEF Once, Fanning
<1> QED
  BY <1>6, <1>7, <1>8, <1>9, <1>10 DEF Once

\* A new member is sent one of the recent messages, which no broadcast is still to send it.
LEMMA ReplayOnce ==
    ASSUME Types, Sends, Once, OneAccept, NEW t \in Threads, Replay(t), ~crashed'
    PROVE  Once'
<1> DEFINE m == Head(rest[t])
           id == m.id
           s1 == on[t]
<1>1. /\ pc[t] = "replay" /\ UNCHANGED <<cache, recent, on, msg, left>> /\ s1 \in Sessions
      /\ rest[t] \in Seq(Live) /\ rest[t] # <<>>
  BY DEF Replay, At, group, Types, Control, ThreadTypes
<1>2. Moved(t) /\ (pc'[t] = "replay" \/ (pc'[t] = "write" /\ back'[t] = "replay")) /\ rest'[t] = Tail(rest[t])
  BY ReplayMoves
<1>3. /\ \A u \in Threads : (Casts(u)' <=> Casts(u)) /\ (Fans(u)' <=> Fans(u))
      /\ Replays(t, s1) /\ \A u \in Threads, s \in Sessions : Replays(u, s)' => u = t /\ s = s1
  <2>1. \A u \in Threads \ {t} : ~Accepts(u)
    BY <1>1 DEF OneAccept, Accepts
  <2>2. \A u \in Threads \ {t}, s \in Sessions : ~Replays(u, s)'
    BY <1>1, <1>2, <2>1 DEF Moved, Others, Accepts, Replays
  <2> QED
    BY <1>1, <1>2, <2>2 DEF Moved, Others, Casts, Fans, Replays
<1>4. /\ m \in Live /\ m.id \in Ids
      /\ \A i : Has(rest[t], i) <=> Has(rest'[t], i) \/ i = id
      /\ Distinct(rest[t]) => Distinct(rest'[t]) /\ ~Has(rest'[t], id)
  <2>1. m \in Live /\ m.id \in Ids
    <3>1. m \in Live
      BY <1>1
    <3> HIDE DEF m
    <3> QED
      BY <3>1 DEF Live
  <2> QED
    BY <1>1, <1>2, <2>1, HasTail
<1>5. /\ Distinct(rest[t]) /\ Has(rest[t], id) /\ Has(cache, id) /\ ~Has(Given(s1), id)
      /\ \A u \in Threads : Fans(u) /\ s1 \in left[u] => msg[u].id # id
  <2>1. Distinct(rest[t]) /\ Has(rest[t], id) /\ Has(cache, id) /\ ~Has(Given(s1), id)
    BY <1>1, <1>3, <1>4 DEF Once, Replaying
  <2> QED
    BY <1>1, <1>3, <2>1 DEF Once, Fanning
<1>6. ASSUME NEW s \in Sessions
      PROVE  /\ \A i \in Ids : Has(Given(s)', i) => Has(Given(s), i) \/ (s = s1 /\ i = id)
             /\ Distinct(Given(s)')
  <2>1. Step(t) /\ OneWrite(s)
    BY DEF Step, Sends
  <2>2. CASE Given(s)' = Given(s)
    BY <2>2 DEF Once
  <2>3. ASSUME NEW x \in Live, Given(s)' = Append(Given(s), x), Sent(t, s, x) PROVE s = s1 /\ x = m
    BY <1>1, <2>3 DEF Sent
  <2>4. CASE s = s1 /\ Given(s)' = Append(Given(s), m)
    <3>1. Given(s) \in Seq(Live)
      BY <2>1, GivenIs
    <3> DEFINE g == Given(s)
    <3>2. Given(s)' = Append(g, m) /\ g \in Seq(Live) /\ ~Has(g, id) /\ Distinct(g)
      BY <1>5, <2>4, <3>1 DEF Once
    <3> HIDE DEF g, m
    <3>3. (\A i : Has(Append(g, m), i) <=> Has(g, i) \/ i = id) /\ Distinct(Append(g, m))
      BY <1>4, <3>2, HasAppend
    <3> QED
      BY <2>4, <3>2, <3>3 DEF g
  <2> QED
    BY <2>1, <2>2, <2>3, <2>4, StepGives
<1> HIDE DEF m
<1>7. Cached'
  BY <1>1, <1>5, <1>6 DEF Once, Cached
<1>8. Casting'
  BY <1>1, <1>3 DEF Once, Casting
<1>9. Replaying'
  BY <1>1, <1>2, <1>3, <1>4, <1>5, <1>6 DEF Once, Replaying
<1>10. Fanning'
  <2> SUFFICES ASSUME NEW u \in Threads, NEW s \in Sessions, Fans(u)', s \in left'[u]
               PROVE  ~Has(Given(s)', msg'[u].id) /\ \A x \in Threads : Replays(x, s)' => ~Has(rest'[x], msg'[u].id)
    BY DEF Fanning
  <2>1. Fans(u) /\ s \in left[u] /\ msg'[u] = msg[u] /\ msg[u].id \in Ids
    BY <1>1, <1>3 DEF Types, Control, Messages
  <2>2. ~Has(Given(s)', msg[u].id)
    BY <1>5, <1>6, <2>1 DEF Once, Fanning
  <2>3. s = s1 => ~Has(rest[t], msg[u].id)
    BY <1>3, <2>1 DEF Once, Fanning
  <2> QED
    BY <1>3, <1>4, <2>1, <2>2, <2>3
<1> QED
  BY <1>6, <1>7, <1>8, <1>9, <1>10 DEF Once

\* Every step keeps the invariant.
LEMMA OnceNext ==
    ASSUME CacheHoldsAll, Types, Sends, OneAccept, Once, [Next]_vars PROVE Once'
<1>1. CASE crashed' # crashed \/ crashed
  <2>1. UNCHANGED <<group, sessions, threads>>
    BY <1>1, CrashStays
  <2> QED
    BY <2>1, StillKeeps DEF group, sessions, threads, Still, Given, Casts, Fans, Replays
<1> SUFFICES ASSUME ~crashed' PROVE Once'
  BY <1>1 DEF Types, InputTypes
<1>2. ASSUME UNCHANGED threads, UNCHANGED <<cache, recent>>, \A s \in Sessions : Given(s)' = Given(s) PROVE Once'
  BY <1>2, StillKeeps DEF threads, Still, Casts, Fans, Replays
<1>3. ASSUME NEW t \in Threads, Step(t), ~Replay(t), \A s \in Sessions : ~Fan(t, s) PROVE Once'
  <2>1. \A s \in Sessions : Given(s)' = Given(s)
    <3>1. ASSUME NEW s \in Sessions, NEW x \in Live, Sent(t, s, x) PROVE FALSE
      <4>1. pc[t] \notin {"fan", "replay"} \/ Post(t) \/ JoinEnd(t)
        BY <1>3 DEF Step, Check, Recent, Join, Run, Again, DoWrite, Written, Leave, Lock, Push, CDoWrite,
                    CWritten, CRead, CAgain, At
      <4> QED
        BY <3>1, <4>1 DEF Sent, Post, JoinEnd, At
    <3> QED
      BY <1>3, <3>1, StepGives DEF Sends
  <2>2. CASE Check(t) \/ Recent(t) \/ Join(t)
    BY <2>1, <2>2, CheckOnce, RecentOnce, JoinOnce
  <2>3. CASE Run(t) \/ Again(t) \/ CDoWrite(t) \/ CAgain(t)
    <3>1. End(t) /\ UNCHANGED <<cache, recent>>
      BY <2>3 DEF Run, Again, CDoWrite, CAgain, Using, group
    <3>2. Moved(t) /\ pc'[t] = "idle" /\ left' = left
      BY <3>1, EndIs
    <3> QED
      BY <2>1, <3>1, <3>2, StillMove, StillKeeps DEF Casts, Fans, Replays
  <2>4. CASE Push(t) \/ CWritten(t) \/ CRead(t) \/ JoinEnd(t) \/ Lock(t)
    <3>1. UNCHANGED <<cache, recent>> /\ left' = left
      BY <2>4 DEF Push, CWritten, CRead, JoinEnd, Lock, Handle, End, group
    <3>2. Moved(t) /\ pc'[t] \notin {"fan", "recent", "replay", "write"}
      BY <2>4, ClientMoves, PlainMoves
    <3> QED
      BY <2>1, <3>1, <3>2, StillMove, StillKeeps DEF Casts, Fans, Replays
  <2>5. CASE Post(t)
    <3>1. UNCHANGED <<cache, recent>> /\ left' = left /\ msg' = msg /\ pc[t] = "fan"
      BY <2>5 DEF Post, At, group
    <3>2. Moved(t) /\ pc'[t] = "recent"
      BY <2>5, PlainMoves
    <3> QED
      BY <2>1, <3>1, <3>2, StillMove, StillKeeps DEF Casts, Fans, Replays
  <2>6. CASE DoWrite(t)
    <3>1. UNCHANGED <<cache, recent>> /\ pc[t] = "write" /\ back[t] \in {"idle", "fan", "replay"}
      BY <2>6 DEF DoWrite, At, Using, group, Types, ThreadTypes
    <3>2. Moved(t) /\ pc'[t] = back[t] /\ UNCHANGED <<on, msg, left, rest>>
      BY <2>6, DoWriteMoves
    <3> QED
      BY <2>1, <3>1, <3>2, StillMove, StillKeeps DEF Casts, Fans, Replays
  <2>7. CASE Written(t)
    <3>1. UNCHANGED <<cache, recent>> /\ left' = left
      BY <2>7 DEF Written, Using, group, End
    <3>2. Moved(t) /\ (pc'[t] = "idle" \/ (pc'[t] = "write" /\ back'[t] = "idle"))
      BY <2>7, WrittenMoves
    <3> QED
      BY <2>1, <3>1, <3>2, StillMove, StillKeeps DEF Casts, Fans, Replays
  <2>8. CASE Leave(t)
    <3>1. UNCHANGED <<cache, recent>> /\ \A u \in Threads : left'[u] \subseteq left[u]
      BY <2>8 DEF Leave, Using
    <3>2. Moved(t) /\ pc'[t] = "idle"
      BY <2>8, LeaveMoves
    <3> QED
      BY <2>1, <3>1, <3>2, StillMove, StillKeeps DEF Casts, Fans, Replays
  <2> QED
    BY <1>3, <2>2, <2>3, <2>4, <2>5, <2>6, <2>7, <2>8 DEF Step
<1>4. ASSUME \A t \in Threads : ~Step(t) PROVE Once'
  <2>1. \A s \in Sessions : Given(s)' = Given(s)
    BY <1>4, OthersGive DEF Sends
  <2>2. ASSUME NEW t \in Threads,
               \/ OnPost(t) \/ OnCWrite(t) \/ \E m \in Arriving : OnCRead(t, m)
               \/ \E s \in Sessions : \/ OnAccept(t, s) \/ OnReadError(t, s) \/ OnWrite(t, s) \/ OnWriteError(t, s)
                                      \/ \E m \in Arriving : OnRead(t, s, m)
        PROVE  Once'
    <3>1. UNCHANGED <<cache, recent, left>>
      BY <2>2 DEF OnPost, OnCWrite, OnCRead, OnAccept, OnReadError, OnWrite, OnWriteError, OnRead, Handle, group
    <3>2. Moved(t) /\ pc'[t] \notin {"fan", "recent", "replay", "write"}
      BY <2>2, TakesMove
    <3> QED
      BY <2>1, <3>1, <3>2, StillMove, StillKeeps DEF Casts, Fans, Replays
  <2>3. ASSUME NEW t \in Threads, OnClose(t) \/ OnConnect(t) \/ OnCReadError(t) \/ OnCWriteError(t)
               \/ \E s \in Sessions : OnAborted(t, s)
        PROVE  Once'
    BY <1>2, <2>1, <2>3 DEF OnClose, OnConnect, OnCReadError, OnCWriteError, OnAborted, group
  <2>4. CASE UNCHANGED vars \/ Close \/ (\E m \in OwnMsgs : Type(m))
    BY <1>2, <2>1, <2>4 DEF vars, Close, Type, group
  <2> QED
    BY <1>4, <2>2, <2>3, <2>4 DEF Next, Takes, WriteEnds, CWriteEnds
<1> QED
  BY <1>3, <1>4, FanOnce, ReplayOnce

\* It holds at the beginning: nothing was given to anybody.
LEMMA OnceInit == Init => Once
<1> SUFFICES ASSUME Init PROVE Once
  OBVIOUS
<1>1. \A t \in Threads : pc[t] = "idle"
  BY DEF Init
<1>2. \A t \in Threads : ~Casts(t) /\ ~Fans(t) /\ \A s \in Sessions : ~Replays(t, s) /\ ~Ends(t, s)
  BY <1>1 DEF Casts, Fans, Replays, Ends
<1>3. \A s \in Sessions : Given(s) = <<>>
  BY <1>2 DEF Given, Ends, Init
<1>4. cache = <<>> /\ recent = <<>> /\ Distinct(<<>>) /\ \A id : ~Has(<<>>, id)
  BY DEF Init, Distinct, Has
<1> QED
  <2>1. Cached
    <3>1. \A k \in 1..Len(<<>>) : FALSE
      OBVIOUS
    <3> QED
      BY <1>3, <1>4, <3>1 DEF Cached
  <2>2. Casting /\ Replaying /\ Fanning
    BY <1>2 DEF Casting, Replaying, Fanning
  <2>3. \A s \in Sessions : Distinct(Given(s))
    BY <1>3, <1>4
  <2> QED
    BY <2>1, <2>2, <2>3 DEF Once

\* A list without a second copy holds a message at most once.
LEMMA TimesOnce ==
    ASSUME NEW S, NEW q \in Seq(S), Distinct(q), NEW id PROVE Times(id, q) =< 1
<1>1. \A x, y \in {k \in DOMAIN q : q[k].id = id} : x = y
  BY DEF Distinct
<1> QED
  BY <1>1, AtMostOne DEF Times

\* As long as the cache (message.h, MAX_CACHE_SIZE) has not forgotten a message, no session is given
\* one twice, whether two handlers broadcast it at once or a join replays it while a broadcast sends
\* it (group.h:42-47, 55-81); and none is sent whose ttl has come to its end.
THEOREM EachGetsItOnce ==
    ASSUME CacheHoldsAll PROVE Spec => []SentOnce
<1>1. ASSUME WInv, Once PROVE SentOnce
  <2>1. TypeOK
    BY <1>1 DEF WInv, Types, GroupTypes, SessionTypes, ClientTypes, InputTypes, ThreadTypes, Places, TypeOK
  <2>2. ASSUME NEW s \in Sessions, NEW id \in Ids PROVE Times(id, Given(s)) =< 1
    <3>1. Given(s) \in Seq(Live)
      BY <1>1, GivenIs DEF WInv, Sends
    <3> QED
      BY <1>1, <3>1, TimesOnce DEF Once
  <2> QED
    BY <2>1, <2>2 DEF SentOnce
<1>2. WInv /\ Once /\ [Next]_vars => Once'
  BY OnceNext DEF WInv
<1> QED
  BY <1>1, <1>2, OnceInit, WInvInit, WInvNext, PTL DEF Spec

-----------------------------------------------------------------------------
(* The circle of the client and the group *)

Counted == Live \cup {None}
IsCopy(id, m) == m # None /\ m.id = id
One(P) == IF P THEN 1 ELSE 0

\* The copies of a message in a list can be counted.
LEMMA TimesIsNat ==
    ASSUME NEW q \in Seq(Counted), NEW id
    PROVE  IsFiniteSet({k \in DOMAIN q : IsCopy(id, q[k])}) /\ Times(id, q) \in Nat
           /\ Times(id, q) = Cardinality({k \in DOMAIN q : IsCopy(id, q[k])})
<1> DEFINE S == {k \in DOMAIN q : IsCopy(id, q[k])}
<1>1. Len(q) \in Nat /\ DOMAIN q = 1..Len(q)
  OBVIOUS
<1>2. S \in SUBSET Nat /\ \A k \in S : k =< Len(q)
  BY <1>1
<1> HIDE DEF S
<1>3. IsFiniteSet(S)
  BY <1>1, <1>2, FS_BoundedSetOfNaturals
<1>4. Cardinality(S) \in Nat
  BY <1>3, FS_CardinalityType
<1>5. Times(id, q) = Cardinality(S)
  BY DEF Times, S, IsCopy
<1> QED
  BY <1>3, <1>4, <1>5 DEF S

\* One more message, one more copy.
LEMMA TimesAppend ==
    ASSUME NEW q \in Seq(Counted), NEW m \in Counted, NEW id
    PROVE  Times(id, Append(q, m)) = Times(id, q) + One(IsCopy(id, m))
<1> DEFINE r == Append(q, m)
           S == {k \in DOMAIN q : IsCopy(id, q[k])}
           R == {k \in DOMAIN r : IsCopy(id, r[k])}
           n == Len(q) + 1
<1>1. /\ r \in Seq(Counted) /\ Len(q) \in Nat /\ DOMAIN q = 1..Len(q) /\ DOMAIN r = 1..n /\ r[n] = m
      /\ \A k \in 1..Len(q) : r[k] = q[k]
  OBVIOUS
<1>2. Times(id, r) = Cardinality(R) /\ Times(id, q) = Cardinality(S) /\ IsFiniteSet(S) /\ Cardinality(S) \in Nat
  BY <1>1, TimesIsNat
<1>3. R = (IF IsCopy(id, m) THEN S \cup {n} ELSE S) /\ n \notin S
  BY <1>1
<1> HIDE DEF r, S, R, n
<1>4. Cardinality(S \cup {n}) = Cardinality(S) + 1
  BY <1>2, <1>3, FS_AddElement
<1> QED
  BY <1>2, <1>3, <1>4 DEF r, One

\* The first message taken away, one copy less.
LEMMA TimesTail ==
    ASSUME NEW q \in Seq(Counted), q # <<>>, NEW id
    PROVE  Times(id, q) = Times(id, Tail(q)) + One(IsCopy(id, Head(q)))
<1> DEFINE r == Tail(q)
           S == {k \in DOMAIN q : IsCopy(id, q[k])}
           R == {k \in DOMAIN r : IsCopy(id, r[k])}
           Q == S \ {1}
           f == [k \in R |-> k + 1]
<1>1. /\ r \in Seq(Counted) /\ Len(q) \in Nat \ {0} /\ DOMAIN q = 1..Len(q) /\ DOMAIN r = 1..(Len(q) - 1)
      /\ Head(q) = q[1] /\ \A k \in 1..(Len(q) - 1) : r[k] = q[k + 1]
  BY HeadTailProperties
<1>2. /\ Times(id, r) = Cardinality(R) /\ Times(id, q) = Cardinality(S)
      /\ IsFiniteSet(S) /\ IsFiniteSet(R) /\ Cardinality(S) \in Nat
  BY <1>1, TimesIsNat
<1>3. Cardinality(Q) = Cardinality(S) - One(1 \in S) /\ (1 \in S <=> IsCopy(id, Head(q)))
  <2>1. 1 \in S <=> IsCopy(id, Head(q))
    BY <1>1
  <2> HIDE DEF S
  <2>2. Cardinality(S \ {1}) = IF 1 \in S THEN Cardinality(S) - 1 ELSE Cardinality(S)
    BY <1>2, FS_RemoveElement
  <2> QED
    BY <1>2, <2>1, <2>2 DEF One
<1>4. Cardinality(Q) = Cardinality(R)
  <2>1. \A k : k \in R <=> k \in 1..(Len(q) - 1) /\ IsCopy(id, q[k + 1])
    BY <1>1
  <2>2. \A k : k \in Q <=> k \in 2..Len(q) /\ IsCopy(id, q[k])
    BY <1>1
  <2> HIDE DEF R, Q, r
  <2>3. f \in [R -> Q]
    BY <1>1, <2>1, <2>2
  <2>4. \A j, k \in R : f[j] = f[k] => j = k
    BY <1>1, <2>1
  <2>5. \A k \in Q : k - 1 \in R /\ f[k - 1] = k
    BY <1>1, <2>1, <2>2
  <2> HIDE DEF f
  <2>6. f \in Injection(R, Q) /\ f \in Surjection(R, Q)
    BY <2>3, <2>4, <2>5 DEF Injection, Surjection, IsInjective
  <2>7. IsFiniteSet(Q)
    <3>1. Q \in SUBSET S
      BY DEF Q
    <3> QED
      BY <1>2, <3>1, FS_Subset DEF Q
  <2>8. Cardinality(R) = Cardinality(Q)
    BY <2>6, <2>7, FS_Injection
  <2> QED
    BY <2>8 DEF R, Q, r
<1> HIDE DEF r, S, R, Q, f
<1>5. Times(id, q) = Times(id, r) + One(IsCopy(id, Head(q)))
  BY <1>2, <1>3, <1>4 DEF One
<1> QED
  BY <1>5 DEF r

\* The threads that are in an on_post of the message; the message that is being taken out of
\* cpending after it was written; the message that was broadcast and posted.
Posters(id) == {t \in Threads : on[t] = "post" /\ msg[t].id = id}
Overlap(id) == \E t \in Threads : pc[t] = "cwritten" /\ cpending[1].id = id
Done(id)    == Has(cache, id) /\ \A t \in Threads : Fans(t) => msg[t].id # id
Upward(id)  == Upstream(id) =< One(id \in typed) + One(Done(id))

\* The parts of what is on its way upstream are numbers.
LEMMA UpstreamIs ==
    ASSUME Types, NEW id
    PROVE  /\ Upstream(id) = Times(id, posts) + Cardinality(Posters(id)) + Times(id, cpending)
                             + Times(id, up) - One(Overlap(id))
           /\ Times(id, posts) \in Nat /\ Times(id, cpending) \in Nat /\ Times(id, up) \in Nat
           /\ Cardinality(Posters(id)) \in Nat /\ IsFiniteSet(Posters(id))
           /\ posts \in Seq(Counted) /\ cpending \in Seq(Counted) /\ up \in Seq(Counted)
<1>1. posts \in Seq(Counted) /\ cpending \in Seq(Counted) /\ up \in Seq(Counted)
  BY DEF Types, InputTypes, ClientTypes, Counted
<1>2. Times(id, posts) \in Nat /\ Times(id, cpending) \in Nat /\ Times(id, up) \in Nat
  BY <1>1, TimesIsNat
<1>3. IsFiniteSet(Posters(id))
  <2>1. Posters(id) \in SUBSET Threads
    BY DEF Posters
  <2> QED
    BY <2>1, FS_Subset, NamesAssumption
<1>4. Cardinality(Posters(id)) \in Nat
  BY <1>3, FS_CardinalityType
<1>5. Upstream(id) = Times(id, posts) + Cardinality(Posters(id)) + Times(id, cpending)
                     + Times(id, up) - One(Overlap(id))
  BY DEF Upstream, Posters, Overlap, One
<1> QED
  BY <1>1, <1>2, <1>3, <1>4, <1>5

\* And so they are after a step.
LEMMA UpstreamNext ==
    ASSUME Types', NEW id
    PROVE  /\ Upstream(id)' = Times(id, posts') + Cardinality(Posters(id)') + Times(id, cpending')
                              + Times(id, up') - One(Overlap(id)')
           /\ Times(id, posts') \in Nat /\ Times(id, cpending') \in Nat /\ Times(id, up') \in Nat
           /\ Cardinality(Posters(id)') \in Nat
<1>1. posts' \in Seq(Counted) /\ cpending' \in Seq(Counted) /\ up' \in Seq(Counted)
  BY DEF Types, InputTypes, ClientTypes, Counted
<1>2. Times(id, posts') \in Nat /\ Times(id, cpending') \in Nat /\ Times(id, up') \in Nat
  BY <1>1, TimesIsNat
<1>3. IsFiniteSet(Posters(id)')
  <2>1. Posters(id)' \in SUBSET Threads
    BY DEF Posters
  <2> QED
    BY <2>1, FS_Subset, NamesAssumption
<1>4. Cardinality(Posters(id)') \in Nat
  BY <1>3, FS_CardinalityType
<1>5. Upstream(id)' = Times(id, posts') + Cardinality(Posters(id)') + Times(id, cpending')
                      + Times(id, up') - One(Overlap(id)')
  BY DEF Upstream, Posters, Overlap, One, Times
<1> QED
  BY <1>1, <1>2, <1>3, <1>4, <1>5

\* The bound holds after a step that adds no more on the one side than on the other.
LEMMA UpSum ==
    ASSUME Types, Types', NEW id, Upward(id),
           NEW p \in Int, NEW b \in Int, NEW c \in Int, NEW u \in Int, NEW e \in Int,
           Times(id, posts') =< Times(id, posts) + p,
           Cardinality(Posters(id)') =< Cardinality(Posters(id)) + b,
           Times(id, cpending') =< Times(id, cpending) + c,
           Times(id, up') =< Times(id, up) + u,
           One(Overlap(id)') >= One(Overlap(id)) + e,
           p + b + c + u - e =< One(id \in typed') + One(Done(id)') - One(id \in typed) - One(Done(id))
    PROVE  Upward(id)'
<1> DEFINE x1 == Times(id, posts)
           x2 == Cardinality(Posters(id))
           x3 == Times(id, cpending)
           x4 == Times(id, up)
           x5 == One(Overlap(id))
           y1 == Times(id, posts')
           y2 == Cardinality(Posters(id)')
           y3 == Times(id, cpending')
           y4 == Times(id, up')
           y5 == One(Overlap(id)')
           x == One(id \in typed) + One(Done(id))
           y == One(id \in typed') + One(Done(id)')
<1>1. /\ x1 \in Int /\ x2 \in Int /\ x3 \in Int /\ x4 \in Int /\ x5 \in Int /\ x \in Int
      /\ y1 \in Int /\ y2 \in Int /\ y3 \in Int /\ y4 \in Int /\ y5 \in Int /\ y \in Int
  BY UpstreamIs, UpstreamNext DEF One
<1>2. x1 + x2 + x3 + x4 - x5 =< x
  BY UpstreamIs DEF Upward
<1>3. p + b + c + u - e =< y - x
  BY DEF One
<1> HIDE DEF x1, x2, x3, x4, x5, y1, y2, y3, y4, y5, x, y
<1>4. y1 =< x1 + p /\ y2 =< x2 + b /\ y3 =< x3 + c /\ y4 =< x4 + u /\ y5 >= x5 + e
  BY DEF x1, x2, x3, x4, x5, y1, y2, y3, y4, y5
<1>5. y1 + y2 + y3 + y4 - y5 =< y
  BY <1>1, <1>2, <1>3, <1>4
<1> QED
  BY <1>5, UpstreamNext DEF Upward, y1, y2, y3, y4, y5, y

\* How many a set has that is in another one, or in it with one more or one less.
LEMMA SubsetCounts ==
    ASSUME NEW T, IsFiniteSet(T), NEW S, NEW t
    PROVE  /\ S \subseteq T => Cardinality(S) =< Cardinality(T)
           /\ S \subseteq T \cup {t} => Cardinality(S) =< Cardinality(T) + 1
           /\ t \in T /\ S \subseteq T \ {t} => Cardinality(S) =< Cardinality(T) - 1
<1>1. Cardinality(T) \in Nat
  BY FS_CardinalityType
<1>2. ASSUME S \subseteq T PROVE Cardinality(S) =< Cardinality(T)
  BY <1>2, FS_Subset
<1>3. ASSUME S \subseteq T \cup {t} PROVE Cardinality(S) =< Cardinality(T) + 1
  <2>1. IsFiniteSet(T \cup {t}) /\ Cardinality(T \cup {t}) = IF t \in T THEN Cardinality(T) ELSE Cardinality(T) + 1
    BY FS_AddElement
  <2>2. Cardinality(S) =< Cardinality(T \cup {t})
    BY <1>3, <2>1, FS_Subset
  <2>3. IsFiniteSet(S)
    BY <1>3, <2>1, FS_Subset
  <2>4. Cardinality(S) \in Nat
    BY <2>3, FS_CardinalityType
  <2> QED
    BY <1>1, <2>1, <2>2, <2>4
<1>4. ASSUME t \in T, S \subseteq T \ {t} PROVE Cardinality(S) =< Cardinality(T) - 1
  <2>1. IsFiniteSet(T \ {t}) /\ Cardinality(T \ {t}) = Cardinality(T) - 1
    BY <1>4, FS_RemoveElement
  <2>2. Cardinality(S) =< Cardinality(T \ {t})
    BY <1>4, <2>1, FS_Subset
  <2> QED
    BY <2>1, <2>2
<1> QED
  BY <1>2, <1>3, <1>4

\* No step but the check of broadcast begins a loop over the members, nor changes its message.
LEMMA FansMove ==
    ASSUME Types, [Next]_vars, ~crashed', NEW u \in Threads, Fans(u)', ~Check(u)
    PROVE  Fans(u) /\ msg'[u] = msg[u]
<1>1. CASE UNCHANGED threads
  BY <1>1 DEF threads, Fans
<1>2. ASSUME NEW t \in Threads, t # u, Moved(t) PROVE Fans(u) /\ msg'[u] = msg[u]
  BY <1>2 DEF Moved, Others, Fans
<1>3. ASSUME Step(u) PROVE Fans(u) /\ msg'[u] = msg[u]
  <2>1. CASE Run(u) \/ Again(u) \/ CDoWrite(u) \/ CAgain(u)
    <3>1. End(u)
      BY <2>1 DEF Run, Again, CDoWrite, CAgain, Using
    <3> QED
      BY <3>1, EndIs DEF Fans
  <2>2. CASE Push(u) \/ CWritten(u) \/ CRead(u) \/ Post(u) \/ Recent(u) \/ JoinEnd(u) \/ Lock(u)
    BY <2>2, ClientMoves, PlainMoves DEF Fans
  <2>3. CASE Replay(u) \/ Join(u) \/ Leave(u)
    BY <2>3, ReplayMoves, JoinMoves, LeaveMoves DEF Fans
  <2>4. CASE Written(u)
    <3>1. pc'[u] = "idle" \/ (pc'[u] = "write" /\ back'[u] = "idle")
      BY <2>4, WrittenMoves
    <3> QED
      BY <3>1 DEF Fans
  <2>5. CASE DoWrite(u)
    <3>1. pc'[u] = back[u] /\ pc[u] = "write" /\ back[u] \in {"idle", "fan", "replay"} /\ msg' = msg
      BY <2>5, DoWriteMoves DEF DoWrite, At, Types, ThreadTypes
    <3> QED
      BY <3>1 DEF Fans
  <2>6. ASSUME NEW s \in Sessions, Fan(u, s) PROVE Fans(u) /\ msg'[u] = msg[u]
    BY <2>6 DEF Fan, At, Using, Fans
  <2> QED
    BY <1>3, <2>1, <2>2, <2>3, <2>4, <2>5, <2>6 DEF Step
<1>4. ASSUME NEW t \in Threads,
             \/ OnPost(t) \/ OnCWrite(t) \/ \E m \in Arriving : OnCRead(t, m)
             \/ \E s \in Sessions : \/ OnAccept(t, s) \/ OnReadError(t, s) \/ OnWrite(t, s) \/ OnWriteError(t, s)
                                    \/ \E m \in Arriving : OnRead(t, s, m)
      PROVE  Fans(u) /\ msg'[u] = msg[u]
  <2>1. Moved(t) /\ pc'[t] \notin {"fan", "write"}
    BY <1>4, TakesMove
  <2> QED
    BY <1>2, <2>1 DEF Fans
<1>5. ASSUME NEW t \in Threads, OnClose(t) \/ OnConnect(t) \/ OnCReadError(t) \/ OnCWriteError(t)
             \/ \E s \in Sessions : OnAborted(t, s)
      PROVE  Fans(u) /\ msg'[u] = msg[u]
  BY <1>1, <1>5 DEF OnClose, OnConnect, OnCReadError, OnCWriteError, OnAborted
<1>6. CASE UNCHANGED vars \/ Close \/ (\E m \in OwnMsgs : Type(m))
  BY <1>1, <1>6 DEF vars, Close, Type
<1> QED
  BY <1>2, <1>3, <1>4, <1>5, <1>6, StepMoves DEF Next, Takes, WriteEnds, CWriteEnds

\* What was broadcast and posted once stays so: the cache does not let it in again.
LEMMA DoneStays ==
    ASSUME CacheHoldsAll, Types, Once, [Next]_vars, ~crashed', NEW id, Done(id) PROVE Done(id)'
<1>1. Has(cache, id) /\ \A t \in Threads : Fans(t) => msg[t].id # id
  BY DEF Done
<1>2. ASSUME NEW t \in Threads, Check(t) PROVE Has(cache, id)' /\ (Fans(t)' => msg'[t].id # id)
  <2>1. CASE msg[t].ttl - 1 =< 0 \/ Has(cache, msg[t].id) \/ msg[t].id \in Black
    <3>1. cache' = cache /\ pc'[t] \in {"push", "again"}
      BY <1>2, <2>1 DEF Check, AfterBroadcast, Goto, Types, ThreadTypes
    <3> QED
      BY <1>1, <3>1 DEF Fans
  <2>2. CASE ~(msg[t].ttl - 1 =< 0 \/ Has(cache, msg[t].id) \/ msg[t].id \in Black)
    <3> DEFINE m == Fewer(msg[t])
    <3>1. cache \in Seq(Live) /\ m \in Live /\ cache' = Append(cache, m) /\ ~Has(cache, msg[t].id)
      BY <1>2, <2>2, CacheGrows
    <3>2. msg' = msg
      BY <1>2 DEF Check
    <3> HIDE DEF m
    <3>3. Has(cache, id)'
      BY <1>1, <3>1, HasAppend
    <3> QED
      BY <1>1, <3>1, <3>2, <3>3
  <2> QED
    BY <2>1, <2>2
<1>3. cache' = cache \/ \E t \in Threads : Check(t)
  BY GroupChanges DEF group, Recent, Join, JoinEnd, Leave, Using
<1>4. Has(cache, id)'
  BY <1>1, <1>2, <1>3
<1>5. ASSUME NEW t \in Threads, Fans(t)' PROVE msg'[t].id # id
  BY <1>1, <1>2, <1>5, FansMove
<1> QED
  BY <1>4, <1>5 DEF Done

\* What a thread does for the messages that are posted and pushed, and for those it is not about.
LEMMA PostersMove ==
    ASSUME Types, NEW id, NEW t \in Threads, Moved(t)
    PROVE  /\ Posters(id)' \subseteq Posters(id) \cup {t}
           /\ on'[t] # "post" => Posters(id)' \subseteq Posters(id) \ {t}
           /\ on'[t] = on[t] /\ (on[t] = "post" => msg'[t] = msg[t]) => Posters(id)' \subseteq Posters(id)
  BY DEF Moved, Others, Posters

\* How many threads are in an on_post of a message.
LEMMA PostersCount ==
    ASSUME Types, NEW id
    PROVE  /\ Posters(id)' \subseteq Posters(id) => Cardinality(Posters(id)') =< Cardinality(Posters(id))
           /\ \A t : Posters(id)' \subseteq Posters(id) \cup {t}
                     => Cardinality(Posters(id)') =< Cardinality(Posters(id)) + 1
           /\ \A t \in Posters(id) : Posters(id)' \subseteq Posters(id) \ {t}
                     => Cardinality(Posters(id)') =< Cardinality(Posters(id)) - 1
<1> DEFINE S == Posters(id)'
           T == Posters(id)
<1>1. IsFiniteSet(T)
  BY UpstreamIs
<1> HIDE DEF S, T
<1>2. /\ S \subseteq T => Cardinality(S) =< Cardinality(T)
      /\ \A t : S \subseteq T \cup {t} => Cardinality(S) =< Cardinality(T) + 1
      /\ \A t \in T : S \subseteq T \ {t} => Cardinality(S) =< Cardinality(T) - 1
  BY <1>1, SubsetCounts
<1> QED
  BY <1>2 DEF S, T

\* A message that is being taken out of cpending is still so after a step of another thread.
LEMMA OverlapStays ==
    ASSUME Types, NEW id, NEW t \in Threads, Moved(t), pc[t] # "cwritten", cpending'[1] = cpending[1]
    PROVE  Overlap(id) => Overlap(id)'
  BY DEF Moved, Others, Overlap

\* A step that posts, pushes and writes nothing to the next process.
LEMMA UpStays ==
    ASSUME Types, Types', NEW id, Upward(id), Done(id) => Done(id)', UNCHANGED <<posts, cpending, up>>,
           id \in typed => id \in typed', Posters(id)' \subseteq Posters(id), Overlap(id) => Overlap(id)'
    PROVE  Upward(id)'
<1>1. /\ Times(id, posts') =< Times(id, posts) + 0 /\ Times(id, cpending') =< Times(id, cpending) + 0
      /\ Times(id, up') =< Times(id, up) + 0
  BY UpstreamIs
<1>2. Cardinality(Posters(id)') =< Cardinality(Posters(id)) + 0
  BY UpstreamIs, PostersCount
<1>3. One(Overlap(id)') >= One(Overlap(id)) + 0
  BY DEF One
<1>4. 0 + 0 + 0 + 0 - 0 =< One(id \in typed') + One(Done(id)') - One(id \in typed) - One(Done(id))
  BY DEF One
<1> QED
  BY <1>1, <1>2, <1>3, <1>4, UpSum

\* Such is a step of a thread that neither becomes an on_post nor goes on from the end of a write.
LEMMA UpMove ==
    ASSUME Types, Types', NEW id, Upward(id), Done(id) => Done(id)', NEW t \in Threads, Moved(t),
           UNCHANGED <<posts, cpending, up, typed>>, pc[t] # "cwritten",
           on'[t] # "post" \/ (on'[t] = on[t] /\ (on[t] = "post" => msg'[t] = msg[t]))
    PROVE  Upward(id)'
<1>1. Posters(id)' \subseteq Posters(id)
  BY PostersMove
<1>2. Overlap(id) => Overlap(id)'
  BY OverlapStays
<1> QED
  BY <1>1, <1>2, UpStays

\* A line that is typed is posted (chat.cpp:44-58): one more on its way, and one more typed.
LEMMA TypeUp ==
    ASSUME Types, Types', NEW id, Upward(id), Done(id) => Done(id)', NEW m \in OwnMsgs, Type(m)
    PROVE  Upward(id)'
<1> DEFINE x == [id |-> m, ttl |-> DefaultTtl]
<1>1. /\ x \in Live /\ x.id = m /\ posts' = Append(posts, x) /\ m \notin typed /\ typed' = typed \cup {m}
      /\ UNCHANGED <<cpending, up, threads>>
  BY ChatAssumption DEF Type, Live, Ids, client
<1>2. IsCopy(id, x) <=> id = m
  BY <1>1, NamesAssumption DEF IsCopy, Messages, Live
<1> HIDE DEF x
<1>3. Times(id, posts') = Times(id, posts) + One(id = m)
  <2>1. posts \in Seq(Counted) /\ x \in Counted /\ One(IsCopy(id, x)) = One(id = m)
    BY <1>1, <1>2, UpstreamIs DEF Counted, One
  <2>2. Times(id, Append(posts, x)) = Times(id, posts) + One(IsCopy(id, x))
    BY <2>1, TimesAppend
  <2> QED
    BY <1>1, <2>1, <2>2
<1>4. Posters(id)' = Posters(id) /\ (Overlap(id)' <=> Overlap(id))
  BY <1>1 DEF threads, Posters, Overlap
<1>5. /\ Times(id, posts') =< Times(id, posts) + One(id = m)
      /\ Times(id, cpending') =< Times(id, cpending) + 0 /\ Times(id, up') =< Times(id, up) + 0
  BY <1>1, <1>3, UpstreamIs, UpstreamNext
<1>6. Cardinality(Posters(id)') =< Cardinality(Posters(id)) + 0
  BY <1>4, UpstreamIs
<1>7. One(Overlap(id)') >= One(Overlap(id)) + 0
  BY <1>4 DEF One
<1>8. One(id = m) + 0 + 0 + 0 - 0 =< One(id \in typed') + One(Done(id)') - One(id \in typed) - One(Done(id))
  BY <1>1 DEF One
<1>9. One(id = m) \in Int
  BY DEF One
<1> QED
  BY <1>5, <1>6, <1>7, <1>8, <1>9, UpSum

\* The close that is posted is not a message (client.h:49-52, 120-123).
LEMMA CloseUp ==
    ASSUME Types, Types', NEW id, Upward(id), Done(id) => Done(id)',
           Close \/ \E t \in Threads : OnClose(t)
    PROVE  Upward(id)'
<1>1. Times(id, posts') = Times(id, posts)
  <2>1. posts \in Seq(Counted) /\ None \in Counted /\ ~IsCopy(id, None) /\ Times(id, posts) \in Nat
    BY UpstreamIs DEF Counted, IsCopy
  <2>2. CASE Close
    <3>1. posts' = Append(posts, None)
      BY <2>2 DEF Close
    <3>2. Times(id, Append(posts, None)) = Times(id, posts) + One(IsCopy(id, None))
      BY <2>1, TimesAppend
    <3> QED
      BY <2>1, <3>1, <3>2 DEF One
  <2>3. ASSUME NEW t \in Threads, OnClose(t) PROVE Times(id, posts') = Times(id, posts)
    <3>1. posts # <<>> /\ Head(posts) = None /\ posts' = Tail(posts)
      BY <2>3 DEF OnClose
    <3>2. Times(id, posts) = Times(id, Tail(posts)) + One(IsCopy(id, Head(posts)))
      BY <2>1, <3>1, TimesTail
    <3>3. Times(id, posts') \in Nat
      BY UpstreamNext
    <3> QED
      BY <2>1, <3>1, <3>2, <3>3 DEF One
  <2> QED
    BY <2>2, <2>3
<1>2. UNCHANGED <<cpending, up, threads, typed>>
  BY DEF Close, OnClose, client, inputs
<1>3. Posters(id)' = Posters(id) /\ (Overlap(id)' <=> Overlap(id))
  BY <1>2 DEF threads, Posters, Overlap
<1>4. /\ Times(id, posts') =< Times(id, posts) + 0 /\ Times(id, cpending') =< Times(id, cpending) + 0
      /\ Times(id, up') =< Times(id, up) + 0
  BY <1>1, <1>2, UpstreamIs
<1>5. Cardinality(Posters(id)') =< Cardinality(Posters(id)) + 0
  BY <1>3, UpstreamIs
<1>6. One(Overlap(id)') >= One(Overlap(id)) + 0
  BY <1>3 DEF One
<1>7. 0 + 0 + 0 + 0 - 0 =< One(id \in typed') + One(Done(id)') - One(id \in typed) - One(Done(id))
  BY <1>2 DEF One
<1> QED
  BY <1>4, <1>5, <1>6, <1>7, UpSum

\* broadcast posts the message when it has sent it to the members: it was not done before.
LEMMA PostUp ==
    ASSUME Types, Types', Once, NEW id \in Ids, Upward(id), Done(id) => Done(id)', NEW t \in Threads, Post(t)
    PROVE  Upward(id)'
<1> DEFINE x == Fewer(msg[t])
           same == msg[t].id = id
<1>1. /\ pc[t] = "fan" /\ UNCHANGED <<cache, on, msg, cpending, up, typed>>
      /\ posts' = (IF HasClient THEN Append(posts, x) ELSE posts)
      /\ msg[t] \in Messages /\ msg[t].ttl > 1
  BY DEF Post, At, Types, Control, Fans, group, client, inputs
<1>2. Moved(t) /\ pc'[t] = "recent"
  BY PlainMoves
<1>3. x \in Live /\ (IsCopy(id, x) <=> same)
  BY <1>1, FewerIs, NamesAssumption DEF IsCopy, Messages
<1>4. same => ~Done(id) /\ Done(id)'
  <2>1. Fans(t) /\ Casts(t) /\ ~Fans(t)'
    BY <1>1, <1>2 DEF Fans, Casts
  <2>2. \A u \in Threads \ {t} : Fans(u)' => Casts(u) /\ msg'[u] = msg[u]
    BY <1>1, <1>2 DEF Moved, Others, Fans, Casts
  <2> QED
    BY <1>1, <2>1, <2>2 DEF Once, Casting, Done
<1> HIDE DEF x, same
<1>5. Times(id, posts') =< Times(id, posts) + One(same)
  <2>1. posts \in Seq(Counted) /\ x \in Counted /\ Times(id, posts) \in Nat /\ One(IsCopy(id, x)) = One(same)
    BY <1>3, UpstreamIs DEF Counted, One
  <2>2. Times(id, Append(posts, x)) = Times(id, posts) + One(IsCopy(id, x))
    BY <2>1, TimesAppend
  <2> QED
    BY <1>1, <2>1, <2>2 DEF One
<1>6. Posters(id)' \subseteq Posters(id) /\ (Overlap(id) => Overlap(id)')
  BY <1>1, <1>2, PostersMove, OverlapStays
<1>7. Times(id, cpending') =< Times(id, cpending) + 0 /\ Times(id, up') =< Times(id, up) + 0
  BY <1>1, UpstreamIs
<1>8. Cardinality(Posters(id)') =< Cardinality(Posters(id)) + 0
  BY <1>6, UpstreamIs, PostersCount
<1>9. One(Overlap(id)') >= One(Overlap(id)) + 0
  BY <1>6 DEF One
<1>10. One(same) + 0 + 0 + 0 - 0 =< One(id \in typed') + One(Done(id)') - One(id \in typed) - One(Done(id))
  BY <1>1, <1>4 DEF One
<1>11. One(same) \in Int
  BY DEF One
<1> QED
  BY <1>5, <1>7, <1>8, <1>9, <1>10, <1>11, UpSum

\* on_post takes the message that was posted.
LEMMA OnPostUp ==
    ASSUME Types, Types', NEW id, Upward(id), Done(id) => Done(id)', NEW t \in Threads, OnPost(t)
    PROVE  Upward(id)'
<1> DEFINE x == Head(posts)
           same == x.id = id
           n == 0 - One(same)
<1>1. /\ pc[t] = "idle" /\ posts # <<>> /\ x # None /\ posts' = Tail(posts)
      /\ UNCHANGED <<cpending, up, typed>> /\ posts \in Seq(Counted)
  BY UpstreamIs DEF OnPost, Idle, At, client, inputs
<1>2. Moved(t) /\ msg'[t] = x
  BY TakesMove DEF OnPost, Handle, Types, ThreadTypes
<1>3. Times(id, posts) = Times(id, posts') + One(same)
  <2>1. Times(id, posts) = Times(id, posts') + One(IsCopy(id, x))
    BY <1>1, TimesTail
  <2> HIDE DEF x
  <2> QED
    BY <1>1, <2>1 DEF IsCopy
<1> HIDE DEF x
<1>4. Posters(id)' \subseteq Posters(id) \cup {t} /\ (~same => Posters(id)' \subseteq Posters(id))
  <2>1. ~same => t \notin Posters(id)'
    BY <1>2 DEF Posters
  <2> QED
    BY <1>2, <2>1, PostersMove
<1>5. Overlap(id) => Overlap(id)'
  BY <1>1, <1>2, OverlapStays
<1> HIDE DEF same
<1>6. One(same) \in {0, 1} /\ n \in Int
  BY DEF One
<1>7. /\ Times(id, posts') =< Times(id, posts) + n
      /\ Times(id, cpending') =< Times(id, cpending) + 0 /\ Times(id, up') =< Times(id, up) + 0
  <2>1. Times(id, posts) \in Int /\ Times(id, cpending) \in Int /\ Times(id, up) \in Int
    BY UpstreamIs
  <2>2. Times(id, posts') \in Int
    BY UpstreamNext
  <2> QED
    BY <1>1, <1>3, <1>6, <2>1, <2>2
<1>8. Cardinality(Posters(id)') =< Cardinality(Posters(id)) + One(same)
  <2>1. CASE same
    BY <1>4, <2>1, PostersCount DEF One
  <2>2. CASE ~same
    <3>1. Cardinality(Posters(id)') =< Cardinality(Posters(id)) /\ Cardinality(Posters(id)) \in Nat
      BY <1>4, <2>2, PostersCount, UpstreamIs
    <3> QED
      BY <2>2, <3>1 DEF One
  <2> QED
    BY <2>1, <2>2
<1>9. One(Overlap(id)') >= One(Overlap(id)) + 0
  BY <1>5 DEF One
<1>10. n + One(same) + 0 + 0 - 0 =< One(id \in typed') + One(Done(id)') - One(id \in typed) - One(Done(id))
  BY <1>1, <1>6 DEF One
<1> HIDE DEF n
<1> QED
  BY <1>6, <1>7, <1>8, <1>9, <1>10, UpSum

\* on_post puts its message into pending.
LEMMA PushUp ==
    ASSUME Types, Types', OneCWrite, NEW id, Upward(id), Done(id) => Done(id)', NEW t \in Threads, Push(t)
    PROVE  Upward(id)'
<1> DEFINE x == msg[t]
           same == x.id = id
           n == 0 - One(same)
<1>1. /\ pc[t] = "push" /\ on[t] = "post" /\ x \in Live /\ cpending' = Append(cpending, x)
      /\ UNCHANGED <<posts, up, typed>> /\ cpending \in Seq(Counted)
  BY UpstreamIs DEF Push, At, Types, Control, inputs
<1>2. Moved(t) /\ on'[t] # "post"
  <2>1. on'[t] = None
    BY DEF Push, Handle, End, Types, ThreadTypes
  <2> QED
    BY <2>1, ClientMoves, NamesAssumption
<1>3. Times(id, cpending') = Times(id, cpending) + One(same)
  <2>1. x \in Counted /\ (IsCopy(id, x) <=> same)
    BY <1>1, NamesAssumption DEF Counted, IsCopy, Live, Messages
  <2> HIDE DEF x, same
  <2>2. One(IsCopy(id, x)) = One(same)
    BY <2>1 DEF One
  <2>3. Times(id, Append(cpending, x)) = Times(id, cpending) + One(IsCopy(id, x))
    BY <1>1, <2>1, TimesAppend
  <2> QED
    BY <1>1, <2>2, <2>3
<1>4. same => t \in Posters(id)
  BY <1>1 DEF Posters
<1>5. Posters(id)' \subseteq Posters(id) /\ (same => Posters(id)' \subseteq Posters(id) \ {t})
  BY <1>2, PostersMove
<1>6. Overlap(id) => Overlap(id)'
  <2>1. ASSUME Overlap(id) PROVE cpending'[1] = cpending[1]
    <3>1. cpending # <<>>
      BY <2>1 DEF Overlap, OneCWrite, CBusy, CWrites
    <3> HIDE DEF x
    <3>2. x \in Counted
      BY <1>1 DEF Counted
    <3> QED
      BY <1>1, <3>1, <3>2
  <2> QED
    BY <1>1, <1>2, <2>1, OverlapStays
<1> HIDE DEF same, x
<1>7. One(same) \in {0, 1} /\ n \in Int
  BY DEF One
<1>8. Cardinality(Posters(id)') =< Cardinality(Posters(id)) + n
  <2>1. CASE same
    BY <1>4, <1>5, <2>1, PostersCount, UpstreamIs DEF One
  <2>2. CASE ~same
    <3>1. Cardinality(Posters(id)') =< Cardinality(Posters(id)) /\ Cardinality(Posters(id)) \in Nat
      BY <1>5, PostersCount, UpstreamIs
    <3> QED
      BY <2>2, <3>1 DEF One
  <2> QED
    BY <2>1, <2>2
<1>9. /\ Times(id, posts') =< Times(id, posts) + 0
      /\ Times(id, cpending') =< Times(id, cpending) + One(same) /\ Times(id, up') =< Times(id, up) + 0
  BY <1>1, <1>3, <1>7, UpstreamIs
<1>10. One(Overlap(id)') >= One(Overlap(id)) + 0
  BY <1>6 DEF One
<1>11. 0 + n + One(same) + 0 - 0 =< One(id \in typed') + One(Done(id)') - One(id \in typed) - One(Done(id))
  BY <1>1, <1>7 DEF One
<1> HIDE DEF n
<1> QED
  BY <1>7, <1>8, <1>9, <1>10, <1>11, UpSum

\* A message that was written stays in pending until the handler takes it out.
LEMMA OnCWriteUp ==
    ASSUME Types, Types', OneCWrite, NEW id, Upward(id), Done(id) => Done(id)', NEW t \in Threads, OnCWrite(t)
    PROVE  Upward(id)'
<1> DEFINE x == Head(cpending)
           same == x.id = id
<1>1. /\ pc[t] = "idle" /\ cwriting /\ up' = Append(up, cwbuff) /\ UNCHANGED <<posts, cpending, typed>>
      /\ up \in Seq(Counted) /\ cpending \in Seq(Live)
  BY UpstreamIs DEF OnCWrite, Idle, At, inputs, Types, ClientTypes
<1>2. Moved(t) /\ pc'[t] = "cwritten" /\ on'[t] # "post"
  <2>1. on'[t] = "client"
    BY DEF OnCWrite, Handle, Types, ThreadTypes
  <2> QED
    BY <2>1, TakesMove
<1>3. cpending # <<>> /\ cwbuff = x /\ \A u \in Threads : ~CWrites(u)
  BY <1>1 DEF OneCWrite, CBusy
<1>4. x \in Live /\ x = cpending[1]
  BY <1>1, <1>3
<1>5. ~Overlap(id) /\ (same => Overlap(id)')
  BY <1>1, <1>2, <1>3, <1>4 DEF Overlap, CWrites
<1> HIDE DEF x
<1>6. Times(id, up') = Times(id, up) + One(same)
  <2>1. x \in Counted /\ (IsCopy(id, x) <=> same)
    BY <1>4, NamesAssumption DEF Counted, IsCopy, Live, Messages
  <2> HIDE DEF same
  <2>2. One(IsCopy(id, x)) = One(same)
    BY <2>1 DEF One
  <2>3. Times(id, Append(up, x)) = Times(id, up) + One(IsCopy(id, x))
    BY <1>1, <2>1, TimesAppend
  <2> QED
    BY <1>1, <1>3, <2>2, <2>3
<1> HIDE DEF same
<1>7. One(same) \in Int
  BY DEF One
<1>8. Cardinality(Posters(id)') =< Cardinality(Posters(id)) + 0
  <2>1. Posters(id)' \subseteq Posters(id)
    BY <1>2, PostersMove
  <2> QED
    BY <2>1, PostersCount, UpstreamIs
<1>9. /\ Times(id, posts') =< Times(id, posts) + 0
      /\ Times(id, cpending') =< Times(id, cpending) + 0 /\ Times(id, up') =< Times(id, up) + One(same)
  BY <1>1, <1>6, <1>7, UpstreamIs
<1>10. One(Overlap(id)') >= One(Overlap(id)) + One(same)
  BY <1>5 DEF One
<1>11. 0 + 0 + 0 + One(same) - One(same) =< One(id \in typed') + One(Done(id)') - One(id \in typed) - One(Done(id))
  BY <1>1, <1>7 DEF One
<1> QED
  BY <1>7, <1>8, <1>9, <1>10, <1>11, UpSum

\* on_write takes it out.
LEMMA CWrittenUp ==
    ASSUME Types, Types', OneCWrite, NEW id, Upward(id), Done(id) => Done(id)', NEW t \in Threads, CWritten(t)
    PROVE  Upward(id)'
<1> DEFINE x == Head(cpending)
           same == x.id = id
           n == 0 - One(same)
<1>1. /\ pc[t] = "cwritten" /\ cpending' = Tail(cpending) /\ UNCHANGED <<posts, up, typed>>
      /\ cpending \in Seq(Counted) /\ cpending \in Seq(Live)
  BY UpstreamIs DEF CWritten, At, inputs, Types, ClientTypes
<1>2. Moved(t) /\ on'[t] # "post"
  <2>1. on'[t] = None
    BY DEF CWritten, Handle, End, Types, ThreadTypes
  <2> QED
    BY <2>1, ClientMoves, NamesAssumption
<1>3. cpending # <<>>
  BY <1>1 DEF OneCWrite, CBusy, CWrites
<1>4. x \in Live /\ x = cpending[1]
  BY <1>1, <1>3
<1>5. Overlap(id) => same
  BY <1>4 DEF Overlap
<1> HIDE DEF x
<1>6. Times(id, cpending) = Times(id, cpending') + One(same)
  <2>1. IsCopy(id, x) <=> same
    BY <1>4, NamesAssumption DEF IsCopy, Live, Messages
  <2>2. One(IsCopy(id, x)) = One(same)
    BY <2>1 DEF One
  <2>3. Times(id, cpending) = Times(id, Tail(cpending)) + One(IsCopy(id, x))
    BY <1>1, <1>3, TimesTail DEF x
  <2> HIDE DEF same
  <2> QED
    BY <1>1, <2>2, <2>3
<1> HIDE DEF same
<1>7. One(same) \in Int /\ n \in Int
  BY DEF One
<1>8. Cardinality(Posters(id)') =< Cardinality(Posters(id)) + 0
  <2>1. Posters(id)' \subseteq Posters(id)
    BY <1>2, PostersMove
  <2> QED
    BY <2>1, PostersCount, UpstreamIs
<1>9. /\ Times(id, posts') =< Times(id, posts) + 0
      /\ Times(id, cpending') =< Times(id, cpending) + n /\ Times(id, up') =< Times(id, up) + 0
  <2>1. Times(id, posts) \in Int /\ Times(id, cpending) \in Int /\ Times(id, up) \in Int
    BY UpstreamIs
  <2>2. Times(id, cpending') \in Int
    BY UpstreamNext
  <2> QED
    BY <1>1, <1>6, <1>7, <2>1, <2>2
<1>10. One(Overlap(id)') >= One(Overlap(id)) + n
  BY <1>5 DEF One
<1>11. 0 + 0 + n + 0 - n =< One(id \in typed') + One(Done(id)') - One(id \in typed) - One(Done(id))
  BY <1>1, <1>7 DEF One
<1> HIDE DEF n
<1> QED
  BY <1>7, <1>8, <1>9, <1>10, <1>11, UpSum

\* What is typed, posted, pushed and written to the next process, and who does it.
LEMMA UpNext ==
    ASSUME CacheHoldsAll, WInv, Types', Once, NEW id \in Ids, Upward(id), [Next]_vars
    PROVE  Upward(id)'
<1>0. Types /\ Sends /\ OneCWrite
  BY DEF WInv
<1>1. CASE crashed' # crashed \/ crashed
  <2>1. UNCHANGED <<group, client, posts, inputs, threads>>
    BY <1>1, CrashStays
  <2>2. Posters(id)' = Posters(id) /\ (Overlap(id)' <=> Overlap(id)) /\ (Done(id)' <=> Done(id))
    BY <2>1 DEF group, client, threads, Posters, Overlap, Done, Fans
  <2> QED
    BY <1>0, <2>1, <2>2, UpStays DEF client, inputs
<1> SUFFICES ASSUME ~crashed' PROVE Upward(id)'
  BY <1>0, <1>1 DEF Types, InputTypes
<1>2. Done(id) => Done(id)'
  BY <1>0, DoneStays
<1>3. ASSUME UNCHANGED <<posts, cpending, up, typed, threads>> PROVE Upward(id)'
  <2>1. Posters(id)' = Posters(id) /\ (Overlap(id)' <=> Overlap(id))
    BY <1>3 DEF threads, Posters, Overlap
  <2> QED
    BY <1>0, <1>2, <1>3, <2>1, UpStays
<1>4. ASSUME NEW t \in Threads,
             \/ \E m \in Arriving : OnCRead(t, m)
             \/ \E s \in Sessions : \/ OnAccept(t, s) \/ OnReadError(t, s) \/ OnWrite(t, s) \/ OnWriteError(t, s)
                                    \/ \E m \in Arriving : OnRead(t, s, m)
      PROVE  Upward(id)'
  <2>1. pc[t] = "idle" /\ UNCHANGED <<posts, cpending, up, typed>>
    BY <1>4 DEF OnCRead, OnAccept, OnReadError, OnRead, OnWrite, OnWriteError, Idle, At, client, inputs
  <2>2. on'[t] \in Sessions \cup {"client"}
    BY <1>0, <1>4 DEF OnCRead, OnAccept, OnReadError, OnRead, OnWrite, OnWriteError, Handle, Types, ThreadTypes
  <2>3. Moved(t)
    BY <1>0, <1>4, TakesMove
  <2> QED
    BY <1>0, <1>2, <2>1, <2>2, <2>3, UpMove, NamesAssumption
<1>5. ASSUME NEW t \in Threads, Step(t), ~Post(t), ~Push(t), ~CWritten(t) PROVE Upward(id)'
  <2>1. pc[t] # "cwritten" /\ UNCHANGED <<posts, cpending, up, typed>>
    BY <1>5 DEF Step, Check, Fan, Using, Recent, Join, Replay, JoinEnd, Run, Again, DoWrite, Written, Leave,
                Lock, CDoWrite, CRead, CAgain, At, client, inputs
  <2>2. on'[t] # "post" \/ (on'[t] = on[t] /\ (on[t] = "post" => msg'[t] = msg[t]))
    <3>1. CASE Run(t) \/ Again(t) \/ CDoWrite(t) \/ CAgain(t)
      <4>1. End(t)
        BY <3>1 DEF Run, Again, CDoWrite, CAgain, Using
      <4>2. on'[t] = None
        BY <1>0, <4>1 DEF End, Types, ThreadTypes
      <4> QED
        BY <4>2, NamesAssumption
    <3>2. CASE Written(t) \/ Leave(t)
      <4>1. on' = [on EXCEPT ![t] = None]
        BY <3>2 DEF Written, Leave, Using, End
      <4>2. on'[t] = None
        BY <1>0, <4>1 DEF Types, ThreadTypes
      <4> QED
        BY <4>2, NamesAssumption
    <3>3. CASE Check(t) \/ Recent(t) \/ Join(t) \/ Replay(t) \/ JoinEnd(t) \/ DoWrite(t) \/ Lock(t)
               \/ \E s \in Sessions : Fan(t, s)
      BY <3>3 DEF Check, Recent, Join, Replay, JoinEnd, DoWrite, Lock, Fan, Using
    <3>4. CASE CRead(t)
      <4>1. on[t] = "client" /\ on' = on
        BY <1>0, <3>4 DEF CRead, At, Types, Control
      <4> QED
        BY <4>1
    <3> QED
      BY <1>5, <3>1, <3>2, <3>3, <3>4 DEF Step
  <2> QED
    BY <1>0, <1>2, <1>5, <2>1, <2>2, StepMoves, UpMove
<1>6. ASSUME NEW t \in Threads, Post(t) \/ Push(t) \/ CWritten(t) \/ OnPost(t) \/ OnCWrite(t) PROVE Upward(id)'
  BY <1>0, <1>2, <1>6, PostUp, PushUp, CWrittenUp, OnPostUp, OnCWriteUp
<1>7. ASSUME Close \/ (\E m \in OwnMsgs : Type(m)) \/ \E t \in Threads : OnClose(t) PROVE Upward(id)'
  BY <1>0, <1>2, <1>7, CloseUp, TypeUp
<1>8. ASSUME UNCHANGED vars \/ \E t \in Threads : \/ OnConnect(t) \/ OnCReadError(t) \/ OnCWriteError(t)
                                                  \/ \E s \in Sessions : OnAborted(t, s)
      PROVE  Upward(id)'
  BY <1>3, <1>8 DEF vars, OnConnect, OnCReadError, OnCWriteError, OnAborted, client, inputs
<1> QED
  BY <1>4, <1>5, <1>6, <1>7, <1>8 DEF Next, Takes, WriteEnds, CWriteEnds

\* At the beginning nothing is on its way.
LEMMA UpInit == ASSUME Init, NEW id \in Ids PROVE Upward(id)
<1>1. Types
  BY TypesInit
<1>2. Posters(id) = {} /\ ~Overlap(id)
  BY NamesAssumption DEF Init, Posters, Overlap
<1>3. Times(id, <<>>) = 0
  <2>1. {k \in DOMAIN <<>> : <<>>[k] # None /\ <<>>[k].id = id} = {}
    OBVIOUS
  <2> QED
    BY <2>1, FS_EmptySet DEF Times
<1>4. Upstream(id) = 0
  <2>1. posts = <<>> /\ cpending = <<>> /\ up = <<>>
    BY DEF Init
  <2>2. Cardinality(Posters(id)) = 0
    BY <1>2, FS_EmptySet
  <2>3. Upstream(id) = Times(id, posts) + Cardinality(Posters(id)) + Times(id, cpending)
                       + Times(id, up) - One(Overlap(id))
    BY <1>1, UpstreamIs
  <2>4. Times(id, posts) = 0 /\ Times(id, cpending) = 0 /\ Times(id, up) = 0
    BY <1>3, <2>1
  <2>5. One(Overlap(id)) = 0
    BY <1>2 DEF One
  <2>6. Upstream(id) = 0 + 0 + 0 + 0 - 0
    BY <2>2, <2>3, <2>4, <2>5
  <2> QED
    BY <2>6
<1> QED
  BY <1>4 DEF Upward, One

\* client.send posts an on_post, which broadcasts, which calls client.send (client.h:30-47, group.h:72):
\* the cache ends the circle as long as it has not forgotten the message.  A peer's message goes to
\* the next process at most once, and one typed here at most twice.
THEOREM CircleEnds ==
    ASSUME CacheHoldsAll, PeerMsgs \cap OwnMsgs = {} PROVE Spec => []UpstreamBounded
<1> DEFINE Ups == \A id \in Ids : Upward(id)
<1>1. ASSUME WInv, Ups PROVE UpstreamBounded
  <2>1. ASSUME NEW id \in Ids
        PROVE  Upstream(id) =< One(id \in typed) + One(Done(id)) /\ Upstream(id) \in Int
    <3>1. Upstream(id) \in Int
      BY <1>1, UpstreamIs DEF WInv, One
    <3> QED
      BY <1>1, <3>1 DEF Upward
  <2>2. typed \subseteq OwnMsgs
    BY <1>1 DEF WInv, Types, InputTypes
  <2>3. \A id \in PeerMsgs : Upstream(id) =< 1
    BY <2>1, <2>2 DEF Ids, One
  <2>4. \A id \in OwnMsgs : Upstream(id) =< 2
    BY <2>1 DEF Ids, One
  <2> QED
    BY <2>3, <2>4 DEF UpstreamBounded
<1>2. WInv /\ Once /\ Ups /\ [Next]_vars => Ups'
  <2> SUFFICES ASSUME WInv, Once, Ups, [Next]_vars, NEW id \in Ids PROVE Upward(id)'
    OBVIOUS
  <2>1. Types'
    BY WInvNext DEF WInv
  <2> QED
    BY <2>1, UpNext
<1>3. WInv /\ Once /\ [Next]_vars => Once'
  BY OnceNext DEF WInv
<1>4. Init => Ups
  BY UpInit
<1> HIDE DEF Ups
<1> QED
  BY <1>1, <1>2, <1>3, <1>4, OnceInit, WInvInit, WInvNext, PTL DEF Spec

=============================================================================
