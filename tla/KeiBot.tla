-------------------------------- MODULE KeiBot --------------------------------
(* The chat-bot file system (practice-3/fuse/keibot.c) in its -b mode: a flat  *)
(* list of entries found by their full path, and two bot directories of which  *)
(* each mirrors what is created and written in the other.                      *)
(*                                                                             *)
(* libfuse calls the handlers from several workers. A handler is one step up   *)
(* to the point where it turns to the mirror; what is left to do then is the   *)
(* worker's job. A call that is refused changes nothing and is no step.        *)
(* Times, permissions and block counts are left out.                           *)
EXTENDS Integers, SequencesExt

CONSTANTS
    Entries,        \* addresses that malloc can give to a file_entry
    Workers,        \* threads of the FUSE loop
    Handles,        \* open files of the kernel
    Paths,          \* paths, as sequences of names; the root is <<>>
    bot1, bot2,     \* options.bot1, options.bot2
    hidden,         \* the name libfuse gives to a file removed while it is open
    Texts,          \* what users write
    Offsets,
    emoji,          \* the emoji that are filled in, numbered from 0
    EmojiIds,       \* numbers that users ask for
    MaxSize,        \* bound: longest file
    MaxCalls,       \* bound: calls made
    Junk, Nul, None

ASSUME PathAssumption ==
    /\ <<bot1>> \in Paths /\ <<bot2>> \in Paths /\ <<>> \notin Paths /\ bot1 # bot2
    /\ \A p \in Paths : p \in Seq(Range(p)) /\ (Len(p) > 1 => Front(p) \in Paths)
    /\ \A p \in Paths : Last(p) # hidden =>
         \A b \in {bot1, bot2} : p[1] \in {bot1, bot2} => <<b>> \o Tail(p) \in Paths

\* What users write, and the emoji that they ask for.
Requests == {[text |-> t, offset |-> o] : t \in Texts, o \in Offsets}
            \cup {[text |-> emoji[i + 1], offset |-> 0] : i \in EmojiIds \cap 0 .. Len(emoji) - 1}
Bytes == {Junk, Nul} \cup UNION {Range(r.text) : r \in Requests}
ASSUME RequestAssumption ==
    MaxSize \in Nat /\ \A r \in Requests : r.text \in Seq(Bytes) /\ r.offset \in Nat

\* file_entry, content being the whole block. History: over, the bytes that the last write put
\* past the end of the block.
Files == [path : Paths, dir : BOOLEAN, bare : BOOLEAN, size : 0..MaxSize, content : Seq(Bytes),
          over : Nat]
\* What a write in a bot directory leaves to do.
Copies == [op : {"find"}, path : Paths, twin : Paths, request : Requests]
          \cup [op : {"write"}, path : Paths, request : Requests, entry : Entries]
ASSUME NoneAssumption == None \notin Entries \cup Paths /\ None \notin Files /\ None \notin Copies

VARIABLES
    entry,          \* [Entries -> file_entry or None]: the list
    fh,             \* [Handles -> [entry, path, astray] or None]: fi->fh, and the path that
                    \* libfuse's node has, <<>> for none; history: a directory was moved or
                    \* replaced over it
    job,            \* [Workers -> what the handler has left to do, or None]
    stale,          \* <<name, is it a directory>>: names the kernel may still hold after the
                    \* move of a directory, entry or not
    strings,        \* of bot1_path and bot2_path, those that have not been freed
    paired,         \* history: paths created in both bot directories by one call, both intact
    down,           \* the process has ended, by unmount or abort
    calls           \* calls made so far
vars == <<entry, fh, job, stale, strings, paired, down, calls>>

Bots == {bot1, bot2}

-----------------------------------------------------------------------------
(* Entries *)

Live == {e \in Entries : entry[e] # None}
find_entry(p) == LET found == {e \in Live : entry[e].path = p}
                 IN IF found = {} THEN None ELSE CHOOSE e \in found : TRUE
Exists(p) == p = <<>> \/ find_entry(p) # None
IsDirectory(p) == \/ p = <<>>
                  \/ find_entry(p) # None /\ entry[find_entry(p)].dir
                  \/ find_entry(p) = None /\ <<p, TRUE>> \in stale
\* The kernel looks a path up from the root.
Reaches(p) == \A n \in 0 .. Len(p) - 1 : IsDirectory(SubSeq(p, 1, n))

\* The macro strips the execute bits alone, so that it is true of a directory without read
\* and write bits only.
IS_DIR(e) == entry[e].dir /\ entry[e].bare

is_parent_path(p, q) == IsStrictPrefix(p, q)
Within(p, q) == q = p \/ is_parent_path(p, q)

\* new_file: strdup("") is a block of one byte.
File(p, dir, bare) == [path |-> p, dir |-> dir, bare |-> bare, size |-> 0, content |-> <<Nul>>,
                       over |-> 0]
\* keibot_init and keibot_opendir give a directory no content at all.
Directory(p) == [path |-> p, dir |-> TRUE, bare |-> FALSE, size |-> 0, content |-> <<>>,
                 over |-> 0]

\* del_file frees the path, which for a bot directory is bot1_path or bot2_path itself.
FreedWith(e) == {b \in Bots : entry[e].path = <<b>>}

\* (mutant) a write that starts within the file is taken to fit.
Outgrows_Offset(f, offset, end) == offset > f.size

Outgrows(f, offset, end) == end > f.size

\* realloc, the copy, and the terminator behind it, for which realloc was asked no room. What
\* lands past the block belongs to nobody and is counted.
write_file(f, text, offset) ==
    LET end   == offset + Len(text)
        block == IF Outgrows(f, offset, end)
                   THEN [i \in 1..end |-> IF i =< Len(f.content) THEN f.content[i] ELSE Junk]
                   ELSE f.content
        past  == end + 1 - Len(block)
    IN [f EXCEPT !.size = end,
                 !.over = IF past > 0 THEN past ELSE 0,
                 !.content = [i \in DOMAIN block |->
                     IF offset < i /\ i =< end THEN text[i - offset]
                     ELSE IF i = end + 1 THEN Nul
                     ELSE block[i]]]

-----------------------------------------------------------------------------
(* The mirror *)

Twin(p) == <<IF p[1] = bot1 THEN bot2 ELSE bot1>> \o Tail(p)

\* (mutant) the first bot alone is mirrored.
swtich_bot_First(p) == IF p[1] = bot1 /\ Len(p) > 1 THEN {Twin(p)} ELSE {None}

\* What swtich_bot may answer: once the name of a bot has been freed, what is left of it
\* may match or not.
swtich_bot(p) == IF p[1] \in Bots /\ Len(p) > 1
                   THEN {Twin(p)} \cup (IF p[1] \in strings THEN {} ELSE {None})
                   ELSE {None}

Pair(p) == {p} \cup (IF p[1] \in Bots THEN {Twin(p)} ELSE {})
Unpaired(S) == {p \in paired : Pair(p) \cap S = {}}

\* libfuse holds the path of a handler that is under way, and those above it, against
\* calls that remove or move them.
Held(p) == \E w \in Workers : job[w] # None /\ IsPrefix(p, job[w].path)
\* The kernel makes the calls that create and write one file wait for each other.
InUse(p) == \E w \in Workers : job[w] # None /\ job[w].path = p
\* libfuse counts the handles of the node that has the path.
IsOpen(p) == \E h \in Handles : fh[h] # None /\ fh[h].path = p
\* A node whose directory is gone has no path, and libfuse refuses (ESTALE) what needs one.
Usable(h) == fh[h] # None /\ fh[h].path # <<>>

-----------------------------------------------------------------------------
(* keibot_init: the two bot directories; the root is never removed. *)
Init ==
    /\ \E e1, e2 \in Entries :
         /\ e1 # e2
         /\ entry = [e \in Entries |-> IF e = e1 THEN Directory(<<bot1>>)
                                       ELSE IF e = e2 THEN Directory(<<bot2>>)
                                       ELSE None]
    /\ fh = [h \in Handles |-> None]
    /\ job = [w \in Workers |-> None]
    /\ stale = {}
    /\ strings = Bots
    /\ paired = {}
    /\ down = FALSE
    /\ calls = 0

\* keibot_mknod and keibot_mkdir: create_file under the path, then under its twin.
keibot_mknod(w, p, dir, bare) ==
    /\ Reaches(p) /\ ~Exists(p)
    /\ \E e \in Entries \ Live, np \in swtich_bot(p) :
         /\ entry' = [entry EXCEPT ![e] = File(p, dir, bare)]
         /\ job' = [job EXCEPT ![w] = IF np = None THEN None
                      ELSE [op |-> "create", path |-> p, twin |-> np, dir |-> dir, bare |-> bare]]
    /\ UNCHANGED <<fh, stale, strings, paired, down>>

\* The second create_file; its -EEXIST is what the caller gets, with the first file made.
MirrorCreate(w) ==
    /\ job[w] # None /\ job[w].op = "create"
    /\ LET j == job[w] IN
         IF Exists(j.twin) THEN UNCHANGED <<entry, paired>>
         ELSE \E e \in Entries \ Live :
                /\ entry' = [entry EXCEPT ![e] = File(j.twin, j.dir, j.bare)]
                /\ paired' = paired \cup Pair(j.path)
    /\ job' = [job EXCEPT ![w] = None]
    /\ UNCHANGED <<fh, stale, strings, down>>

\* keibot_unlink, which libfuse calls for a file that is not open.
keibot_unlink(p) ==
    LET e == find_entry(p) IN
    /\ Reaches(p) /\ e # None /\ ~entry[e].dir /\ ~IsOpen(p) /\ ~Held(p)
    /\ entry' = [entry EXCEPT ![e] = None]
    /\ stale' = stale \ ({p} \X BOOLEAN)
    /\ paired' = Unpaired({p})
    /\ UNCHANGED <<fh, job, strings, down>>

\* The nodes below a directory that was moved here do not keep it from being removed.
keibot_rmdir(p) ==
    LET e == find_entry(p) IN
    /\ Reaches(p) /\ e # None /\ entry[e].dir /\ ~Held(p)
    /\ \A x \in Live : ~is_parent_path(p, entry[x].path)
    /\ entry' = [entry EXCEPT ![e] = None]
    /\ fh' = [h \in Handles |-> IF fh[h] # None /\ Within(p, fh[h].path)
                                THEN [fh[h] EXCEPT !.path = <<>>, !.astray = TRUE] ELSE fh[h]]
    /\ stale' = {q \in stale : ~Within(p, q[1])}
    /\ strings' = strings \ FreedWith(e)
    /\ paired' = Unpaired({p})
    /\ UNCHANGED <<job, down>>

-----------------------------------------------------------------------------
(* Open files *)

Handle(e, p) == [entry |-> e, path |-> p, astray |-> FALSE]

\* keibot_open makes the file when it finds none: the kernel may still hold the name of a
\* file whose directory was renamed.
keibot_open(h, p) ==
    /\ fh[h] = None /\ Reaches(p) /\ ~InUse(p)
    /\ \/ /\ find_entry(p) # None /\ ~IsDirectory(p)
          /\ fh' = [fh EXCEPT ![h] = Handle(find_entry(p), p)]
          /\ UNCHANGED entry
       \/ \E e \in Entries \ Live :
            /\ <<p, FALSE>> \in stale /\ ~Exists(p)
            /\ entry' = [entry EXCEPT ![e] = File(p, FALSE, FALSE)]
            /\ fh' = [fh EXCEPT ![h] = Handle(e, p)]
    /\ UNCHANGED <<job, stale, strings, paired, down>>

\* keibot_opendir does the same for a directory; the handle it sets is read by nobody.
keibot_opendir(p) ==
    /\ Reaches(p) /\ <<p, TRUE>> \in stale /\ ~Exists(p)
    /\ \E e \in Entries \ Live : entry' = [entry EXCEPT ![e] = Directory(p)]
    /\ UNCHANGED <<fh, job, stale, strings, paired, down>>

\* keibot_release; libfuse then removes a hidden file that nobody else has open.
keibot_release(h) ==
    /\ fh[h] # None /\ ~InUse(fh[h].path)
    /\ fh' = [fh EXCEPT ![h] = None]
    /\ LET p    == fh[h].path
           last == \A g \in Handles \ {h} : fh[g] = None \/ fh[g].path # p
           gone == {find_entry(p)} \cap (IF last /\ p # <<>> /\ Last(p) = hidden THEN Live ELSE {})
       IN entry' = [e \in Entries |-> IF e \in gone THEN None ELSE entry[e]]
    /\ UNCHANGED <<job, stale, strings, paired, down>>

\* keibot_write on the file of the handle; the mirror is looked up by the path of the node. The
\* two are different files for a handle that was left behind by a directory.
keibot_write(w, h, r) ==
    /\ Usable(h) /\ fh[h].entry \in Live /\ ~InUse(fh[h].path) /\ r.offset + Len(r.text) =< MaxSize
    /\ LET e == fh[h].entry IN
         entry' = [entry EXCEPT ![e] = write_file(@, r.text, r.offset)]
    /\ \E np \in swtich_bot(fh[h].path) :
         job' = [job EXCEPT ![w] = IF np = None THEN None
                   ELSE [op |-> "find", path |-> fh[h].path, twin |-> np, request |-> r]]
    /\ paired' = IF fh[h].astray THEN Unpaired(Pair(fh[h].path) \cup {entry[fh[h].entry].path})
                 ELSE paired
    /\ UNCHANGED <<fh, stale, strings, down>>

\* The entry was removed by its old path: keibot_read and keibot_write use freed memory.
FreedEntry(h) ==
    /\ Usable(h) /\ fh[h].entry \notin Live
    /\ down' = TRUE
    /\ UNCHANGED <<entry, fh, job, stale, strings, paired>>

\* libfuse hides each file under a name of its own, which no other file has.
MirrorFind(w) ==
    /\ job[w] # None /\ job[w].op = "find"
    /\ LET j == job[w] IN
         job' = [job EXCEPT ![w] = IF find_entry(j.twin) = None \/ Last(j.twin) = hidden THEN None
                   ELSE [op |-> "write", path |-> j.path, request |-> j.request,
                         entry |-> find_entry(j.twin)]]
    /\ UNCHANGED <<entry, fh, stale, strings, paired, down>>

MirrorWrite(w) ==
    /\ job[w] # None /\ job[w].op = "write" /\ job[w].entry \in Live
    /\ LET j == job[w] IN
         entry' = IF IS_DIR(j.entry) THEN entry
                  ELSE [entry EXCEPT ![j.entry] = write_file(@, j.request.text, j.request.offset)]
    /\ job' = [job EXCEPT ![w] = None]
    /\ UNCHANGED <<fh, stale, strings, paired, down>>

\* What keibot_read copies out.
keibot_read(e, bytes, offset) ==
    LET f == entry[e]
        rest == IF f.size > offset THEN f.size - offset ELSE 0
        rbytes == IF rest < bytes THEN rest ELSE bytes
    IN SubSeq(f.content, offset + 1, offset + rbytes)

-----------------------------------------------------------------------------
(* keibot_rename *)

\* libfuse's own names of what lies below follow a directory that is moved.
Moved(q, src, dest) == dest \o SubSeq(q, Len(src) + 1, Len(q))

\* The node of an open file goes with the file, and with a directory above it, while its entry
\* keeps the old path; below a directory that is replaced it has no path any more.
Followed(x, src, dest) ==
    IF is_parent_path(dest, x.path) THEN [x EXCEPT !.path = <<>>, !.astray = TRUE]
    ELSE IF is_parent_path(src, x.path) THEN [x EXCEPT !.path = Moved(@, src, dest), !.astray = TRUE]
    ELSE IF x.path = src THEN [x EXCEPT !.path = dest]
    ELSE x

Movable(src, dest) ==
    /\ Exists(src) /\ Reaches(src) /\ Reaches(dest)
    /\ ~Within(src, dest) /\ ~Within(dest, src) /\ ~Held(src) /\ ~Held(dest) /\ ~IsOpen(dest)
    /\ Exists(dest) => IsDirectory(src) = IsDirectory(dest)

\* (mutant) the target is not deleted.
Renamed_Twice(s, d, dest) == [entry EXCEPT ![s].path = dest]
\* (mutant) what the source has is copied to the target, and the source deleted.
Renamed_Copied(s, d, dest) ==
    IF d = None THEN [entry EXCEPT ![s].path = dest]
    ELSE [entry EXCEPT ![d] = [entry[s] EXCEPT !.path = dest], ![s] = None]

Renamed(s, d, dest) ==
    [x \in Entries |-> IF x = s THEN [entry[s] EXCEPT !.path = dest]
                       ELSE IF x = d THEN None ELSE entry[x]]

\* The entry takes the new path, that of the target is deleted. What lies in a directory
\* keeps its old path, unless IS_DIR sees the directory: then the process aborts.
keibot_rename(src, dest) ==
    LET s    == find_entry(src)
        d    == find_entry(dest)
        subs == {x \in Live \ {s, d} : is_parent_path(src, entry[x].path)}
    IN
    /\ Movable(src, dest)
    /\ entry' = Renamed(s, d, dest)
    /\ strings' = strings \ (FreedWith(s) \cup IF d = None THEN {} ELSE FreedWith(d))
    /\ fh' = [h \in Handles |-> IF fh[h] = None THEN None ELSE Followed(fh[h], src, dest)]
    /\ LET below == {q \in stale : is_parent_path(src, q[1])}
                    \cup {<<entry[x].path, entry[x].dir>> : x \in subs}
       IN stale' = {q \in stale : ~Within(src, q[1]) /\ ~Within(dest, q[1])}
                   \cup ({<<Moved(q[1], src, dest), q[2]>> : q \in below} \cap (Paths \X BOOLEAN))
    /\ paired' = {p \in paired : \A q \in Pair(p) : ~Within(src, q) /\ ~Within(dest, q)}
    /\ down' = (IS_DIR(s) /\ subs # {})
    /\ UNCHANGED job

\* A file that is removed while it is open is renamed by libfuse instead.
Hide(p) == /\ Exists(p) /\ ~IsDirectory(p) /\ IsOpen(p) /\ Last(p) # hidden
           /\ Append(Front(p), hidden) \in Paths /\ ~Exists(Append(Front(p), hidden))
           /\ keibot_rename(p, Append(Front(p), hidden))

\* assert(0) for RENAME_EXCHANGE.
Exchange(p, q) ==
    /\ p # q /\ Exists(p) /\ Exists(q) /\ Reaches(p) /\ Reaches(q) /\ ~Held(p) /\ ~Held(q)
    /\ down' = TRUE
    /\ UNCHANGED <<entry, fh, job, stale, strings, paired>>

\* emoji[id] is a null pointer beyond those that keibot_init fills in.
MissingEmoji(h) ==
    /\ fh[h] # None /\ EmojiIds \ (0 .. Len(emoji) - 1) # {}
    /\ down' = TRUE
    /\ UNCHANGED <<entry, fh, job, stale, strings, paired>>

\* keibot_destroy, at unmount: the entries free the two names, which are then freed again.
keibot_destroy ==
    /\ \A w \in Workers : job[w] = None
    /\ \A h \in Handles : fh[h] = None
    /\ entry' = [e \in Entries |-> None]
    /\ strings' = {} /\ paired' = {} /\ down' = TRUE
    /\ UNCHANGED <<fh, job, stale>>

-----------------------------------------------------------------------------
Idle(w) == job[w] = None
\* Users do not name the files that libfuse hides.
Named == {p \in Paths : Last(p) # hidden}

Call(w) ==
    /\ Idle(w) /\ calls < MaxCalls /\ calls' = calls + 1
    /\ \/ \E p \in Named, dir, bare \in BOOLEAN : (bare => dir) /\ keibot_mknod(w, p, dir, bare)
       \/ \E h \in Handles, r \in Requests : keibot_write(w, h, r)
       \/ \E p \in Named : keibot_unlink(p) \/ keibot_rmdir(p) \/ keibot_opendir(p) \/ Hide(p)
       \/ \E h \in Handles, p \in Named : keibot_open(h, p)
       \/ \E h \in Handles : keibot_release(h)
       \/ \E p, q \in Named : keibot_rename(p, q)
       \/ \E p, q \in Named : Exchange(p, q)
       \/ \E h \in Handles : MissingEmoji(h) \/ FreedEntry(h)
       \/ keibot_destroy

Mirror(w) == /\ MirrorCreate(w) \/ MirrorFind(w) \/ MirrorWrite(w)
             /\ UNCHANGED calls

Next == ~down /\ \E w \in Workers : Call(w) \/ Mirror(w)
Spec == Init /\ [][Next]_vars
=============================================================================
