----------------------------- MODULE KeiBotProofs -----------------------------
(* The chat-bot file system, for every number of entries, paths, handles and   *)
(* calls: a path names one entry, the block of an entry holds its size, and an *)
(* open file is the one that its path names, whatever the number of workers;   *)
(* the two sides of a pair read the same when there is one.                    *)
EXTENDS KeiBotProperties, SequenceTheorems, TLAPS

\* An entry that is in the list has the fields of a file_entry.
IsFile(f) == f = [path |-> f.path, dir |-> f.dir, bare |-> f.bare, size |-> f.size,
                  content |-> f.content, over |-> f.over]
Records == entry = [e \in Entries |-> entry[e]] /\ \A e \in Live : IsFile(entry[e])
IInv == Records /\ OneEntryPerPath

-----------------------------------------------------------------------------
(* The fields that a write or a rename leaves alone. *)

LEMMA FileFields ==
    ASSUME NEW p, NEW dir, NEW bare
    PROVE  IsFile(File(p, dir, bare)) /\ File(p, dir, bare).path = p
BY DEF IsFile, File

LEMMA DirectoryFields ==
    ASSUME NEW p
    PROVE  IsFile(Directory(p)) /\ Directory(p).path = p
BY DEF IsFile, Directory

Sized(f, size, over, content) == [f EXCEPT !.size = size, !.over = over, !.content = content]

LEMMA UpdateFields ==
    ASSUME NEW f, IsFile(f), NEW size, NEW over, NEW content
    PROVE  LET g == Sized(f, size, over, content)
           IN /\ IsFile(g) /\ g.size = size /\ g.over = over /\ g.content = content
              /\ g.path = f.path /\ g.dir = f.dir /\ g.bare = f.bare
<1> DEFINE k == [f EXCEPT !.size = size]
           h == [k EXCEPT !.over = over]
           g == Sized(f, size, over, content)
<1>1. /\ IsFile(k) /\ k.size = size
      /\ k.path = f.path /\ k.dir = f.dir /\ k.bare = f.bare
  BY DEF IsFile
<1>2. g = [h EXCEPT !.content = content]
  BY DEF Sized
<1> HIDE DEF k
<1>5. /\ IsFile(h) /\ h.size = k.size /\ h.over = over
      /\ h.path = k.path /\ h.dir = k.dir /\ h.bare = k.bare
  BY <1>1 DEF IsFile
<1> HIDE DEF g, h
<1>3. /\ IsFile(g) /\ g.size = h.size /\ g.over = h.over /\ g.content = content
      /\ g.path = h.path /\ g.dir = h.dir /\ g.bare = h.bare
  BY <1>2, <1>5 DEF IsFile
<1>4. /\ IsFile(g) /\ g.size = size /\ g.over = over /\ g.content = content
      /\ g.path = f.path /\ g.dir = f.dir /\ g.bare = f.bare
  BY <1>1, <1>3, <1>5
<1> QED
  BY <1>4 DEF g

\* A write changes neither the path of an entry nor its kind.
LEMMA WriteFields ==
    ASSUME NEW f, IsFile(f), NEW text, NEW offset
    PROVE  LET g == write_file(f, text, offset)
           IN IsFile(g) /\ g.path = f.path /\ g.dir = f.dir /\ g.bare = f.bare
<1>1. PICK size, over, content : write_file(f, text, offset) = Sized(f, size, over, content)
  BY Zenon DEF write_file, Sized
<1> QED
  BY <1>1, UpdateFields

LEMMA RenameFields ==
    ASSUME NEW f, IsFile(f), NEW p
    PROVE  IsFile([f EXCEPT !.path = p]) /\ [f EXCEPT !.path = p].path = p
BY DEF IsFile

\* find_entry answers None exactly when no entry of the list has the path.
LEMMA FindEntry ==
    ASSUME NEW p
    PROVE  /\ find_entry(p) = None => \A e \in Live : entry[e].path # p
           /\ find_entry(p) # None => find_entry(p) \in Live /\ entry[find_entry(p)].path = p
<1> DEFINE found == {e \in Live : entry[e].path = p}
<1>1. CASE found = {}
  <2>1. find_entry(p) = None
    BY <1>1 DEF find_entry
  <2> QED
    BY <2>1, <1>1
<1>2. CASE found # {}
  <2>1. find_entry(p) = CHOOSE e \in found : TRUE
    BY <1>2 DEF find_entry
  <2>2. find_entry(p) \in found
    BY <2>1, <1>2
  <2>3. find_entry(p) # None
    BY <2>2, NoneAssumption DEF Live
  <2> QED
    BY <2>2, <2>3
<1> QED
  BY <1>1, <1>2

-----------------------------------------------------------------------------
(* What a step may do to the list and keep the invariant. *)

\* Entries keep their path or leave the list.
LEMMA Shrinks ==
    ASSUME IInv,
           entry' = [e \in Entries |-> entry'[e]],
           \A e \in Entries : entry'[e] # None =>
              e \in Live /\ IsFile(entry'[e]) /\ entry'[e].path = entry[e].path
    PROVE  IInv'
BY DEF IInv, Records, OneEntryPerPath, Live, IsFile

\* One entry is given a path that no other has.
LEMMA Places ==
    ASSUME IInv, NEW s \in Entries, NEW p, NEW f, IsFile(f), f.path = p,
           entry' = [e \in Entries |-> entry'[e]],
           entry'[s] = f,
           \A e \in Entries \ {s} : entry'[e] # None =>
              e \in Live /\ entry'[e] = entry[e] /\ entry[e].path # p
    PROVE  IInv'
<1>1. \A e \in Live' : IsFile(entry'[e])
  BY DEF IInv, Records, Live, IsFile
<1>2. \A e, x \in Live' : entry'[e].path = entry'[x].path => e = x
  BY DEF IInv, OneEntryPerPath, Live
<1> QED
  BY <1>1, <1>2 DEF IInv, Records, OneEntryPerPath, Live, IsFile

LEMMA Same == ASSUME IInv, UNCHANGED entry PROVE IInv'
BY DEF IInv, Records, OneEntryPerPath, Live, IsFile

\* create_file under a path that does not exist.
LEMMA Creates ==
    ASSUME IInv, NEW e \in Entries \ Live, NEW p, ~Exists(p), NEW f, IsFile(f), f.path = p,
           entry' = [entry EXCEPT ![e] = f]
    PROVE  IInv'
<1>1. \A x \in Live : entry[x].path # p
  BY FindEntry DEF Exists
<1>2. entry' = [x \in Entries |-> entry'[x]] /\ entry'[e] = f
  BY DEF IInv, Records
<1>3. \A x \in Entries \ {e} : entry'[x] = entry[x]
  BY DEF IInv, Records
<1>4. \A x \in Entries \ {e} : entry'[x] # None =>
              x \in Live /\ entry'[x] = entry[x] /\ entry[x].path # p
  BY <1>1, <1>3 DEF Live
<1> QED
  BY <1>2, <1>4, Places

LEMMA CreatesFile ==
    ASSUME IInv, NEW e \in Entries \ Live, NEW p, ~Exists(p), NEW dir, NEW bare,
           entry' = [entry EXCEPT ![e] = File(p, dir, bare)]
    PROVE  IInv'
<1> DEFINE f == File(p, dir, bare)
<1>1. IsFile(f) /\ f.path = p
  BY FileFields
<1>2. entry' = [entry EXCEPT ![e] = f]
  OBVIOUS
<1> HIDE DEF f
<1> QED
  BY <1>1, <1>2, Creates

LEMMA CreatesDirectory ==
    ASSUME IInv, NEW e \in Entries \ Live, NEW p, ~Exists(p),
           entry' = [entry EXCEPT ![e] = Directory(p)]
    PROVE  IInv'
<1> DEFINE f == Directory(p)
<1>1. IsFile(f) /\ f.path = p
  BY DirectoryFields
<1>2. entry' = [entry EXCEPT ![e] = f]
  OBVIOUS
<1> HIDE DEF f
<1> QED
  BY <1>1, <1>2, Creates

\* write_file on an entry of the list.
LEMMA Writes ==
    ASSUME IInv, NEW e \in Live, NEW text, NEW offset,
           entry' = [entry EXCEPT ![e] = write_file(@, text, offset)]
    PROVE  IInv'
<1> DEFINE g == write_file(entry[e], text, offset)
<1>1. IsFile(g) /\ g.path = entry[e].path
  BY WriteFields DEF IInv, Records
<1>2. entry' = [entry EXCEPT ![e] = g]
  OBVIOUS
<1> HIDE DEF g
<1>3. entry' = [x \in Entries |-> entry'[x]] /\ entry'[e] = g
  BY <1>2 DEF IInv, Records, Live
<1>4. \A x \in Entries \ {e} : entry'[x] = entry[x]
  BY <1>2 DEF IInv, Records
<1>5. ASSUME NEW x \in Entries, entry'[x] # None
      PROVE  x \in Live /\ IsFile(entry'[x]) /\ entry'[x].path = entry[x].path
  <2>1. CASE x = e
    BY <1>1, <1>3, <2>1
  <2>2. CASE x # e
    <3>1. entry'[x] = entry[x] /\ x \in Live
      BY <1>4, <1>5, <2>2 DEF Live
    <3> QED
      BY <3>1 DEF IInv, Records
  <2> QED
    BY <2>1, <2>2
<1> QED
  BY <1>3, <1>5, Shrinks

-----------------------------------------------------------------------------
LEMMA Initially == Init => IInv
<1> SUFFICES ASSUME Init PROVE IInv
  OBVIOUS
<1>1. PICK e1, e2 \in Entries :
        /\ e1 # e2
        /\ entry = [e \in Entries |-> IF e = e1 THEN Directory(<<bot1>>)
                                      ELSE IF e = e2 THEN Directory(<<bot2>>)
                                      ELSE None]
  BY DEF Init
<1>2. /\ IsFile(Directory(<<bot1>>)) /\ Directory(<<bot1>>).path = <<bot1>>
      /\ IsFile(Directory(<<bot2>>)) /\ Directory(<<bot2>>).path = <<bot2>>
  BY DirectoryFields
<1>3. <<bot1>> # <<bot2>>
  BY PathAssumption
<1>4. Records
  BY <1>1, <1>2 DEF Records, Live
<1>5. OneEntryPerPath
  BY <1>1, <1>2, <1>3 DEF OneEntryPerPath, Live
<1> QED
  BY <1>4, <1>5 DEF IInv

LEMMA MknodStep ==
    ASSUME IInv, NEW w, NEW p, NEW dir, NEW bare, keibot_mknod(w, p, dir, bare) PROVE IInv'
<1>1. PICK e \in Entries \ Live : entry' = [entry EXCEPT ![e] = File(p, dir, bare)]
  BY DEF keibot_mknod
<1>2. ~Exists(p)
  BY DEF keibot_mknod
<1> QED
  BY <1>1, <1>2, CreatesFile

LEMMA MirrorCreateStep == ASSUME IInv, NEW w, MirrorCreate(w) PROVE IInv'
<1>1. CASE Exists(job[w].twin)
  BY <1>1, Same DEF MirrorCreate
<1>2. CASE ~Exists(job[w].twin)
  <2>1. PICK e \in Entries \ Live :
           entry' = [entry EXCEPT ![e] = File(job[w].twin, job[w].dir, job[w].bare)]
    BY <1>2 DEF MirrorCreate
  <2> QED
    BY <1>2, <2>1, CreatesFile
<1> QED
  BY <1>1, <1>2

LEMMA RemoveStep ==
    ASSUME IInv, NEW S, entry' = [e \in Entries |-> IF e \in S THEN None ELSE entry[e]]
    PROVE  IInv'
<1>1. \A e \in Entries : entry'[e] # None => entry'[e] = entry[e] /\ e \in Live
  BY DEF Live
<1> QED
  BY <1>1, Shrinks DEF IInv, Records

\* keibot_unlink, keibot_rmdir, keibot_release and keibot_destroy.
LEMMA UnlinkStep == ASSUME IInv, NEW p, keibot_unlink(p) \/ keibot_rmdir(p) PROVE IInv'
<1> DEFINE e == find_entry(p)
<1>1. entry' = [entry EXCEPT ![e] = None]
  BY DEF keibot_unlink, keibot_rmdir
<1>2. entry' = [x \in Entries |-> IF x \in {e} THEN None ELSE entry[x]]
  BY <1>1 DEF IInv, Records
<1> QED
  BY <1>2, RemoveStep

LEMMA ReleaseStep == ASSUME IInv, NEW h, keibot_release(h) PROVE IInv'
BY RemoveStep DEF keibot_release

LEMMA DestroyStep == ASSUME IInv, keibot_destroy PROVE IInv'
<1>1. entry' = [e \in Entries |-> IF e \in Entries THEN None ELSE entry[e]]
  BY DEF keibot_destroy
<1> QED
  BY <1>1, RemoveStep

LEMMA OpenStep == ASSUME IInv, NEW h, NEW p, keibot_open(h, p) \/ keibot_opendir(p) PROVE IInv'
<1>1. CASE UNCHANGED entry
  BY <1>1, Same
<1>2. ASSUME NEW e \in Entries \ Live, ~Exists(p), NEW dir,
             entry' = [entry EXCEPT ![e] = File(p, dir, FALSE)]
      PROVE  IInv'
  BY <1>2, CreatesFile
<1>3. CASE keibot_open(h, p)
  BY <1>3, <1>1, <1>2 DEF keibot_open
<1>4. CASE keibot_opendir(p)
  BY <1>4, CreatesDirectory DEF keibot_opendir
<1> QED
  BY <1>3, <1>4

LEMMA WriteStep == ASSUME IInv, NEW w, NEW h, NEW r, keibot_write(w, h, r) PROVE IInv'
<1>1. /\ fh[h].entry \in Live
      /\ entry' = [entry EXCEPT ![fh[h].entry] = write_file(@, r.text, r.offset)]
  BY DEF keibot_write
<1> QED
  BY <1>1, Writes

LEMMA MirrorWriteStep == ASSUME IInv, NEW w, MirrorWrite(w) PROVE IInv'
<1> DEFINE e == job[w].entry
<1>1. e \in Live
  BY DEF MirrorWrite
<1>2. CASE UNCHANGED entry
  BY <1>2, Same
<1>3. CASE entry' = [entry EXCEPT ![e] = write_file(@, job[w].request.text, job[w].request.offset)]
  BY <1>1, <1>3, Writes
<1> QED
  BY <1>2, <1>3 DEF MirrorWrite

\* The entry takes the new path; who had it is deleted, and by the invariant nobody else has it.
LEMMA RenameStep ==
    ASSUME IInv, NEW src \in Paths, NEW dest \in Paths, keibot_rename(src, dest) PROVE IInv'
<1> DEFINE s == find_entry(src)
           d == find_entry(dest)
           f == [entry[s] EXCEPT !.path = dest]
<1>1. src # <<>> /\ dest # <<>> /\ src # dest
  BY PathAssumption DEF keibot_rename, Movable, Within
<1>2. s \in Live /\ entry[s].path = src
  BY <1>1, FindEntry DEF keibot_rename, Movable, Exists
<1>3. IsFile(f) /\ f.path = dest
  BY <1>2, RenameFields DEF IInv, Records
<1>4. \A x \in Live \ {d} : entry[x].path # dest
  <2>1. CASE d = None
    BY <2>1, FindEntry
  <2>2. CASE d # None
    BY <2>2, FindEntry DEF IInv, OneEntryPerPath
  <2> QED
    BY <2>1, <2>2
<1>5. entry' = [x \in Entries |-> IF x = s THEN f ELSE IF x = d THEN None ELSE entry[x]]
  BY DEF keibot_rename, Renamed
<1> HIDE DEF f, s, d
<1>6. /\ entry' = [x \in Entries |-> entry'[x]]
      /\ entry'[s] = f
      /\ s \in Entries
  BY <1>2, <1>5 DEF Live
<1>7. \A x \in Entries \ {s} : entry'[x] # None =>
              x \in Live /\ entry'[x] = entry[x] /\ entry[x].path # dest
  BY <1>4, <1>5 DEF Live
<1> QED
  BY <1>3, <1>6, <1>7, Places

LEMMA CallStep == ASSUME IInv, NEW w, Call(w) PROVE IInv'
<1>1. CASE \E p \in Named, dir, bare \in BOOLEAN : (bare => dir) /\ keibot_mknod(w, p, dir, bare)
  BY <1>1, MknodStep
<1>2. CASE \E h \in Handles, r \in Requests : keibot_write(w, h, r)
  BY <1>2, WriteStep
<1>3. CASE \E p \in Named : keibot_unlink(p) \/ keibot_rmdir(p)
  BY <1>3, UnlinkStep
<1>4. CASE \E p \in Named : keibot_opendir(p) \/ \E h \in Handles : keibot_open(h, p)
  BY <1>4, OpenStep
<1>5. CASE \E p \in Named : Hide(p)
  BY <1>5, RenameStep DEF Hide, Named
<1>6. CASE \E h \in Handles : keibot_release(h)
  BY <1>6, ReleaseStep
<1>7. CASE \E p, q \in Named : keibot_rename(p, q)
  BY <1>7, RenameStep DEF Named
<1>8. CASE \/ \E p, q \in Named : Exchange(p, q)
           \/ \E h \in Handles : MissingEmoji(h) \/ FreedEntry(h)
  BY <1>8, Same DEF Exchange, MissingEmoji, FreedEntry
<1>9. CASE keibot_destroy
  BY <1>9, DestroyStep
<1> QED
  BY <1>1, <1>2, <1>3, <1>4, <1>5, <1>6, <1>7, <1>8, <1>9 DEF Call

LEMMA Preserved == IInv /\ [Next]_vars => IInv'
<1> SUFFICES ASSUME IInv, [Next]_vars PROVE IInv'
  OBVIOUS
<1>1. CASE UNCHANGED vars
  BY <1>1, Same DEF vars
<1>2. ASSUME NEW w \in Workers, Call(w) PROVE IInv'
  BY <1>2, CallStep
<1>3. ASSUME NEW w \in Workers, Mirror(w) PROVE IInv'
  <2>1. CASE MirrorCreate(w)
    BY <2>1, MirrorCreateStep
  <2>2. CASE MirrorFind(w)
    BY <2>2, Same DEF MirrorFind
  <2>3. CASE MirrorWrite(w)
    BY <2>3, MirrorWriteStep
  <2> QED
    BY <1>3, <2>1, <2>2, <2>3 DEF Mirror
<1> QED
  BY <1>1, <1>2, <1>3 DEF Next

\* find_entry, which returns the first entry of a path, never hides a second one: mknod, mkdir,
\* open and opendir create only what does not exist, and rename (keibot.c:474) deletes the
\* entry that had the new path.
THEOREM PathsUnique == Spec => []OneEntryPerPath
<1>1. IInv => OneEntryPerPath
  BY DEF IInv
<1> QED
  BY <1>1, Initially, Preserved, PTL DEF Spec

-----------------------------------------------------------------------------
(* The block of an entry holds what its size says. *)

\* The length of an array of n elements.
LEMMA ArrayLen ==
    ASSUME NEW n \in Nat, NEW f, f = [i \in 1..n |-> f[i]]
    PROVE  Len(f) = n
<1> DEFINE S == {f[i] : i \in 1..n}
<1>1. f \in [1..n -> S]
  OBVIOUS
<1>2. f \in Seq(S)
  BY <1>1, SeqDef
<1> HIDE DEF S
<1> QED
  BY <1>1, <1>2, LenProperties

\* A block of memory: an array with a length.
Block(c) == Len(c) \in Nat /\ c = [i \in 1..Len(c) |-> c[i]]

\* The block of an entry holds its size.
Holds(f) == /\ Block(f.content) /\ \A i \in 1..Len(f.content) : f.content[i] \in Bytes
            /\ f.path \in Paths /\ f.dir \in BOOLEAN /\ f.bare \in BOOLEAN
            /\ f.size \in 0..MaxSize /\ f.size =< Len(f.content) /\ f.over \in 0..1

Fits(r) == r \in Requests /\ r.offset + Len(r.text) =< MaxSize

LEMMA FitsValues ==
    ASSUME NEW r, Fits(r)
    PROVE  /\ Len(r.text) \in Nat /\ r.offset \in Nat /\ r.offset + Len(r.text) =< MaxSize
           /\ \A i \in 1..Len(r.text) : r.text[i] \in Bytes
BY RequestAssumption DEF Fits

\* An entry whose block holds its size is a file_entry.
LEMMA HoldsFile ==
    ASSUME NEW f, IsFile(f), Holds(f)
    PROVE  f \in Files /\ f # None
<1>1. f.content \in Seq(Bytes)
  <2>1. f.content \in [1..Len(f.content) -> Bytes] /\ Len(f.content) \in Nat
    BY DEF Holds, Block
  <2> QED
    BY <2>1, SeqDef
<1>2. f \in Files
  BY <1>1 DEF IsFile, Holds, Files
<1> QED
  BY <1>2, NoneAssumption

\* new_file leaves an empty string: a block of one byte for a size of zero.
LEMMA FileHolds ==
    ASSUME NEW p \in Paths, NEW dir \in BOOLEAN, NEW bare \in BOOLEAN
    PROVE  Holds(File(p, dir, bare))
<1>1. <<Nul>> = [i \in 1..1 |-> <<Nul>>[i]] /\ Len(<<Nul>>) = 1
  OBVIOUS
<1>2. /\ File(p, dir, bare).content = <<Nul>> /\ File(p, dir, bare).size = 0
      /\ File(p, dir, bare).over = 0
      /\ File(p, dir, bare).path = p /\ File(p, dir, bare).dir = dir /\ File(p, dir, bare).bare = bare
  BY DEF File
<1>3. Nul \in Bytes
  BY DEF Bytes
<1> QED
  BY <1>1, <1>2, <1>3, RequestAssumption DEF Holds, Block

\* No content is a block of no bytes for a size of zero.
LEMMA DirectoryHolds ==
    ASSUME NEW p \in Paths
    PROVE  Holds(Directory(p))
<1>1. <<>> = [i \in 1..0 |-> <<>>[i]] /\ Len(<<>>) = 0
  OBVIOUS
<1>2. /\ Directory(p).content = <<>> /\ Directory(p).size = 0 /\ Directory(p).path = p
      /\ Directory(p).over = 0
      /\ Directory(p).dir \in BOOLEAN /\ Directory(p).bare \in BOOLEAN
  BY DEF Directory
<1> QED
  BY <1>1, <1>2, RequestAssumption DEF Holds, Block

\* write_file reallocates when the file outgrows its size, and its size then is the end; the
\* terminator alone may land past the block.
LEMMA WriteHolds ==
    ASSUME NEW f, IsFile(f), Holds(f), NEW r, Fits(r)
    PROVE  Holds(write_file(f, r.text, r.offset))
<1> DEFINE end == r.offset + Len(r.text)
           block == IF Outgrows(f, r.offset, end)
                      THEN [i \in 1..end |-> IF i =< Len(f.content) THEN f.content[i] ELSE Junk]
                      ELSE f.content
           content == [i \in DOMAIN block |->
                         IF r.offset < i /\ i =< end THEN r.text[i - r.offset]
                         ELSE IF i = end + 1 THEN Nul
                         ELSE block[i]]
           past == end + 1 - Len(block)
           over == IF past > 0 THEN past ELSE 0
           g == Sized(f, end, over, content)
<1>1. end \in Nat /\ end =< MaxSize
  BY FitsValues
<1>2. \E n \in Nat : /\ block = [i \in 1..n |-> block[i]] /\ end =< n
                    /\ \A i \in 1..n : block[i] \in Bytes
  <2>1. CASE Outgrows(f, r.offset, end)
    <3>1. Junk \in Bytes
      BY DEF Bytes
    <3>2. block = [i \in 1..end |-> IF i =< Len(f.content) THEN f.content[i] ELSE Junk]
      BY <2>1
    <3>3. \A i \in 1..end : block[i] \in Bytes
      BY <1>1, <3>1, <3>2 DEF Holds, Block
    <3>4. block = [i \in 1..end |-> block[i]]
      BY <3>2
    <3> HIDE DEF block
    <3> QED
      BY <1>1, <3>3, <3>4
  <2>2. CASE ~Outgrows(f, r.offset, end)
    <3>1. block = f.content
      BY <2>2
    <3>2. Len(f.content) \in Nat /\ end =< Len(f.content)
      BY <1>1, <2>2 DEF Outgrows, Holds, Block
    <3>3. f.content = [i \in 1..Len(f.content) |-> f.content[i]]
      BY DEF Holds, Block
    <3> HIDE DEF block
    <3> QED
      BY <3>1, <3>2, <3>3 DEF Holds
  <2> QED
    BY <2>1, <2>2
<1>3. PICK n \in Nat : /\ block = [i \in 1..n |-> block[i]] /\ end =< n
                      /\ \A i \in 1..n : block[i] \in Bytes
  BY <1>2
<1> HIDE DEF block
<1>9. DOMAIN block = 1..n /\ Len(block) = n
  BY <1>3, ArrayLen
<1>10. over \in 0..1
  BY <1>1, <1>3, <1>9
<1>4. content = [i \in 1..n |-> content[i]]
  BY <1>9
<1>8. \A i \in 1..n : content[i] \in Bytes
  <2>1. Nul \in Bytes
    BY DEF Bytes
  <2>2. ASSUME NEW i \in 1..n, r.offset < i, i =< end PROVE r.text[i - r.offset] \in Bytes
    BY <1>1, <2>2, FitsValues
  <2> QED
    BY <1>3, <1>9, <2>1, <2>2
<1>5. write_file(f, r.text, r.offset) = g
  BY DEF write_file, block, Sized
<1> HIDE DEF content, over, end
<1>6. /\ g.size = end /\ g.over = over /\ g.content = content
      /\ g.path = f.path /\ g.dir = f.dir /\ g.bare = f.bare
  BY UpdateFields
<1> HIDE DEF g
<1>7. Len(content) = n
  BY <1>4, ArrayLen
<1> QED
  BY <1>1, <1>3, <1>4, <1>5, <1>6, <1>7, <1>8, <1>10, RequestAssumption DEF Holds, Block

\* A rename moves an entry with its block.
LEMMA MoveHolds ==
    ASSUME NEW f, IsFile(f), Holds(f), NEW p \in Paths
    PROVE  Holds([f EXCEPT !.path = p])
<1> DEFINE g == [f EXCEPT !.path = p]
<1>1. /\ g.path = p /\ g.size = f.size /\ g.content = f.content /\ g.over = f.over
      /\ g.dir = f.dir /\ g.bare = f.bare
  BY DEF IsFile
<1> HIDE DEF g
<1> QED
  BY <1>1 DEF Holds

\* An open file of the kernel, and what a handler has left to do.
IsHandle(x) == /\ x = [entry |-> x.entry, path |-> x.path, astray |-> x.astray]
               /\ x.entry \in Entries
JobOK(j) == \/ /\ j.op = "create" /\ j.twin \in Paths /\ Pair(j.path) \subseteq Paths
               /\ j.dir \in BOOLEAN /\ j.bare \in BOOLEAN
            \/ j.op \in {"find", "write"} /\ Fits(j.request)

Blocks == \A e \in Live : Holds(entry[e])
Opened == fh = [h \in Handles |-> fh[h]] /\ \A h \in Handles : fh[h] # None => IsHandle(fh[h])
Jobs == job = [w \in Workers |-> job[w]] /\ \A w \in Workers : job[w] # None => JobOK(job[w])
Names == stale \subseteq Paths \X BOOLEAN /\ strings \subseteq Bots /\ paired \subseteq Paths /\ down \in BOOLEAN
BInv == Blocks /\ Opened /\ Jobs /\ Names

\* An entry that is made, written or moved with a block that holds its size.
LEMMA BlocksMade ==
    ASSUME IInv, Blocks, NEW e \in Entries, NEW f, Holds(f), entry' = [entry EXCEPT ![e] = f]
    PROVE  Blocks'
  BY DEF IInv, Records, Blocks, Live

\* Deleting entries.
LEMMA BlocksLeft ==
    ASSUME Blocks, \A e \in Entries : entry'[e] # None => entry'[e] = entry[e]
    PROVE  Blocks'
  BY DEF Blocks, Live

\* keibot_open makes a handle.
LEMMA HandleFields ==
    ASSUME NEW e \in Entries, NEW p
    PROVE  /\ IsHandle(Handle(e, p))
           /\ Handle(e, p).entry = e /\ Handle(e, p).path = p /\ Handle(e, p).astray = FALSE
BY DEF IsHandle, Handle

\* A handle that loses its name, or is given another one.
Strayed(x, q) == [x EXCEPT !.path = q, !.astray = TRUE]

LEMMA AstrayFields ==
    ASSUME NEW x, IsHandle(x), NEW q
    PROVE  /\ IsHandle(Strayed(x, q)) /\ Strayed(x, q).entry = x.entry
           /\ Strayed(x, q).path = q /\ Strayed(x, q).astray
<1> DEFINE v == TRUE
           h == [x EXCEPT !.path = q]
           g == Strayed(x, q)
<1>1. IsHandle(h) /\ h.entry = x.entry /\ h.path = q
  BY DEF IsHandle
<1>2. g = [h EXCEPT !.astray = v]
  BY DEF Strayed
<1> HIDE DEF h, g, v
<1>3. IsHandle(g) /\ g.entry = h.entry /\ g.path = h.path /\ g.astray = v
  BY <1>1, <1>2 DEF IsHandle
<1>4. IsHandle(g) /\ g.entry = x.entry /\ g.path = q
  BY <1>1, <1>3
<1>5. g.astray
  BY <1>3 DEF v
<1> QED
  BY <1>4, <1>5 DEF g

\* A handle stays with its entry when something is moved. Unless a directory above it is moved
\* or replaced, its path is that of the file.
LEMMA FollowedFields ==
    ASSUME NEW x, IsHandle(x), NEW src, NEW dest
    PROVE  LET y == Followed(x, src, dest)
           IN /\ IsHandle(y) /\ y.entry = x.entry
              /\ ~y.astray => ~x.astray /\ y.path = IF x.path = src THEN dest ELSE x.path
<1> DEFINE y == Followed(x, src, dest)
<1>2. CASE is_parent_path(dest, x.path)
  <2>1. y = Strayed(x, <<>>)
    BY <1>2, Zenon DEF Followed, Strayed
  <2> QED
    BY <2>1, AstrayFields
<1>3. CASE ~is_parent_path(dest, x.path) /\ is_parent_path(src, x.path)
  <2>1. y = Strayed(x, Moved(x.path, src, dest))
    BY <1>3, Zenon DEF Followed, Strayed
  <2> QED
    BY <2>1, AstrayFields
<1>4. CASE ~is_parent_path(dest, x.path) /\ ~is_parent_path(src, x.path) /\ x.path = src
  <2>1. y = [x EXCEPT !.path = dest]
    BY <1>4 DEF Followed
  <2>2. IsHandle(y) /\ y.entry = x.entry /\ y.path = dest /\ y.astray = x.astray
    BY <2>1 DEF IsHandle
  <2> QED
    BY <1>4, <2>2
<1>5. CASE ~is_parent_path(dest, x.path) /\ ~is_parent_path(src, x.path) /\ x.path # src
  BY <1>5 DEF Followed
<1> QED
  BY <1>2, <1>3, <1>4, <1>5

\* What a handler leaves for its second half, or the end of it.
LEMMA JobSet ==
    ASSUME Jobs, NEW w \in Workers, NEW j, j # None => JobOK(j), job' = [job EXCEPT ![w] = j]
    PROVE  Jobs'
  BY DEF Jobs

-----------------------------------------------------------------------------
(* The calls, each of which leaves every block as large as its entry says. *)

LEMMA BMknod ==
    ASSUME IInv, BInv, NEW w \in Workers, NEW p \in Named,
           NEW dir \in BOOLEAN, NEW bare \in BOOLEAN, keibot_mknod(w, p, dir, bare)
    PROVE  BInv'
<1>1. PICK e \in Entries \ Live, np \in swtich_bot(p) :
         /\ entry' = [entry EXCEPT ![e] = File(p, dir, bare)]
         /\ job' = [job EXCEPT ![w] = IF np = None THEN None
                      ELSE [op |-> "create", path |-> p, twin |-> np, dir |-> dir, bare |-> bare]]
  BY DEF keibot_mknod
<1>2. p \in Paths /\ Last(p) # hidden
  BY DEF Named
<1>3. Blocks'
  BY <1>1, <1>2, FileHolds, BlocksMade DEF BInv
<1>4. p[1] \in Bots => Twin(p) \in Paths /\ Pair(p) \subseteq Paths
  BY <1>2, PathAssumption DEF Twin, Pair, Bots
<1>5. np # None => np = Twin(p) /\ p[1] \in Bots
  BY <1>1 DEF swtich_bot
<1> DEFINE j == IF np = None THEN None
                ELSE [op |-> "create", path |-> p, twin |-> np, dir |-> dir, bare |-> bare]
<1>6. j # None => JobOK(j)
  BY <1>4, <1>5 DEF JobOK
<1>7. job' = [job EXCEPT ![w] = j]
  BY <1>1
<1> HIDE DEF j
<1>8. Jobs'
  BY <1>6, <1>7, JobSet DEF BInv
<1> QED
  BY <1>3, <1>8 DEF keibot_mknod, BInv, Opened, Names

LEMMA BMirrorCreate ==
    ASSUME IInv, BInv, NEW w \in Workers, MirrorCreate(w)
    PROVE  BInv'
<1>1. PICK j : j = job[w] /\ j # None /\ j.op = "create"
  BY DEF MirrorCreate
<1>2. j.twin \in Paths /\ Pair(j.path) \subseteq Paths /\ j.dir \in BOOLEAN /\ j.bare \in BOOLEAN
  BY <1>1 DEF BInv, Jobs, JobOK
<1>3. Jobs'
  BY JobSet DEF MirrorCreate, BInv
<1>4. Blocks' /\ paired' \subseteq Paths
  <2>1. CASE UNCHANGED <<entry, paired>>
    BY <2>1 DEF BInv, Blocks, Live, Names
  <2>2. CASE ~ UNCHANGED <<entry, paired>>
    <3>1. PICK e \in Entries \ Live : /\ entry' = [entry EXCEPT ![e] = File(j.twin, j.dir, j.bare)]
                                      /\ paired' = paired \cup Pair(j.path)
      BY <1>1, <2>2 DEF MirrorCreate
    <3>2. Blocks'
      BY <1>2, <3>1, FileHolds, BlocksMade DEF BInv
    <3> QED
      BY <1>2, <3>1, <3>2 DEF BInv, Names
  <2> QED
    BY <2>1, <2>2
<1> QED
  BY <1>3, <1>4 DEF MirrorCreate, BInv, Opened, Names

LEMMA BRemove ==
    ASSUME IInv, BInv, NEW p, keibot_unlink(p) \/ keibot_rmdir(p) \/ keibot_destroy
           \/ (\E h \in Handles : keibot_release(h))
    PROVE  BInv'
<1>1. \A e \in Entries : entry'[e] # None => entry'[e] = entry[e]
  BY DEF keibot_unlink, keibot_rmdir, keibot_destroy, keibot_release, IInv, Records
<1>2. Blocks'
  BY <1>1, BlocksLeft DEF BInv
<1>3. Opened'
  <2>1. CASE keibot_rmdir(p)
    <3>1. fh' = [h \in Handles |-> IF fh[h] # None /\ Within(p, fh[h].path)
                     THEN [fh[h] EXCEPT !.path = <<>>, !.astray = TRUE] ELSE fh[h]]
      BY <2>1 DEF keibot_rmdir
    <3>2. ASSUME NEW h \in Handles, fh'[h] # None PROVE IsHandle(fh'[h])
      <4>1. fh[h] # None /\ IsHandle(fh[h])
        BY <3>1, <3>2 DEF BInv, Opened
      <4>2. CASE fh'[h] = Strayed(fh[h], <<>>)
        BY <4>1, <4>2, AstrayFields
      <4> QED
        BY <3>1, <4>1, <4>2 DEF Strayed
    <3> QED
      BY <3>1, <3>2 DEF Opened
  <2>2. CASE ~keibot_rmdir(p)
    BY <2>2 DEF keibot_unlink, keibot_destroy, keibot_release, BInv, Opened
  <2> QED
    BY <2>1, <2>2
<1>4. Names' /\ UNCHANGED job
  BY DEF keibot_unlink, keibot_rmdir, keibot_destroy, keibot_release, Unpaired, BInv, Names
<1> QED
  BY <1>2, <1>3, <1>4 DEF BInv, Jobs

LEMMA BOpen ==
    ASSUME IInv, BInv, NEW p \in Named, keibot_opendir(p) \/ \E h \in Handles : keibot_open(h, p)
    PROVE  BInv'
<1>1. p \in Paths /\ p # <<>>
  BY PathAssumption DEF Named
<1>2. CASE keibot_opendir(p)
  <2>1. PICK e \in Entries \ Live : entry' = [entry EXCEPT ![e] = Directory(p)]
    BY <1>2 DEF keibot_opendir
  <2>2. Blocks'
    BY <1>1, <2>1, DirectoryHolds, BlocksMade DEF BInv
  <2> QED
    BY <1>2, <2>2 DEF keibot_opendir, BInv, Opened, Jobs, Names
<1>3. ASSUME NEW h \in Handles, keibot_open(h, p) PROVE BInv'
  <2>1. \E e \in Entries : /\ entry' = entry \/ entry' = [entry EXCEPT ![e] = File(p, FALSE, FALSE)]
                           /\ fh' = [fh EXCEPT ![h] = Handle(e, p)]
    BY <1>3, FindEntry DEF keibot_open, Live
  <2>2. PICK e \in Entries : /\ entry' = entry \/ entry' = [entry EXCEPT ![e] = File(p, FALSE, FALSE)]
                             /\ fh' = [fh EXCEPT ![h] = Handle(e, p)]
    BY <2>1
  <2>3. Blocks'
    <3>1. CASE entry' = entry
      BY <3>1 DEF BInv, Blocks, Live
    <3>2. CASE entry' = [entry EXCEPT ![e] = File(p, FALSE, FALSE)]
      BY <1>1, <3>2, FileHolds, BlocksMade DEF BInv
    <3> QED
      BY <2>2, <3>1, <3>2
  <2>4. IsHandle(Handle(e, p))
    BY HandleFields
  <2>5. Opened'
    BY <2>2, <2>4 DEF BInv, Opened
  <2> QED
    BY <1>3, <2>3, <2>5 DEF keibot_open, BInv, Jobs, Names
<1> QED
  BY <1>2, <1>3

LEMMA BWrite ==
    ASSUME IInv, BInv, NEW w \in Workers, NEW h \in Handles, NEW r \in Requests, keibot_write(w, h, r)
    PROVE  BInv'
<1>1. Fits(r)
  BY DEF Fits, keibot_write
<1>2. PICK e \in Live : entry' = [entry EXCEPT ![e] = write_file(entry[e], r.text, r.offset)]
  BY DEF keibot_write
<1>3. Holds(write_file(entry[e], r.text, r.offset)) /\ e \in Entries
  BY <1>1, WriteHolds DEF IInv, Records, BInv, Blocks, Live
<1>4. Blocks'
  BY <1>2, <1>3, BlocksMade DEF BInv
<1>5. PICK np : job' = [job EXCEPT ![w] = IF np = None THEN None
                   ELSE [op |-> "find", path |-> fh[h].path, twin |-> np, request |-> r]]
  BY DEF keibot_write
<1> DEFINE j == IF np = None THEN None
                ELSE [op |-> "find", path |-> fh[h].path, twin |-> np, request |-> r]
<1>6. j # None => JobOK(j)
  BY <1>1 DEF JobOK
<1>7. job' = [job EXCEPT ![w] = j]
  BY <1>5
<1> HIDE DEF j
<1>8. Jobs'
  BY <1>6, <1>7, JobSet DEF BInv
<1> QED
  BY <1>4, <1>8 DEF keibot_write, Unpaired, BInv, Opened, Names

LEMMA BMirrorWrite ==
    ASSUME IInv, BInv, NEW w \in Workers, MirrorFind(w) \/ MirrorWrite(w)
    PROVE  BInv'
<1>1. PICK r : r = job[w].request /\ Fits(r)
  BY DEF MirrorFind, MirrorWrite, BInv, Jobs, JobOK
<1>2. CASE MirrorFind(w)
  <2> DEFINE j == IF find_entry(job[w].twin) = None \/ Last(job[w].twin) = hidden THEN None
                  ELSE [op |-> "write", path |-> job[w].path, request |-> job[w].request,
                        entry |-> find_entry(job[w].twin)]
  <2>1. j # None => JobOK(j)
    BY <1>1 DEF JobOK
  <2>2. job' = [job EXCEPT ![w] = j]
    BY <1>2 DEF MirrorFind
  <2> HIDE DEF j
  <2>3. Jobs'
    BY <2>1, <2>2, JobSet DEF BInv
  <2> QED
    BY <1>2, <2>3 DEF MirrorFind, BInv, Opened, Names, Blocks, Live
<1>3. CASE MirrorWrite(w)
  <2>1. PICK e \in Live : entry' = entry \/ entry' = [entry EXCEPT ![e] = write_file(entry[e], r.text, r.offset)]
    BY <1>1, <1>3 DEF MirrorWrite
  <2>2. Holds(write_file(entry[e], r.text, r.offset)) /\ e \in Entries
    BY <1>1, WriteHolds DEF IInv, Records, BInv, Blocks, Live
  <2>3. Blocks'
    <3>1. CASE entry' = entry
      BY <3>1 DEF BInv, Blocks, Live
    <3>2. CASE entry' = [entry EXCEPT ![e] = write_file(entry[e], r.text, r.offset)]
      BY <2>2, <3>2, BlocksMade DEF BInv
    <3> QED
      BY <2>1, <3>1, <3>2
  <2>4. Jobs'
    BY <1>3, JobSet DEF MirrorWrite, BInv
  <2> QED
    BY <1>3, <2>3, <2>4 DEF MirrorWrite, BInv, Opened, Names
<1> QED
  BY <1>2, <1>3

LEMMA BRename ==
    ASSUME IInv, BInv, NEW src \in Paths, NEW dest \in Paths, keibot_rename(src, dest)
    PROVE  BInv'
<1> DEFINE s == find_entry(src)
           d == find_entry(dest)
           f == [entry[s] EXCEPT !.path = dest]
<1>1. s \in Live /\ s \in Entries
  BY PathAssumption, FindEntry DEF keibot_rename, Movable, Exists, Live
<1>2. Holds(f)
  BY <1>1, MoveHolds DEF IInv, Records, BInv, Blocks
<1>3. entry' = [x \in Entries |-> IF x = s THEN f ELSE IF x = d THEN None ELSE entry[x]]
  BY DEF keibot_rename, Renamed
<1> HIDE DEF f, s, d
<1>4. Blocks'
  BY <1>2, <1>3 DEF BInv, Blocks, Live
<1>5. Opened'
  <2>1. fh' = [h \in Handles |-> IF fh[h] = None THEN None ELSE Followed(fh[h], src, dest)]
    BY DEF keibot_rename
  <2>2. ASSUME NEW h \in Handles, fh[h] # None PROVE IsHandle(fh'[h])
    BY <2>1, <2>2, FollowedFields DEF BInv, Opened
  <2> QED
    BY <2>1, <2>2 DEF Opened
<1>6. Names' /\ UNCHANGED job
  BY DEF keibot_rename, BInv, Names
<1> QED
  BY <1>4, <1>5, <1>6 DEF BInv, Jobs

\* The two directories that keibot_init makes.
LEMMA BInit == Init => BInv
<1> SUFFICES ASSUME Init PROVE BInv
  OBVIOUS
<1>1. PICK e1, e2 \in Entries :
        entry = [e \in Entries |-> IF e = e1 THEN Directory(<<bot1>>)
                                   ELSE IF e = e2 THEN Directory(<<bot2>>)
                                   ELSE None]
  BY DEF Init
<1>2. Holds(Directory(<<bot1>>)) /\ Holds(Directory(<<bot2>>))
  BY DirectoryHolds, PathAssumption
<1>3. Blocks
  BY <1>1, <1>2 DEF Blocks, Live
<1>4. Opened /\ Jobs /\ Names
  BY DEF Init, Opened, Jobs, Names
<1> QED
  BY <1>3, <1>4 DEF BInv

\* Every step of a worker.
LEMMA BNext == IInv /\ BInv /\ [Next]_vars => BInv'
<1> SUFFICES ASSUME IInv, BInv, [Next]_vars PROVE BInv'
  OBVIOUS
<1>1. CASE UNCHANGED vars
  BY <1>1 DEF vars, BInv, Blocks, Live, Opened, Jobs, Names
<1>2. ASSUME NEW w \in Workers, Call(w) PROVE BInv'
  <2>1. CASE \E p \in Named, dir, bare \in BOOLEAN : (bare => dir) /\ keibot_mknod(w, p, dir, bare)
    BY <2>1, BMknod
  <2>2. CASE \E h \in Handles, r \in Requests : keibot_write(w, h, r)
    BY <2>2, BWrite
  <2>3. CASE \/ keibot_destroy \/ \E h \in Handles : keibot_release(h)
             \/ \E p \in Named : keibot_unlink(p) \/ keibot_rmdir(p)
    BY <2>3, BRemove
  <2>4. CASE \E p \in Named : keibot_opendir(p) \/ \E h \in Handles : keibot_open(h, p)
    BY <2>4, BOpen
  <2>5. CASE \E p \in Named : Hide(p) \/ \E q \in Named : keibot_rename(p, q)
    BY <2>5, BRename DEF Hide, Named
  <2>6. CASE \/ \E p, q \in Named : Exchange(p, q)
             \/ \E h \in Handles : MissingEmoji(h) \/ FreedEntry(h)
    BY <2>6 DEF Exchange, MissingEmoji, FreedEntry, BInv, Blocks, Live, Opened, Jobs, Names
  <2> QED
    BY <1>2, <2>1, <2>2, <2>3, <2>4, <2>5, <2>6 DEF Call
<1>3. ASSUME NEW w \in Workers, Mirror(w) PROVE BInv'
  BY <1>3, BMirrorCreate, BMirrorWrite DEF Mirror
<1> QED
  BY <1>1, <1>2, <1>3 DEF Next

\* The block of every entry holds the size that the entry states: write_file (keibot.c:366-379)
\* grows the block when the file outgrows its size, and sets the size to the end of what was
\* written, for the entry of the call and for its twin on the other side, whichever of the two
\* comes first. So what is copied in and what keibot_read copies out stay in the block, and of a
\* write nothing but the terminator (keibot.c:375) ever lands past it, by one byte.
THEOREM BlocksHold == Spec => []BuffersHold
<1>1. IInv /\ BInv => BuffersHold
  <2> SUFFICES ASSUME IInv, BInv PROVE BuffersHold
    OBVIOUS
  <2>1. \A e \in Live : /\ entry[e] \in Files /\ entry[e].size =< Len(entry[e].content)
                      /\ entry[e].over =< 1
    <3>1. \A e \in Live : IsFile(entry[e]) /\ Holds(entry[e])
      BY DEF IInv, Records, BInv, Blocks
    <3>2. \A e \in Live : entry[e].size =< Len(entry[e].content) /\ entry[e].over =< 1
      BY <3>1 DEF Holds
    <3> QED
      BY <3>1, <3>2, HoldsFile
  <2> QED
    BY <2>1 DEF BInv, Opened, Jobs, Names, IsHandle, JobOK, BuffersHold, TypeOK
<1> QED
  BY <1>1, Initially, Preserved, BInit, BNext, PTL DEF Spec

-----------------------------------------------------------------------------
(* An open file is the one that its path names. *)

\* What the handle of a file is to the list, unless a directory left it behind: keibot_write
\* does not look whether the entry is a directory, its mirror does.
NamesIt(x) == /\ x.entry \in Live
             /\ entry[x.entry].path = x.path
             /\ entry[x.entry].dir = FALSE
FilesOpen == \A h \in Handles : fh[h] # None /\ ~fh[h].astray => NamesIt(fh[h])

\* The calls that make an entry or write one, and leave the handles alone.
LEMMA FStay ==
    ASSUME FilesOpen, UNCHANGED fh,
           \A e \in Live : /\ entry'[e] # None
                           /\ entry'[e].path = entry[e].path /\ entry'[e].dir = entry[e].dir
    PROVE  FilesOpen'
BY DEF FilesOpen, NamesIt, Live

LEMMA FCreate ==
    ASSUME IInv, FilesOpen, UNCHANGED fh, NEW e \in Entries \ Live, NEW f,
           entry' = [entry EXCEPT ![e] = f]
    PROVE  FilesOpen'
<1>1. \A x \in Live : x \in Entries /\ entry'[x] = entry[x] /\ entry[x] # None
  BY DEF IInv, Records, Live
<1> QED
  BY <1>1, FStay

LEMMA FWrite ==
    ASSUME IInv, FilesOpen, UNCHANGED fh, BInv, NEW e \in Live, NEW r, Fits(r),
           entry' = [entry EXCEPT ![e] = write_file(entry[e], r.text, r.offset)]
    PROVE  FilesOpen'
<1> DEFINE g == write_file(entry[e], r.text, r.offset)
<1>1. g.path = entry[e].path /\ g.dir = entry[e].dir /\ IsFile(g) /\ Holds(g)
  BY WriteFields, WriteHolds DEF IInv, Records, BInv, Blocks
<1> HIDE DEF g
<1>2. entry' = [entry EXCEPT ![e] = g]
  BY DEF g
<1>3. g # None
  BY <1>1, HoldsFile
<1> QED
  BY <1>1, <1>2, <1>3, FStay DEF IInv, Records, Live

\* A file is not removed while its path is open.
LEMMA FRemove ==
    ASSUME IInv, FilesOpen, NEW p, NEW S,
           entry' = [e \in Entries |-> IF e \in S THEN None ELSE entry[e]],
           \A e \in S \cap Live : entry[e].path = p,
           \A h \in Handles : fh'[h] # None /\ ~fh'[h].astray =>
              fh'[h] = fh[h] /\ fh[h].path # p
    PROVE  FilesOpen'
<1> SUFFICES ASSUME NEW h \in Handles, fh'[h] # None, ~fh'[h].astray PROVE NamesIt(fh[h])'
  BY DEF FilesOpen
<1>1. fh'[h] = fh[h] /\ NamesIt(fh[h]) /\ fh[h].path # p
  BY DEF FilesOpen
<1>2. fh[h].entry \in Live /\ fh[h].entry \notin S
  BY <1>1 DEF NamesIt
<1>3. entry'[fh[h].entry] = entry[fh[h].entry]
  BY <1>2 DEF Live
<1> QED
  BY <1>1, <1>2, <1>3 DEF NamesIt, Live

LEMMA FUnlink == ASSUME IInv, FilesOpen, NEW p, keibot_unlink(p) PROVE FilesOpen'
<1> DEFINE S == {find_entry(p)}
<1>1. entry' = [e \in Entries |-> IF e \in S THEN None ELSE entry[e]]
  BY DEF keibot_unlink, IInv, Records
<1>2. \A e \in S \cap Live : entry[e].path = p
  BY FindEntry, NoneAssumption DEF Live
<1>3. \A h \in Handles : fh'[h] # None => fh'[h] = fh[h] /\ fh[h].path # p
  BY DEF keibot_unlink, IsOpen
<1> HIDE DEF S
<1> QED
  BY <1>1, <1>2, <1>3, FRemove

\* Who has something open in a directory that is removed is left without a path.
LEMMA FRmdir == ASSUME IInv, BInv, FilesOpen, NEW p, keibot_rmdir(p) PROVE FilesOpen'
<1> DEFINE S == {find_entry(p)}
<1>1. entry' = [e \in Entries |-> IF e \in S THEN None ELSE entry[e]]
  BY DEF keibot_rmdir, IInv, Records
<1>2. \A e \in S \cap Live : entry[e].path = p
  BY FindEntry, NoneAssumption DEF Live
<1>3. fh' = [h \in Handles |-> IF fh[h] # None /\ Within(p, fh[h].path)
                     THEN Strayed(fh[h], <<>>) ELSE fh[h]]
  BY Zenon DEF keibot_rmdir, Strayed
<1>4. ASSUME NEW h \in Handles, fh'[h] # None, ~fh'[h].astray
      PROVE  fh'[h] = fh[h] /\ fh[h].path # p
  <2>1. CASE fh[h] # None /\ Within(p, fh[h].path)
    <3>1. fh'[h] = Strayed(fh[h], <<>>) /\ IsHandle(fh[h])
      BY <1>3, <2>1 DEF BInv, Opened
    <3>2. fh'[h].astray
      BY <3>1, AstrayFields
    <3> QED
      BY <1>4, <3>2
  <2>2. CASE ~(fh[h] # None /\ Within(p, fh[h].path))
    BY <1>3, <1>4, <2>2 DEF Within
  <2> QED
    BY <2>1, <2>2
<1> HIDE DEF S
<1> QED
  BY <1>1, <1>2, <1>4, FRemove

LEMMA FRelease == ASSUME IInv, BInv, FilesOpen, NEW h \in Handles, keibot_release(h) PROVE FilesOpen'
<1> DEFINE p == fh[h].path
           last == \A g \in Handles \ {h} : fh[g] = None \/ fh[g].path # p
           gone == {find_entry(p)} \cap (IF last /\ p # <<>> /\ Last(p) = hidden THEN Live ELSE {})
<1>1. entry' = [e \in Entries |-> IF e \in gone THEN None ELSE entry[e]]
  BY DEF keibot_release
<1>2. fh' = [fh EXCEPT ![h] = None]
  BY DEF keibot_release
<1>3. \A g \in Handles : fh'[g] # None => g # h /\ fh'[g] = fh[g]
  BY <1>2 DEF BInv, Opened
<1>4. CASE last
  <2>1. \A e \in gone \cap Live : entry[e].path = p
    BY FindEntry, NoneAssumption DEF Live
  <2>2. \A g \in Handles : fh'[g] # None => fh'[g] = fh[g] /\ fh[g].path # p
    BY <1>3, <1>4
  <2> HIDE DEF gone, p
  <2> QED
    BY <1>1, <2>1, <2>2, FRemove
<1>5. CASE ~last
  <2>1. gone = {}
    BY <1>5
  <2> HIDE DEF gone
  <2>2. \A e \in Entries : entry'[e] = entry[e]
    BY <1>1, <2>1
  <2> QED
    BY <1>3, <2>2 DEF FilesOpen, NamesIt, Live
<1> QED
  BY <1>4, <1>5

LEMMA FOpen == ASSUME IInv, BInv, FilesOpen, NEW p \in Paths, NEW h \in Handles, keibot_open(h, p) PROVE FilesOpen'
<1>1. PICK e \in Entries :
        /\ fh' = [fh EXCEPT ![h] = Handle(e, p)]
        /\ \/ e = find_entry(p) /\ find_entry(p) # None /\ ~IsDirectory(p) /\ entry' = entry
           \/ e \notin Live /\ entry' = [entry EXCEPT ![e] = File(p, FALSE, FALSE)]
  BY FindEntry DEF keibot_open, Live
<1>2. /\ fh'[h] = Handle(e, p)
      /\ \A g \in Handles \ {h} : fh'[g] = fh[g]
  BY <1>1 DEF BInv, Opened
<1>3. Handle(e, p).entry = e /\ Handle(e, p).path = p
  BY DEF Handle
<1>4. CASE e = find_entry(p) /\ find_entry(p) # None /\ ~IsDirectory(p) /\ entry' = entry
  <2>1. e \in Live /\ entry[e].path = p /\ ~entry[e].dir
    BY <1>4, FindEntry DEF IsDirectory
  <2>2. entry[e].dir = FALSE
    BY <2>1 DEF BInv, Blocks, Holds
  <2>3. NamesIt(Handle(e, p))'
    BY <1>3, <1>4, <2>1, <2>2 DEF NamesIt, Live
  <2> QED
    BY <1>2, <1>4, <2>3 DEF FilesOpen, NamesIt, Live
<1>5. CASE e \notin Live /\ entry' = [entry EXCEPT ![e] = File(p, FALSE, FALSE)]
  <2> DEFINE f == File(p, FALSE, FALSE)
  <2>1. f.path = p /\ f.dir = FALSE /\ IsFile(f) /\ Holds(f)
    BY FileFields, FileHolds DEF File
  <2>2. f # None
    BY <2>1, HoldsFile
  <2>3. entry' = [entry EXCEPT ![e] = f]
    BY <1>5
  <2> HIDE DEF f
  <2>4. entry'[e] = f /\ \A x \in Live : entry'[x] = entry[x]
    BY <1>5, <2>3 DEF IInv, Records, Live
  <2>5. NamesIt(Handle(e, p))'
    BY <1>3, <2>1, <2>2, <2>4 DEF NamesIt, Live
  <2>6. \A g \in Handles \ {h} : fh'[g] # None /\ ~fh'[g].astray => NamesIt(fh[g])'
    BY <1>2, <2>4 DEF FilesOpen, NamesIt, Live
  <2>7. NamesIt(fh[h])'
    BY <1>2, <2>5 DEF NamesIt
  <2> QED
    BY <2>6, <2>7 DEF FilesOpen
<1> QED
  BY <1>1, <1>4, <1>5

\* A file takes its handles along; nobody has what it replaces open.
LEMMA FRename ==
    ASSUME IInv, BInv, FilesOpen, NEW src \in Paths, NEW dest \in Paths, keibot_rename(src, dest)
    PROVE  FilesOpen'
<1> DEFINE s == find_entry(src)
           d == find_entry(dest)
           f == [entry[s] EXCEPT !.path = dest]
<1>1. src # <<>> /\ dest # <<>> /\ src # dest
  BY PathAssumption DEF keibot_rename, Movable, Within
<1>2. s \in Live /\ entry[s].path = src
  BY <1>1, FindEntry DEF keibot_rename, Movable, Exists
<1>3. f.path = dest /\ f.dir = entry[s].dir /\ IsFile(f) /\ Holds(f)
  <2>1. IsFile(entry[s]) /\ Holds(entry[s])
    BY <1>2 DEF IInv, Records, BInv, Blocks
  <2>2. IsFile(f) /\ f.path = dest /\ Holds(f)
    BY <2>1, RenameFields, MoveHolds
  <2>3. f.dir = entry[s].dir
    BY <2>1 DEF IsFile
  <2> QED
    BY <2>2, <2>3
<1>4. d \in Live => entry[d].path = dest
  BY FindEntry, NoneAssumption DEF Live
<1>5. entry' = [x \in Entries |-> IF x = s THEN f ELSE IF x = d THEN None ELSE entry[x]]
  BY DEF keibot_rename, Renamed
<1>6. /\ fh' = [h \in Handles |-> IF fh[h] = None THEN None ELSE Followed(fh[h], src, dest)]
      /\ \A h \in Handles : fh[h] # None => fh[h].path # dest
  BY DEF keibot_rename, Movable, IsOpen
<1>7. f # None
  BY <1>3, HoldsFile
<1> HIDE DEF s, d, f
<1> SUFFICES ASSUME NEW h \in Handles, fh'[h] # None, ~fh'[h].astray PROVE NamesIt(fh[h])'
  BY DEF FilesOpen
<1>8. PICK x, y : x = fh[h] /\ y = fh'[h] /\ x # None /\ y = Followed(x, src, dest)
  BY <1>6
<1>9. /\ y.entry = x.entry /\ ~x.astray
      /\ y.path = IF x.path = src THEN dest ELSE x.path
  BY <1>8, FollowedFields DEF BInv, Opened
<1>10. NamesIt(x) /\ x.path # dest
  BY <1>6, <1>8, <1>9 DEF FilesOpen
<1>11. entry'[y.entry] # None /\ y.entry \in Entries /\ entry'[y.entry].path = y.path /\ entry'[y.entry].dir = FALSE
  <2>1. CASE x.path = src
    <3>1. x.entry = s
      BY <1>2, <1>10, <2>1 DEF NamesIt, IInv, OneEntryPerPath
    <3> QED
      BY <1>2, <1>3, <1>5, <1>7, <1>9, <1>10, <2>1, <3>1 DEF NamesIt, Live
  <2>2. CASE x.path # src
    <3>1. x.entry # s /\ x.entry # d /\ x.entry \in Live
      BY <1>2, <1>4, <1>10, <2>2 DEF NamesIt
    <3> QED
      BY <1>5, <1>9, <1>10, <2>2, <3>1 DEF NamesIt, Live
  <2> QED
    BY <2>1, <2>2
<1> QED
  BY <1>8, <1>11 DEF NamesIt, Live

LEMMA FMade ==
    ASSUME IInv, BInv, FilesOpen, UNCHANGED fh,
           \/ \E w \in Workers : MirrorCreate(w)
           \/ \E w \in Workers, p \in Paths, dir, bare \in BOOLEAN : keibot_mknod(w, p, dir, bare)
           \/ \E p \in Paths : keibot_opendir(p)
    PROVE  FilesOpen'
<1>1. CASE UNCHANGED entry
  BY <1>1 DEF FilesOpen, NamesIt, Live
<1>2. ASSUME NEW e \in Entries \ Live, NEW f, entry' = [entry EXCEPT ![e] = f]
      PROVE  FilesOpen'
  BY <1>2, FCreate
<1> QED
  BY <1>1, <1>2, Zenon DEF MirrorCreate, keibot_mknod, keibot_opendir

LEMMA FWritten ==
    ASSUME IInv, BInv, FilesOpen, NEW w \in Workers,
           MirrorWrite(w) \/ \E h \in Handles, r \in Requests : keibot_write(w, h, r)
    PROVE  FilesOpen'
<1>1. CASE MirrorWrite(w)
  <2>1. PICK r : r = job[w].request /\ Fits(r)
    BY <1>1 DEF MirrorWrite, BInv, Jobs, JobOK
  <2>2. PICK e \in Live : entry' = entry \/ entry' = [entry EXCEPT ![e] = write_file(entry[e], r.text, r.offset)]
    BY <1>1, <2>1 DEF MirrorWrite
  <2>3. CASE entry' = entry
    BY <1>1, <2>3 DEF MirrorWrite, FilesOpen, NamesIt, Live
  <2> QED
    BY <1>1, <2>1, <2>2, <2>3, FWrite DEF MirrorWrite
<1>2. ASSUME NEW h \in Handles, NEW r \in Requests, keibot_write(w, h, r)
      PROVE  FilesOpen'
  <2>1. Fits(r) /\ UNCHANGED fh
    BY <1>2 DEF Fits, keibot_write
  <2>2. PICK e \in Live : entry' = [entry EXCEPT ![e] = write_file(entry[e], r.text, r.offset)]
    BY <1>2 DEF keibot_write
  <2> QED
    BY <2>1, <2>2, FWrite
<1> QED
  BY <1>1, <1>2

LEMMA FNext == IInv /\ BInv /\ FilesOpen /\ [Next]_vars => FilesOpen'
<1> SUFFICES ASSUME IInv, BInv, FilesOpen, [Next]_vars PROVE FilesOpen'
  OBVIOUS
<1>1. CASE UNCHANGED <<entry, fh>>
  BY <1>1 DEF FilesOpen, NamesIt, Live
<1>2. ASSUME NEW w \in Workers, Call(w) PROVE FilesOpen'
  <2>1. CASE \E p \in Named, dir, bare \in BOOLEAN : (bare => dir) /\ keibot_mknod(w, p, dir, bare)
    <3>1. PICK p \in Named, dir \in BOOLEAN, bare \in BOOLEAN : keibot_mknod(w, p, dir, bare)
      BY <2>1
    <3>2. UNCHANGED fh /\ p \in Paths
      BY <3>1 DEF keibot_mknod, Named
    <3> QED
      BY <3>1, <3>2, FMade
  <2>2. CASE \E h \in Handles, r \in Requests : keibot_write(w, h, r)
    BY <2>2, FWritten
  <2>3. CASE \/ \E h \in Handles : keibot_release(h)
             \/ \E p \in Named : keibot_unlink(p) \/ keibot_rmdir(p)
    BY <2>3, FRelease, FUnlink, FRmdir
  <2>4. CASE \E p \in Named : keibot_opendir(p)
    BY <2>4, FMade DEF keibot_opendir, Named
  <2>5. CASE \E h \in Handles, p \in Named : keibot_open(h, p)
    BY <2>5, FOpen DEF Named
  <2>6. CASE \E p \in Named : Hide(p) \/ \E q \in Named : keibot_rename(p, q)
    BY <2>6, FRename DEF Hide, Named
  <2>7. CASE \/ \E p, q \in Named : Exchange(p, q)
             \/ \E h \in Handles : MissingEmoji(h) \/ FreedEntry(h)
    BY <2>7, <1>1 DEF Exchange, MissingEmoji, FreedEntry
  <2>8. CASE keibot_destroy
    BY <2>8 DEF keibot_destroy, FilesOpen
  <2> QED
    BY <1>2, <2>1, <2>2, <2>3, <2>4, <2>5, <2>6, <2>7, <2>8 DEF Call
<1>3. ASSUME NEW w \in Workers, Mirror(w) PROVE FilesOpen'
  <2>1. CASE MirrorCreate(w)
    BY <2>1, FMade DEF MirrorCreate
  <2>2. CASE MirrorFind(w)
    BY <2>2, <1>1 DEF MirrorFind
  <2>3. CASE MirrorWrite(w)
    BY <2>3, FWritten
  <2> QED
    BY <1>3, <2>1, <2>2, <2>3 DEF Mirror
<1> QED
  BY <1>1, <1>2, <1>3 DEF Next, vars

\* No file is freed under a handle that was opened through its path and whose directories stayed
\* where they were, however many workers there are: what libfuse promises its handlers (a
\* file that is open is hidden, not unlinked) is enough for what keibot_unlink, keibot_rename
\* (keibot.c:474) and the removal of a hidden file do to the list.
THEOREM OpenFilesLive == Spec => []OpenLive
<1>1. Init => FilesOpen
  BY DEF Init, FilesOpen
<1>2. FilesOpen => OpenLive
  BY DEF FilesOpen, NamesIt, OpenLive
<1> QED
  BY <1>1, <1>2, Initially, Preserved, BInit, BNext, FNext, PTL DEF Spec

-----------------------------------------------------------------------------
(* The two sides of a pair, when one worker runs the handlers one after the    *)
(* other. With several, another may remove the mirror after keibot_write has   *)
(* looked it up, and two writes, one on each side, may be mirrored in either   *)
(* order.                                                                      *)

\* A path that keibot_mknod and keibot_write mirror.
Mirrored(p) == p \in Paths /\ p[1] \in Bots /\ Len(p) > 1 /\ Last(p) # hidden

\* swtich_bot goes to the other side and back.
TwinIs(p, t) == /\ t[1] \in Bots /\ t[1] # p[1] /\ Len(t) = Len(p) /\ Last(t) = Last(p)
                /\ Twin(t) = p

LEMMA TwinBack ==
    ASSUME NEW p \in Paths, p[1] \in Bots, Len(p) > 1
    PROVE  TwinIs(p, Twin(p))
<1> DEFINE S == Range(p) \cup {bot1, bot2}
           b == IF p[1] = bot1 THEN bot2 ELSE bot1
           t == Twin(p)
<1>1. p \in Seq(S) /\ Len(p) > 1 /\ p[1] \in Bots
  <2>1. p \in Seq(Range(p)) /\ Range(p) \subseteq S
    BY PathAssumption
  <2> HIDE DEF S
  <2>2. p \in Seq(S)
    BY <2>1, SeqMonotonic
  <2> QED
    BY <2>2
<1>2. b \in S /\ b \in Bots /\ p[1] \in S
  BY <1>1 DEF Bots
<1>3. t = <<b>> \o Tail(p)
  BY DEF Twin
<1>5. (IF b = bot1 THEN bot2 ELSE bot1) = p[1] /\ b # p[1]
  BY <1>1, PathAssumption DEF Bots
<1> HIDE DEF S, b
<1>6. /\ Tail(p) \in Seq(S) /\ Len(Tail(p)) = Len(p) - 1 /\ Len(p) \in Nat
      /\ \A i \in 1..Len(Tail(p)) : Tail(p)[i] = p[i + 1]
  BY <1>1, HeadTailProperties, LenProperties, EmptySeq
<1>7. /\ <<b>> \in Seq(S) /\ Len(<<b>>) = 1 /\ <<b>>[1] = b
  BY <1>2
<1>8. /\ t \in Seq(S) /\ Len(t) = Len(p)
      /\ \A i \in 1..Len(p) : t[i] = IF i = 1 THEN b ELSE p[i]
  <2>1. /\ t \in Seq(S) /\ Len(t) = 1 + Len(Tail(p))
        /\ \A i \in 1 .. 1 + Len(Tail(p)) : t[i] = IF i =< 1 THEN <<b>>[i] ELSE Tail(p)[i - 1]
    BY <1>3, <1>6, <1>7, ConcatProperties
  <2> QED
    BY <1>6, <1>7, <2>1
<1> HIDE DEF t
<1>9. t[1] = b /\ Last(t) = Last(p)
  BY <1>1, <1>6, <1>8 DEF Last
<1>10. Twin(t) = <<p[1]>> \o Tail(t)
  BY <1>5, <1>9 DEF Twin
<1>11. /\ Tail(t) \in Seq(S) /\ Len(Tail(t)) = Len(t) - 1
       /\ \A i \in 1..Len(Tail(t)) : Tail(t)[i] = t[i + 1]
  BY <1>1, <1>8, HeadTailProperties, EmptySeq
<1>12. /\ <<p[1]>> \in Seq(S) /\ Len(<<p[1]>>) = 1 /\ <<p[1]>>[1] = p[1]
  BY <1>2
<1>13. Twin(t) = p
  <2>1. /\ Twin(t) \in Seq(S) /\ Len(Twin(t)) = 1 + Len(Tail(t))
        /\ \A i \in 1 .. 1 + Len(Tail(t)) :
             Twin(t)[i] = IF i =< 1 THEN <<p[1]>>[i] ELSE Tail(t)[i - 1]
    BY <1>10, <1>11, <1>12, ConcatProperties
  <2>2. Len(Twin(t)) = Len(p)
    BY <1>6, <1>8, <1>11, <2>1
  <2>3. ASSUME NEW i \in 1 .. Len(p) PROVE Twin(t)[i] = p[i]
    <3>1. CASE i = 1
      BY <1>6, <1>8, <1>11, <1>12, <2>1, <3>1
    <3>2. CASE i # 1
      BY <1>6, <1>8, <1>11, <2>1, <3>2
    <3> QED
      BY <3>1, <3>2
  <2> QED
    BY <1>1, <2>1, <2>2, <2>3, SeqEqual
<1> QED
  BY <1>2, <1>5, <1>8, <1>9, <1>13 DEF t, TwinIs

LEMMA TwinPath ==
    ASSUME NEW p, Mirrored(p)
    PROVE  /\ Mirrored(Twin(p)) /\ Twin(Twin(p)) = p /\ Twin(p) # p
           /\ Twin(p) \in Paths /\ Last(Twin(p)) # hidden
<1>1. TwinIs(p, Twin(p))
  BY TwinBack DEF Mirrored
<1>2. Twin(p) \in Paths
  BY PathAssumption DEF Mirrored, Twin, Bots
<1> QED
  BY <1>1, <1>2 DEF TwinIs, Mirrored

LEMMA TwinPair ==
    ASSUME NEW p, Mirrored(p)
    PROVE  Pair(p) = {p, Twin(p)} /\ Pair(Twin(p)) = Pair(p)
<1>1. Mirrored(Twin(p)) /\ Twin(Twin(p)) = p
  BY TwinPath
<1> QED
  BY <1>1 DEF Mirrored, Pair

\* What two files have in common that read the same.
Agree(f, g) == f.dir = g.dir /\ f.bare = g.bare /\ f.size = g.size /\ f.content = g.content

\* What a write leaves in the block depends on the size, the block and what is written.
Content(size, c, text, offset) ==
    LET end   == offset + Len(text)
        block == IF end > size
                   THEN [i \in 1..end |-> IF i =< Len(c) THEN c[i] ELSE Junk]
                   ELSE c
    IN [i \in DOMAIN block |-> IF offset < i /\ i =< end THEN text[i - offset]
                               ELSE IF i = end + 1 THEN Nul
                               ELSE block[i]]

LEMMA WriteAgrees ==
    ASSUME NEW f, NEW g, IsFile(f), IsFile(g), Agree(f, g), NEW text, NEW offset
    PROVE  Agree(write_file(f, text, offset), write_file(g, text, offset))
<1> DEFINE size == offset + Len(text)
           c(h) == Content(h.size, h.content, text, offset)
           u(h) == Sized(h, size, write_file(h, text, offset).over, c(h))
<1>5. ASSUME NEW h, IsFile(h) PROVE write_file(h, text, offset) = u(h)
  <2>1. PICK over : write_file(h, text, offset) = Sized(h, size, over, c(h))
    BY Zenon DEF write_file, Outgrows, Content, Sized
  <2> HIDE DEF c, size
  <2>2. write_file(h, text, offset).over = over
    BY <1>5, <2>1, UpdateFields
  <2> QED
    BY <2>1, <2>2
<1>1. write_file(f, text, offset) = u(f) /\ write_file(g, text, offset) = u(g)
  BY <1>5
<1>2. c(f) = c(g)
  BY DEF Agree
<1> HIDE DEF c, size
<1>3. u(f).size = size /\ u(f).content = c(f) /\ u(f).dir = f.dir /\ u(f).bare = f.bare
  BY UpdateFields
<1>4. u(g).size = size /\ u(g).content = c(g) /\ u(g).dir = g.dir /\ u(g).bare = g.bare
  BY UpdateFields
<1> HIDE DEF u
<1> QED
  BY <1>1, <1>2, <1>3, <1>4 DEF Agree

At(e, p) == e \in Live /\ entry[e].path = p
\* The file of that path has been written, and its mirror has not.
Halfway(j, p) == j # None /\ j.op \in {"find", "write"} /\ j.path = p
Copied(j, f) == write_file(f, j.request.text, j.request.offset)

\* The two files agree, or will when the mirror is written too.
AgreeIn(j, p, e, x) ==
    /\ Halfway(j, p) => entry[x].dir = FALSE /\ Agree(entry[e], Copied(j, entry[x]))
    /\ ~Halfway(j, p) /\ ~Halfway(j, Twin(p)) => Agree(entry[e], entry[x])
PairOK(j, p) == \E e, x \in Entries : At(e, p) /\ At(x, Twin(p)) /\ AgreeIn(j, p, e, x)

PairsOK == \A p \in paired : Mirrored(p) /\ Twin(p) \in paired

\* What the second half of a handler finds.
CreateOK(j) == /\ Mirrored(j.path) /\ j.twin = Twin(j.path)
               /\ \E e \in Live : entry[e] = File(j.path, j.dir, j.bare)
JobMirrors(j) ==
    /\ j.op = "create" => CreateOK(j)
    /\ j.op \in {"find", "write"} => (Twin(j.path) \in paired => j.path \in paired)
    /\ j.op = "find" => j.twin = Twin(j.path)
    /\ j.op = "write" => At(j.entry, Twin(j.path))

MInv(w) == /\ PairsOK
           /\ job[w] # None => JobMirrors(job[w])
           /\ strings = Bots => \A p \in paired : PairOK(job[w], p)

-----------------------------------------------------------------------------
\* A pair that is not written.
LEMMA PKept ==
    ASSUME NEW p, NEW j, NEW k, PairOK(j, p),
           ~Halfway(j, p), ~Halfway(j, Twin(p)), ~Halfway(k, p), ~Halfway(k, Twin(p)),
           \A e \in Live : entry[e].path \in {p, Twin(p)} => entry'[e] = entry[e]
    PROVE  PairOK(k, p)'
<1>1. PICK e \in Entries, x \in Entries : At(e, p) /\ At(x, Twin(p)) /\ Agree(entry[e], entry[x])
  BY DEF PairOK, AgreeIn
<1>2. entry'[e] = entry[e] /\ entry'[x] = entry[x]
  BY <1>1 DEF At
<1>3. At(e, p)' /\ At(x, Twin(p))'
  BY <1>1, <1>2 DEF At, Live
<1>4. AgreeIn(k, p, e, x)'
  BY <1>1, <1>2 DEF AgreeIn
<1> QED
  BY <1>3, <1>4 DEF PairOK

LEMMA UnpairedBoth ==
    ASSUME PairsOK, NEW S, NEW p \in Unpaired(S)
    PROVE  p \in paired /\ Twin(p) \in Unpaired(S) /\ p \notin S /\ Twin(p) \notin S
<1>1. p \in paired /\ Mirrored(p) /\ Twin(p) \in paired /\ Pair(p) \cap S = {}
  BY DEF PairsOK, Unpaired
<1>2. Pair(Twin(p)) = Pair(p) /\ Pair(p) = {p, Twin(p)}
  BY <1>1, TwinPair
<1> QED
  BY <1>1, <1>2 DEF Unpaired

\* A call that leaves the pairs alone that are left.
LEMMA MKept ==
    ASSUME NEW w, MInv(w), strings \subseteq Bots, strings' \subseteq strings,
           NEW k, k = job'[w],
           \A p : ~Halfway(job[w], p), \A p : ~Halfway(k, p),
           k # None => JobMirrors(k)',
           paired' \subseteq paired, \A p \in paired' : Twin(p) \in paired',
           \A e \in Live : entry[e].path \in paired' => entry'[e] = entry[e]
    PROVE  MInv(w)'
<1>1. PairsOK'
  BY DEF MInv, PairsOK
<1>2. ASSUME strings' = Bots, NEW p \in paired' PROVE PairOK(k, p)'
  <2>1. PICK j : j = job[w] /\ PairOK(j, p)
    BY <1>2 DEF MInv
  <2>2. ~Halfway(j, p) /\ ~Halfway(j, Twin(p)) /\ ~Halfway(k, p) /\ ~Halfway(k, Twin(p))
    BY <2>1
  <2>3. \A e \in Live : entry[e].path \in {p, Twin(p)} => entry'[e] = entry[e]
    BY <1>2
  <2> QED
    BY <2>1, <2>2, <2>3, PKept
<1> QED
  BY <1>1, <1>2 DEF MInv, PairOK, AgreeIn, JobMirrors, CreateOK

\* A call that is over when it returns, and has touched the entries of the paths S only.
LEMMA MUnpaired ==
    ASSUME BInv, NEW w, MInv(w), job[w] = None, UNCHANGED job, strings' \subseteq strings,
           NEW S, paired' = Unpaired(S),
           \A e \in Live : entry[e].path \notin S => entry'[e] = entry[e]
    PROVE  MInv(w)'
<1>1. /\ paired' \subseteq paired /\ \A p \in paired' : Twin(p) \in paired'
      /\ \A p \in paired' : p \notin S
  BY UnpairedBoth DEF MInv
<1>2. \A e \in Live : entry[e].path \in paired' => entry'[e] = entry[e]
  BY <1>1
<1>3. \A p : ~Halfway(job[w], p)
  BY DEF Halfway
<1>4. PICK k : k = job'[w] /\ k = None
  OBVIOUS
<1>5. \A p : ~Halfway(k, p)
  BY <1>4 DEF Halfway
<1>6. strings \subseteq Bots
  BY DEF BInv, Names
<1> QED
  BY <1>1, <1>2, <1>3, <1>4, <1>5, <1>6, MKept

LEMMA MRemove ==
    ASSUME IInv, BInv, NEW w, MInv(w), job[w] = None, NEW p, keibot_unlink(p) \/ keibot_rmdir(p)
    PROVE  MInv(w)'
<1> DEFINE d == find_entry(p)
           S == {p}
<1>1. /\ d # None /\ entry' = [entry EXCEPT ![d] = None]
      /\ paired' = Unpaired(S) /\ strings' \subseteq strings /\ UNCHANGED job
  BY DEF keibot_unlink, keibot_rmdir
<1>2. entry[d].path = p
  BY <1>1, FindEntry
<1>3. \A e \in Live : entry[e].path \notin S => entry'[e] = entry[e]
  BY <1>1, <1>2 DEF Live, IInv, Records
<1> HIDE DEF S
<1> QED
  BY <1>1, <1>3, MUnpaired

\* libfuse removes the files that it has hidden, which are no part of a pair.
LEMMA MRelease ==
    ASSUME IInv, BInv, NEW w, MInv(w), job[w] = None, NEW h, keibot_release(h)
    PROVE  MInv(w)'
<1>1. \A e \in Live : entry'[e] = entry[e] \/ Last(entry[e].path) = hidden
  <2> DEFINE p == fh[h].path
  <2>1. \A e \in Live : entry'[e] = entry[e] \/ (e = find_entry(p) /\ Last(p) = hidden)
    BY DEF keibot_release, Live
  <2> HIDE DEF p
  <2> QED
    BY <2>1, FindEntry, NoneAssumption DEF Live
<1>2. UNCHANGED <<job, strings, paired>>
  BY DEF keibot_release
<1>3. \A p \in paired : Last(p) # hidden /\ Twin(p) \in paired
  BY DEF MInv, PairsOK, Mirrored
<1>4. \A e \in Live : entry[e].path \in paired' => entry'[e] = entry[e]
  BY <1>1, <1>2, <1>3
<1>5. PICK k : k = job'[w] /\ k = None
  BY <1>2
<1>6. (\A p : ~Halfway(job[w], p)) /\ \A p : ~Halfway(k, p)
  BY <1>5 DEF Halfway
<1>7. strings \subseteq Bots
  BY DEF BInv, Names
<1> QED
  BY <1>2, <1>3, <1>4, <1>5, <1>6, <1>7, MKept

\* keibot_mknod, keibot_open and keibot_opendir add an entry; the others change none.
LEMMA MAdds ==
    ASSUME IInv, BInv, NEW w, MInv(w), job[w] = None, UNCHANGED <<job, strings, paired>>,
           UNCHANGED entry \/ \E e \in Entries \ Live : \E f : entry' = [entry EXCEPT ![e] = f]
    PROVE  MInv(w)'
<1>1. \A e \in Live : entry'[e] = entry[e]
  BY DEF IInv, Records, Live
<1>2. \A p \in paired : Twin(p) \in paired
  BY DEF MInv, PairsOK
<1>3. PICK k : k = job'[w] /\ k = None
  OBVIOUS
<1>4. (\A p : ~Halfway(job[w], p)) /\ \A p : ~Halfway(k, p)
  BY <1>3 DEF Halfway
<1>5. strings \subseteq Bots
  BY DEF BInv, Names
<1> QED
  BY <1>1, <1>2, <1>3, <1>4, <1>5, MKept

\* What is moved, and what it replaces, is no part of a pair any more.
LEMMA MRename ==
    ASSUME IInv, BInv, NEW w, MInv(w), job[w] = None,
           NEW src \in Paths, NEW dest \in Paths, keibot_rename(src, dest)
    PROVE  MInv(w)'
<1> DEFINE s == find_entry(src)
           d == find_entry(dest)
           V == UNION {Pair(p) : p \in paired}
           U == V \cup {src, dest}
           S == {q \in U : Within(src, q) \/ Within(dest, q)}
<1>1. src # <<>>
  BY PathAssumption
<1>2. s # None /\ entry[s].path = src
  BY <1>1, FindEntry DEF keibot_rename, Movable, Exists
<1>3. d # None => entry[d].path = dest
  BY FindEntry
<1>4. entry' = [x \in Entries |-> IF x = s THEN [entry[s] EXCEPT !.path = dest]
                                  ELSE IF x = d THEN None ELSE entry[x]]
  BY DEF keibot_rename, Renamed
<1>5. paired' = Unpaired(S)
  <2>1. paired' = {p \in paired : \A q \in Pair(p) : ~Within(src, q) /\ ~Within(dest, q)}
    BY DEF keibot_rename
  <2> QED
    BY <2>1 DEF Unpaired
<1>6. src \in S /\ dest \in S
  <2>1. src \in U /\ dest \in U
    <3> HIDE DEF V
    <3> QED
      OBVIOUS
  <2> HIDE DEF U
  <2> QED
    BY <2>1 DEF Within
<1>7. strings' \subseteq strings /\ UNCHANGED job
  BY DEF keibot_rename
<1> HIDE DEF S, s, d
<1>8. \A e \in Live : entry[e].path \notin S => entry'[e] = entry[e]
  BY <1>2, <1>3, <1>4, <1>6, NoneAssumption DEF Live
<1> QED
  BY <1>5, <1>7, <1>8, MUnpaired

LEMMA MMknod ==
    ASSUME IInv, BInv, NEW w \in Workers, MInv(w), job[w] = None, NEW p \in Named,
           NEW dir \in BOOLEAN, NEW bare \in BOOLEAN, keibot_mknod(w, p, dir, bare)
    PROVE  MInv(w)'
<1>1. PICK e \in Entries \ Live, np \in swtich_bot(p) :
         /\ entry' = [entry EXCEPT ![e] = File(p, dir, bare)]
         /\ job' = [job EXCEPT ![w] = IF np = None THEN None
                      ELSE [op |-> "create", path |-> p, twin |-> np, dir |-> dir, bare |-> bare]]
  BY DEF keibot_mknod
<1>2. UNCHANGED <<strings, paired>>
  BY DEF keibot_mknod
<1>3. \A x \in Live : entry'[x] = entry[x]
  BY <1>1 DEF IInv, Records, Live
<1>4. PICK k : k = job'[w]
  OBVIOUS
<1>5. np # None => Mirrored(p) /\ np = Twin(p)
  BY <1>1 DEF swtich_bot, Mirrored, Named, Bots
<1>6. /\ np = None => k = None
      /\ np # None => k = [op |-> "create", path |-> p, twin |-> np, dir |-> dir, bare |-> bare]
  BY <1>1, <1>4 DEF BInv, Jobs
<1>7. e \in Live' /\ entry'[e] = File(p, dir, bare)
  <2>1. entry'[e] = File(p, dir, bare)
    BY <1>1 DEF IInv, Records
  <2>2. IsFile(File(p, dir, bare)) /\ Holds(File(p, dir, bare))
    BY FileFields, FileHolds DEF Named
  <2> QED
    BY <1>1, <2>1, <2>2, HoldsFile DEF Live
<1>8. (\A q : ~Halfway(job[w], q)) /\ \A q : ~Halfway(k, q)
  BY <1>6 DEF Halfway
<1>9. k # None => JobMirrors(k)'
  BY <1>5, <1>6, <1>7 DEF JobMirrors, CreateOK
<1>10. \A q \in paired' : Twin(q) \in paired'
  BY <1>2 DEF MInv, PairsOK
<1>11. strings \subseteq Bots
  BY DEF BInv, Names
<1> QED
  BY <1>2, <1>3, <1>4, <1>8, <1>9, <1>10, <1>11, MKept

\* The second create_file of keibot_mknod makes what the first has made.
LEMMA MCreate ==
    ASSUME IInv, BInv, NEW w \in Workers, MInv(w), MirrorCreate(w)
    PROVE  MInv(w)'
<1>1. PICK j : /\ j = job[w] /\ j # None /\ j.op = "create"
               /\ Mirrored(j.path) /\ j.twin = Twin(j.path)
               /\ \E e \in Live : entry[e] = File(j.path, j.dir, j.bare)
  BY DEF MirrorCreate, MInv, JobMirrors, CreateOK
<1>2. job'[w] = None /\ UNCHANGED strings
  BY DEF MirrorCreate, BInv, Jobs
<1>3. PICK k : k = job'[w] /\ k = None
  BY <1>2
<1>4. (\A q : ~Halfway(j, q)) /\ \A q : ~Halfway(k, q)
  BY <1>1, <1>3 DEF Halfway
<1>5. \A p \in paired : Twin(p) \in paired
  BY DEF MInv, PairsOK
<1>6. strings \subseteq Bots
  BY DEF BInv, Names
<1>7. CASE Exists(j.twin)
  <2>1. UNCHANGED <<entry, paired>>
    BY <1>1, <1>7 DEF MirrorCreate
  <2> QED
    BY <1>1, <1>2, <1>3, <1>4, <1>5, <1>6, <2>1, MKept
<1>8. CASE ~Exists(j.twin)
  <2>1. PICK x \in Entries \ Live : /\ entry' = [entry EXCEPT ![x] = File(j.twin, j.dir, j.bare)]
                                    /\ paired' = paired \cup Pair(j.path)
    BY <1>1, <1>8 DEF MirrorCreate
  <2>2. PICK e \in Live : entry[e] = File(j.path, j.dir, j.bare)
    BY <1>1
  <2>3. /\ Pair(j.path) = {j.path, j.twin} /\ Mirrored(j.twin) /\ Twin(j.twin) = j.path
    BY <1>1, TwinPath, TwinPair
  <2>4. entry'[x] = File(j.twin, j.dir, j.bare) /\ \A y \in Live : entry'[y] = entry[y]
    BY <2>1 DEF IInv, Records, Live
  <2>5. /\ entry'[x].path = j.twin /\ entry'[e].path = j.path
        /\ Agree(entry'[e], entry'[x]) /\ Agree(entry'[x], entry'[e])
    BY <2>2, <2>4 DEF File, Agree
  <2>6. entry'[x] # None
    <3>1. IsFile(File(j.twin, j.dir, j.bare)) /\ Holds(File(j.twin, j.dir, j.bare))
      <4>1. j.twin \in Paths /\ j.dir \in BOOLEAN /\ j.bare \in BOOLEAN
        BY <1>1 DEF BInv, Jobs, JobOK
      <4> QED
        BY <4>1, FileFields, FileHolds
    <3> QED
      BY <2>4, <3>1, HoldsFile
  <2>7. e \in Live' /\ x \in Live'
    BY <2>4, <2>6 DEF Live
  <2>8. PairsOK'
    <3>1. ASSUME NEW p \in paired' PROVE Mirrored(p) /\ Twin(p) \in paired'
      <4>1. CASE p \in paired
        BY <2>1, <4>1 DEF MInv, PairsOK
      <4>2. CASE p \in {j.path, j.twin}
        BY <1>1, <2>1, <2>3, <4>2
      <4> QED
        BY <2>1, <2>3, <4>1, <4>2
    <3> QED
      BY <3>1 DEF PairsOK
  <2>9. ASSUME strings' = Bots, NEW p \in paired' PROVE PairOK(k, p)'
    <3>1. CASE p = j.path
      <4>1. At(e, p)' /\ At(x, Twin(p))' /\ AgreeIn(k, p, e, x)'
        BY <1>1, <1>4, <2>5, <2>7, <3>1 DEF At, AgreeIn
      <4> QED
        BY <4>1 DEF PairOK, At, Live
    <3>2. CASE p = j.twin
      <4>1. At(x, p)' /\ At(e, Twin(p))' /\ AgreeIn(k, p, x, e)'
        BY <1>4, <2>3, <2>5, <2>7, <3>2 DEF At, AgreeIn
      <4> QED
        BY <4>1 DEF PairOK, At, Live
    <3>3. CASE p \in paired
      <4>1. PairOK(j, p)
        BY <1>1, <1>2, <2>9, <3>3 DEF MInv
      <4> QED
        BY <1>4, <2>4, <4>1, PKept
    <3> QED
      BY <2>1, <2>3, <3>1, <3>2, <3>3
  <2> QED
    BY <1>2, <1>3, <2>8, <2>9 DEF MInv
<1> QED
  BY <1>7, <1>8

\* What keibot_write leaves to do, and who is concerned by it.
LEMMA WriteJob ==
    ASSUME BInv, PairsOK, NEW w \in Workers, NEW h \in Handles, NEW r \in Requests,
           FilesOpen, keibot_write(w, h, r),
           NEW k, k = job'[w], k # None
    PROVE  /\ k.op = "find" /\ k.path = fh[h].path /\ k.request = r
           /\ k.twin = Twin(k.path)
           /\ Twin(k.path) \in paired' => k.path \in paired'
<1> DEFINE a == fh[h].path
           e == fh[h].entry
<1>1. PICK np \in swtich_bot(a) :
         job' = [job EXCEPT ![w] = IF np = None THEN None
                   ELSE [op |-> "find", path |-> a, twin |-> np, request |-> r]]
  BY DEF keibot_write
<1>2. np # None /\ k = [op |-> "find", path |-> a, twin |-> np, request |-> r]
  BY <1>1 DEF BInv, Jobs
<1>3. a[1] \in Bots /\ Len(a) > 1 /\ np = Twin(a)
  BY <1>1, <1>2 DEF swtich_bot
<1>4. fh[h] # None
  BY DEF keibot_write, Usable
<1>5. ASSUME Twin(a) \in paired' PROVE a \in paired'
  <2>1. CASE fh[h].astray
    <3> DEFINE S == Pair(a) \cup {entry[e].path}
    <3>1. paired' = Unpaired(S)
      BY <2>1 DEF keibot_write
    <3>2. Twin(a) \in S
      BY <1>3 DEF Pair
    <3> HIDE DEF S
    <3> QED
      BY <1>5, <3>1, <3>2, UnpairedBoth
  <2>2. CASE ~fh[h].astray
    <3>1. paired' = paired
      BY <2>2 DEF keibot_write
    <3>2. a \in Paths
      BY <1>4, <2>2 DEF FilesOpen, NamesIt, BInv, Blocks, Holds
    <3>3. Twin(Twin(a)) = a
      BY <1>3, <3>2, TwinBack DEF TwinIs
    <3> QED
      BY <1>5, <3>1, <3>3 DEF PairsOK
  <2> QED
    BY <2>1, <2>2
<1> QED
  BY <1>2, <1>3, <1>5

\* A write through a handle that a directory left behind ends the pairs that it may touch.
LEMMA MWrite ==
    ASSUME IInv, BInv, FilesOpen, NEW w \in Workers, MInv(w), job[w] = None,
           NEW h \in Handles, NEW r \in Requests, keibot_write(w, h, r)
    PROVE  MInv(w)'
<1>1. PICK a, e : a = fh[h].path /\ e = fh[h].entry
  OBVIOUS
<1>2. e \in Live /\ fh[h] # None /\ UNCHANGED strings
  BY <1>1 DEF keibot_write, Usable
<1>3. entry' = [entry EXCEPT ![e] = write_file(entry[e], r.text, r.offset)]
  BY <1>1 DEF keibot_write
<1>4. PICK g : g = write_file(entry[e], r.text, r.offset)
  OBVIOUS
<1>5. /\ entry'[e] = g /\ g # None /\ g.path = entry[e].path
      /\ \A x \in Live \ {e} : entry'[x] = entry[x]
  <2>1. IsFile(entry[e]) /\ Holds(entry[e]) /\ Fits(r)
    BY <1>2 DEF IInv, Records, BInv, Blocks, Fits, keibot_write
  <2>2. IsFile(g) /\ Holds(g) /\ g.path = entry[e].path
    BY <1>4, <2>1, WriteFields, WriteHolds
  <2>3. g # None
    BY <2>2, HoldsFile
  <2>4. entry' = [entry EXCEPT ![e] = g]
    BY <1>3, <1>4
  <2> QED
    BY <1>2, <2>2, <2>3, <2>4 DEF IInv, Records, Live
<1>6. /\ PairsOK /\ paired' \subseteq paired
      /\ \A p \in paired' : Mirrored(p) /\ Twin(p) \in paired'
      /\ fh[h].astray => \A p \in paired' : a # p /\ a # Twin(p) /\ entry[e].path # p
      /\ ~fh[h].astray => entry[e].path = a /\ entry[e].dir = FALSE
  <2>1. PairsOK
    BY DEF MInv
  <2>2. CASE fh[h].astray
    <3> DEFINE S == Pair(a) \cup {entry[e].path}
    <3>1. paired' = Unpaired(S) /\ a \in S /\ entry[e].path \in S
      BY <1>1, <2>2 DEF keibot_write, Pair
    <3> HIDE DEF S
    <3>2. \A p \in paired' : p \in paired /\ Twin(p) \in paired' /\ p \notin S /\ Twin(p) \notin S
      BY <2>1, <3>1, UnpairedBoth
    <3> QED
      BY <2>1, <2>2, <3>1, <3>2 DEF PairsOK
  <2>3. CASE ~fh[h].astray
    <3>1. paired' = paired
      BY <2>3 DEF keibot_write
    <3> QED
      BY <1>1, <1>2, <2>1, <2>3, <3>1 DEF PairsOK, FilesOpen, NamesIt
  <2> QED
    BY <2>2, <2>3
<1>7. PICK k : k = job'[w]
  OBVIOUS
<1>8. k # None => /\ k.op = "find" /\ k.path = a /\ k.request = r /\ k.twin = Twin(k.path)
                  /\ Twin(k.path) \in paired' => k.path \in paired'
  BY <1>1, <1>6, <1>7, WriteJob
<1>9. k # None => JobMirrors(k)'
  BY <1>8 DEF JobMirrors
<1>10. PairsOK'
  BY <1>6 DEF PairsOK
<1>11. ASSUME strings' = Bots, NEW p \in paired' PROVE PairOK(k, p)'
  <2>1. PICK x \in Entries, y \in Entries : At(x, p) /\ At(y, Twin(p)) /\ Agree(entry[x], entry[y])
    BY <1>2, <1>6, <1>11 DEF MInv, PairOK, AgreeIn, Halfway
  <2>2. Twin(p) # p /\ Twin(Twin(p)) = p /\ Mirrored(p) /\ Mirrored(Twin(p))
    BY <1>6, TwinPath
  <2>3. x # y
    BY <2>1, <2>2 DEF At
  <2>4. At(x, p)' /\ At(y, Twin(p))'
    BY <1>5, <2>1 DEF At, Live
  <2>5. CASE e \notin {x, y}
    <3>1. ~Halfway(k, p) /\ ~Halfway(k, Twin(p))
      BY <1>2, <1>6, <1>8, <2>1, <2>5 DEF Halfway, At, IInv, OneEntryPerPath
    <3>2. \A z \in Live : entry[z].path \in {p, Twin(p)} => entry'[z] = entry[z]
      BY <1>2, <1>5, <2>1, <2>5 DEF At, IInv, OneEntryPerPath
    <3>3. entry'[x] = entry[x] /\ entry'[y] = entry[y]
      BY <2>1, <3>2 DEF At
    <3>4. AgreeIn(k, p, x, y)'
      BY <2>1, <3>1, <3>3 DEF AgreeIn
    <3> QED
      BY <2>1, <2>4, <3>4 DEF PairOK
  <2>6. ASSUME e \in {x, y} PROVE ~fh[h].astray /\ a = entry[e].path /\ Halfway(k, a) /\ k.request = r
    <3>1. ~fh[h].astray /\ a = entry[e].path /\ a \in {p, Twin(p)}
      BY <1>6, <2>1, <2>2, <2>6 DEF At
    <3>2. Mirrored(a) /\ Twin(a) \in Paths /\ a \in Paths /\ Twin(a) # None
      BY <2>2, <3>1, TwinPath, NoneAssumption DEF Mirrored
    <3>3. swtich_bot(a) = {Twin(a)}
      BY <1>2, <1>11, <3>2 DEF swtich_bot, Mirrored
    <3>4. job' = [job EXCEPT ![w] = [op |-> "find", path |-> a, twin |-> Twin(a), request |-> r]]
      BY <1>1, <3>2, <3>3 DEF keibot_write
    <3>5. k = [op |-> "find", path |-> a, twin |-> Twin(a), request |-> r]
      BY <1>7, <3>4 DEF BInv, Jobs
    <3>6. k \in Copies
      BY <3>2, <3>5 DEF Copies
    <3>7. k # None
      BY <3>6, NoneAssumption
    <3> QED
      BY <3>1, <3>5, <3>7 DEF Halfway
  <2>7. CASE e = x
    <3>1. Halfway(k, p) /\ k.request = r /\ entry[x].dir = FALSE
      BY <1>6, <2>1, <2>6, <2>7 DEF At
    <3>2. entry'[y] = entry[y] /\ entry'[x] = write_file(entry[x], r.text, r.offset)
      BY <1>4, <1>5, <2>1, <2>3, <2>7 DEF At
    <3>3. Agree(entry'[x], Copied(k, entry'[y]))
      <4>1. IsFile(entry[x]) /\ IsFile(entry[y])
        BY <2>1 DEF At, IInv, Records
      <4> QED
        BY <2>1, <3>1, <3>2, <4>1, WriteAgrees DEF Copied
    <3>4. entry'[y].dir = FALSE
      BY <2>1, <3>1, <3>2 DEF Agree
    <3>5. AgreeIn(k, p, x, y)'
      BY <3>1, <3>3, <3>4 DEF AgreeIn, Copied
    <3> QED
      BY <2>1, <2>4, <3>5 DEF PairOK
  <2>8. CASE e = y
    <3>1. Halfway(k, Twin(p)) /\ ~Halfway(k, p)
      BY <2>1, <2>2, <2>6, <2>8 DEF At, Halfway
    <3>2. AgreeIn(k, p, x, y)'
      BY <3>1 DEF AgreeIn
    <3> QED
      BY <2>1, <2>4, <3>2 DEF PairOK
  <2> QED
    BY <2>5, <2>7, <2>8
<1> QED
  BY <1>7, <1>9, <1>10, <1>11 DEF MInv

\* The mirror is found, since both sides of a pair exist.
LEMMA MFind ==
    ASSUME IInv, BInv, NEW w \in Workers, MInv(w), MirrorFind(w)
    PROVE  MInv(w)'
<1>1. PICK j : /\ j = job[w] /\ j # None /\ j.op = "find" /\ j.twin = Twin(j.path) /\ Fits(j.request)
               /\ Twin(j.path) \in paired => j.path \in paired
  BY DEF MirrorFind, MInv, JobMirrors, BInv, Jobs, JobOK
<1>2. PICK k : k = job'[w]
  OBVIOUS
<1>3. k = IF find_entry(j.twin) = None \/ Last(j.twin) = hidden THEN None
          ELSE [op |-> "write", path |-> j.path, request |-> j.request, entry |-> find_entry(j.twin)]
  BY <1>1, <1>2 DEF MirrorFind, BInv, Jobs
<1>4. UNCHANGED <<entry, strings, paired>>
  BY DEF MirrorFind
<1>5. k # None => JobMirrors(k)'
  <2> SUFFICES ASSUME k # None PROVE JobMirrors(k)'
    OBVIOUS
  <2>1. /\ find_entry(j.twin) # None
        /\ k = [op |-> "write", path |-> j.path, request |-> j.request, entry |-> find_entry(j.twin)]
    BY <1>3
  <2>2. k.op = "write" /\ k.path = j.path /\ At(k.entry, Twin(k.path))
    BY <1>1, <2>1, FindEntry DEF At
  <2> QED
    BY <1>1, <1>4, <2>2 DEF JobMirrors, At, Live
<1>6. ASSUME strings = Bots, NEW p \in paired, j.path = p
      PROVE  k # None /\ k.op = "write" /\ k.path = p /\ k.request = j.request
  <2>1. Mirrored(p) /\ \E x \in Entries : At(x, Twin(p))
    BY <1>6 DEF MInv, PairsOK, PairOK
  <2>2. find_entry(j.twin) # None /\ Last(j.twin) # hidden /\ p \in Paths
    BY <1>1, <1>6, <2>1, FindEntry, TwinPath DEF At, Mirrored
  <2>3. k = [op |-> "write", path |-> p, request |-> j.request, entry |-> find_entry(j.twin)]
    BY <1>3, <1>6, <2>2
  <2>4. find_entry(j.twin) \in Entries /\ j.request \in Requests
    BY <1>1, <2>2, FindEntry DEF Live, Fits
  <2>5. k \in Copies
    BY <2>2, <2>3, <2>4 DEF Copies
  <2> QED
    BY <2>3, <2>5, NoneAssumption
<1>7. ASSUME strings = Bots, NEW p \in paired
      PROVE  Halfway(k, p) = Halfway(j, p)
  <2>1. CASE j.path = p
    BY <1>1, <1>6, <1>7, <2>1 DEF Halfway
  <2>2. CASE j.path # p
    BY <1>3, <2>2 DEF Halfway
  <2> QED
    BY <2>1, <2>2
<1>8. ASSUME strings' = Bots, NEW p \in paired' PROVE PairOK(k, p)'
  <2>1. strings = Bots /\ p \in paired /\ Twin(p) \in paired /\ PairOK(j, p)
    BY <1>1, <1>4, <1>8 DEF MInv, PairsOK
  <2>2. PICK e \in Entries, x \in Entries : At(e, p) /\ At(x, Twin(p)) /\ AgreeIn(j, p, e, x)
    BY <2>1 DEF PairOK
  <2>3. Halfway(k, p) = Halfway(j, p) /\ Halfway(k, Twin(p)) = Halfway(j, Twin(p))
    BY <1>7, <2>1
  <2>4. Halfway(j, p) => k.request = j.request
    BY <1>6, <2>1 DEF Halfway
  <2>5. AgreeIn(k, p, e, x)
    BY <2>2, <2>3, <2>4 DEF AgreeIn, Copied
  <2> QED
    BY <1>4, <2>2, <2>5 DEF PairOK, At, AgreeIn, Live
<1> QED
  BY <1>2, <1>4, <1>5, <1>8 DEF MInv, PairsOK

LEMMA PairBack ==
    ASSUME NEW q, NEW j, PairOK(j, q)', ~Halfway(j, q), ~Halfway(j, Twin(q)), Twin(Twin(q)) = q
    PROVE  PairOK(j, Twin(q))'
BY DEF PairOK, AgreeIn, Agree

\* The mirror is written with what the file was written with.
LEMMA MCopy ==
    ASSUME IInv, BInv, NEW w \in Workers, MInv(w), MirrorWrite(w)
    PROVE  MInv(w)'
<1>1. PICK j : /\ j = job[w] /\ j # None /\ j.op = "write" /\ At(j.entry, Twin(j.path)) /\ Fits(j.request)
               /\ Twin(j.path) \in paired => j.path \in paired
  BY DEF MirrorWrite, MInv, JobMirrors, BInv, Jobs, JobOK
<1>2. PICK x : x = j.entry
  OBVIOUS
<1>3. PICK g : g = Copied(j, entry[x])
  OBVIOUS
<1>4. entry' = IF IS_DIR(x) THEN entry ELSE [entry EXCEPT ![x] = g]
  BY <1>1, <1>2, <1>3 DEF MirrorWrite, Copied
<1>5. PICK k : k = job'[w] /\ k = None
  BY DEF MirrorWrite, BInv, Jobs
<1>6. UNCHANGED <<strings, paired>>
  BY DEF MirrorWrite
<1>7. \A q : ~Halfway(k, q)
  BY <1>5 DEF Halfway
<1>8. x \in Live /\ entry[x].path = Twin(j.path) /\ g # None /\ g.path = entry[x].path
  <2>1. x \in Live /\ entry[x].path = Twin(j.path)
    BY <1>1, <1>2 DEF At
  <2>2. IsFile(entry[x]) /\ Holds(entry[x])
    BY <2>1 DEF IInv, Records, BInv, Blocks
  <2>3. IsFile(g) /\ Holds(g) /\ g.path = entry[x].path
    BY <1>1, <1>3, <2>2, WriteFields, WriteHolds DEF Copied
  <2> QED
    BY <2>1, <2>3, HoldsFile
<1>9. \A y \in Live \ {x} : entry'[y] = entry[y]
  BY <1>4 DEF IInv, Records, Live
<1>10. ASSUME strings = Bots, NEW q \in paired, j.path = q PROVE PairOK(k, q)'
  <2>1. PICK e \in Entries, y \in Entries : At(e, q) /\ At(y, Twin(q)) /\ AgreeIn(j, q, e, y)
    BY <1>1, <1>10 DEF MInv, PairOK
  <2>2. Twin(q) # q
    BY <1>10, TwinPath DEF MInv, PairsOK
  <2>3. y = x /\ e # x
    BY <1>8, <1>10, <2>1, <2>2 DEF At, IInv, OneEntryPerPath
  <2>4. entry[x].dir = FALSE /\ Agree(entry[e], g)
    BY <1>1, <1>3, <1>10, <2>1, <2>3 DEF AgreeIn, Halfway
  <2>5. entry'[x] = g /\ entry'[e] = entry[e]
    BY <1>4, <1>8, <1>9, <2>1, <2>3, <2>4 DEF IS_DIR, At, IInv, Records, Live
  <2>6. At(e, q)' /\ At(x, Twin(q))' /\ AgreeIn(k, q, e, x)'
    BY <1>7, <1>8, <1>10, <2>1, <2>4, <2>5 DEF At, AgreeIn, Live
  <2> QED
    BY <2>6 DEF PairOK, At, Live
<1>11. ASSUME strings' = Bots, NEW p \in paired' PROVE PairOK(k, p)'
  <2>1. strings = Bots /\ p \in paired /\ Twin(p) \in paired /\ PairOK(j, p)
    BY <1>1, <1>6, <1>11 DEF MInv, PairsOK
  <2>2. Twin(Twin(p)) = p
    BY <2>1, TwinPath DEF MInv, PairsOK
  <2>3. CASE j.path = p
    BY <1>10, <2>1, <2>3
  <2>4. CASE j.path = Twin(p)
    <3>1. PICK q : q = Twin(p)
      OBVIOUS
    <3>2. PairOK(k, q)'
      BY <1>10, <2>1, <2>4, <3>1
    <3>3. ~Halfway(k, q) /\ ~Halfway(k, Twin(q)) /\ Twin(Twin(q)) = q /\ Twin(q) = p
      BY <1>7, <2>2, <3>1
    <3>4. PairOK(k, Twin(q))'
      BY <3>2, <3>3, PairBack
    <3> QED
      BY <3>3, <3>4
  <2>5. CASE j.path # p /\ j.path # Twin(p)
    <3>1. Twin(j.path) \notin {p, Twin(p)}
      <4>1. CASE j.path \notin paired
        BY <1>1, <2>1, <4>1
      <4>2. CASE j.path \in paired
        BY <2>2, <2>5, <4>2, TwinPath DEF MInv, PairsOK
      <4> QED
        BY <4>1, <4>2
    <3>2. \A y \in Live : entry[y].path \in {p, Twin(p)} => entry'[y] = entry[y]
      BY <1>8, <1>9, <3>1
    <3>3. ~Halfway(j, p) /\ ~Halfway(j, Twin(p))
      BY <2>5 DEF Halfway
    <3> QED
      BY <1>7, <2>1, <3>2, <3>3, PKept
  <2> QED
    BY <2>3, <2>4, <2>5
<1> QED
  BY <1>5, <1>6, <1>11 DEF MInv, PairsOK

LEMMA MInit == ASSUME Init, NEW w \in Workers PROVE MInv(w)
BY DEF Init, MInv, PairsOK

LEMMA MCall ==
    ASSUME IInv, BInv, FilesOpen, NEW w \in Workers, MInv(w), Call(w)
    PROVE  MInv(w)'
<1> job[w] = None /\ strings \subseteq Bots
  BY DEF Call, Idle, BInv, Names
<1>1. CASE \E p \in Named, dir, bare \in BOOLEAN : (bare => dir) /\ keibot_mknod(w, p, dir, bare)
  <2>1. PICK p \in Named, dir \in BOOLEAN, bare \in BOOLEAN : keibot_mknod(w, p, dir, bare)
    BY <1>1
  <2> QED
    BY <2>1, MMknod
<1>2. CASE \E h \in Handles, r \in Requests : keibot_write(w, h, r)
  BY <1>2, MWrite
<1>3. CASE \E p \in Named : keibot_unlink(p) \/ keibot_rmdir(p)
  BY <1>3, MRemove
<1>4. CASE \E p \in Named : keibot_opendir(p) \/ \E h \in Handles : keibot_open(h, p)
  <2>1. UNCHANGED <<job, strings, paired>>
    BY <1>4 DEF keibot_opendir, keibot_open
  <2>2. UNCHANGED entry \/ \E e \in Entries \ Live : \E f : entry' = [entry EXCEPT ![e] = f]
    BY <1>4, Zenon DEF keibot_opendir, keibot_open
  <2> QED
    BY <2>1, <2>2, MAdds
<1>5. CASE \E p \in Named : Hide(p) \/ \E q \in Named : keibot_rename(p, q)
  BY <1>5, MRename DEF Hide, Named
<1>6. CASE \E h \in Handles : keibot_release(h)
  BY <1>6, MRelease
<1>7. CASE \/ \E p, q \in Named : Exchange(p, q)
           \/ \E h \in Handles : MissingEmoji(h) \/ FreedEntry(h)
  <2>1. UNCHANGED <<entry, job, strings, paired>>
    BY <1>7 DEF Exchange, MissingEmoji, FreedEntry
  <2> QED
    BY <2>1, MAdds
<1>8. CASE keibot_destroy
  <2>1. paired' = {} /\ UNCHANGED job
    BY <1>8 DEF keibot_destroy
  <2> QED
    BY <2>1 DEF MInv, PairsOK
<1> QED
  BY <1>1, <1>2, <1>3, <1>4, <1>5, <1>6, <1>7, <1>8 DEF Call

LEMMA MNext ==
    ASSUME NEW w, Workers = {w}, IInv, BInv, FilesOpen, MInv(w), [Next]_vars
    PROVE  MInv(w)'
<1>1. CASE UNCHANGED vars
  <2>1. UNCHANGED <<entry, job, strings, paired>>
    BY <1>1 DEF vars
  <2>2. Live' = Live
    BY <2>1 DEF Live
  <2> QED
    BY <2>1, <2>2 DEF MInv, PairsOK, PairOK, At, AgreeIn, JobMirrors, CreateOK
<1>2. CASE Call(w)
  BY <1>2, MCall
<1>3. CASE Mirror(w)
  BY <1>3, MCreate, MFind, MCopy DEF Mirror
<1> QED
  BY <1>1, <1>2, <1>3 DEF Next

\* Files of one size and one content read the same.
LEMMA Reads ==
    ASSUME IInv, NEW p, NEW e, NEW x, At(e, p), At(x, Twin(p)), Agree(entry[e], entry[x])
    PROVE  Said(p) = Said(Twin(p))
<1>1. find_entry(p) = e /\ find_entry(Twin(p)) = x
  BY FindEntry DEF At, IInv, OneEntryPerPath
<1>2. entry[e].size = entry[x].size /\ entry[e].content = entry[x].content
  BY DEF Agree
<1> QED
  BY <1>1, <1>2 DEF Said, keibot_read

\* With one worker the mirror that keibot_write looks up (keibot.c:398) is still in the list
\* when it is written; and the entry of an open file is in the list, under the file's path,
\* unless a directory above the file was moved or replaced (keibot_rename leaves the entries
\* below it as they were, and of the files that are open there the theorem says nothing).
THEOREM HandlesStayLive ==
    ASSUME NEW w, Workers = {w}
    PROVE  Spec => []HandlesLive
<1>1. Init => FilesOpen /\ MInv(w)
  BY MInit DEF Init, FilesOpen
<1>2. MInv(w) /\ FilesOpen => HandlesLive
  BY DEF MInv, JobMirrors, At, FilesOpen, NamesIt, HandlesLive, OpenLive, MirrorLive
<1>3. IInv /\ BInv /\ FilesOpen /\ MInv(w) /\ [Next]_vars => MInv(w)'
  BY MNext
<1> QED
  BY <1>1, <1>2, <1>3, Initially, Preserved, BInit, BNext, FNext, PTL DEF Spec

\* With one worker what was created on both sides by one call reads the same on both, for every
\* number of files, handles, texts and emoji, whichever side is written, over removals, moves and
\* opens of the other files, between the calls (keibot.c:309-337, 381-411).
THEOREM MirrorsStayEqual ==
    ASSUME NEW w, Workers = {w}
    PROVE  Spec => []MirrorsAgree
<1>1. Init => FilesOpen /\ MInv(w)
  BY MInit DEF Init, FilesOpen
<1>2. IInv /\ MInv(w) => MirrorsAgree
  <2> SUFFICES ASSUME IInv, MInv(w), strings = Bots, NEW p \in paired, ~Busy(p)
               PROVE  Said(p) = Said(Twin(p))
    BY DEF MirrorsAgree
  <2>1. Pair(p) = {p, Twin(p)} /\ PairOK(job[w], p)
    BY TwinPair DEF MInv, PairsOK
  <2>2. ~Halfway(job[w], p) /\ ~Halfway(job[w], Twin(p))
    BY <2>1 DEF Busy, Halfway
  <2> QED
    BY <2>1, <2>2, Reads DEF PairOK, AgreeIn
<1>3. IInv /\ BInv /\ FilesOpen /\ MInv(w) /\ [Next]_vars => MInv(w)'
  BY MNext
<1> QED
  BY <1>1, <1>2, <1>3, Initially, Preserved, BInit, BNext, FNext, PTL DEF Spec
=============================================================================
