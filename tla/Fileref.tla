------------------------------ MODULE Fileref -------------------------------
(***************************************************************************)
(* Files served from disk (src/filemap.c) through counted references       *)
(* (src/fileref.c): found again by path, held by the netbufs that send     *)
(* them, dropped when the file changes or after some time without use.     *)
(* References live in a pool whose elements are used again.                *)
(***************************************************************************)
EXTENDS Integers, Sequences, FiniteSets, SequencesExt, FiniteSetsExt

CONSTANTS
    Names,      \* the paths that requests lead to (fpath in filemap_serve)
    Real,       \* realpath: from Names to Names
    Refs,       \* elements of ref_pool: numbers, the first of the free ones is taken
    FileFds,    \* descriptors: numbers, the lowest free one is taken
    Senders,    \* connections
    MaxChanges, \* bound: changes of files on disk
    MaxHeld     \* bound: files waiting to be sent on a connection

VARIABLES
    disk,      \* the modification time of each file, 0: no such file
    mem,       \* ref_pool, refs and the descriptors in use
    held,      \* the references in the send queue of each connection
    ref_timer, \* ref_timer: "none" or "primed"
    changes,   \* history: changes of files so far
    miscounted \* history: a count went below zero ("yes" or "no")

filerefVars == <<disk, mem, held, ref_timer, changes, miscounted>>

Files == {Real[n] : n \in Names}
Unused == [path |-> "none", cnt |-> 0, soft |-> "no", mtime |-> 0, fd |-> 0, age |-> "new"]
Ref == [path : Names, cnt : Int, soft : {"no", "yes"}, mtime : Nat, fd : FileFds, age : {"new", "old"}]

FilerefTypeOK ==
    /\ disk \in [Files -> 0 .. MaxChanges + 1]
    /\ mem.ref \in [Refs -> Ref \cup {Unused}] /\ mem.refs \in Seq(Refs) /\ mem.open \subseteq FileFds
    /\ held \in [Senders -> Seq(Refs)]
    /\ ref_timer \in {"none", "primed"} /\ changes \in 0 .. MaxChanges /\ miscounted \in {"no", "yes"}

FilerefInit ==
    /\ disk = [f \in Files |-> 1]
    /\ mem = [ref |-> [r \in Refs |-> Unused], refs |-> << >>, open |-> {}]
    /\ held = [c \in Senders |-> << >>]
    /\ ref_timer = "none" /\ changes = 0 /\ miscounted = "no"

Live(m) == {r \in Refs : m.ref[r] # Unused}
Unlist(s, x) == SelectSeq(s, LAMBDA y : y # x)
-----------------------------------------------------------------------------
\* Each of these maps the memory before the call to the memory after it.
fileref_drop(m, r) ==
    [ref |-> [m.ref EXCEPT ![r] = Unused], refs |-> Unlist(m.refs, r),
     open |-> m.open \ {m.ref[r].fd}]

\* Wrong variant: the reference goes although it is in use.
HardRemove(m, r) == fileref_drop(m, r)

fileref_soft_remove(m, r) ==
    IF m.ref[r].cnt = 0 THEN fileref_drop(m, r)
    ELSE [m EXCEPT !.refs = Unlist(@, r), !.ref[r].soft = "yes"]

\* The listed reference to a path, 0 when there is none.
Listed(m, path) ==
    LET hits == {i \in DOMAIN m.refs : m.ref[m.refs[i]].path = path}
    IN  IF hits = {} THEN 0 ELSE m.refs[Min(hits)]

\* kore_fileref_get: a reference to a file that has changed or gone is
\* removed, any other is counted and becomes the first of the list.
kore_fileref_get(m, path) ==
    LET r == Listed(m, path)
    IN  CASE r = 0 -> [m |-> m, r |-> 0]
          [] r # 0 /\ m.ref[r].mtime # disk[Real[path]] ->
                [m |-> fileref_soft_remove(m, r), r |-> 0]
          [] OTHER -> [m |-> [m EXCEPT !.ref[r].cnt = @ + 1, !.refs = <<r>> \o Unlist(@, r)], r |-> r]

\* kore_fileref_create, given a descriptor.
kore_fileref_create(m, path, fd) ==
    LET got == kore_fileref_get(m, path)
        new == CHOOSE r \in Refs \ Live(got.m) : \A q \in Refs \ Live(got.m) : r <= q
        ref == [path |-> path, cnt |-> 1, soft |-> "no", mtime |-> disk[Real[path]], fd |-> fd,
                age |-> "new"]
    IN  IF got.r # 0 THEN got
        ELSE [m |-> [got.m EXCEPT !.ref[new] = ref, !.refs = Append(@, new)], r |-> new]

kore_fileref_release(m, r) ==
    LET n == [m EXCEPT !.ref[r].cnt = @ - 1]
    IN  IF n.ref[r].cnt # 0 THEN n
        ELSE IF n.ref[r].soft = "yes" THEN fileref_drop(n, r)
        ELSE [n EXCEPT !.ref[r].age = "new"]

\* The last part of http_response_fileref: the file is sent, or, after HEAD or
\* with If-Modified-Since, the reference is given back.
http_response_fileref(c, got) ==
    \/ /\ Len(held[c]) < MaxHeld
       /\ held' = [held EXCEPT ![c] = Append(@, got.r)] /\ mem' = got.m
    \/ /\ mem' = kore_fileref_release(got.m, got.r) /\ UNCHANGED held

\* filemap_serve for a path that is found.  An empty file, a directory
\* without index and a path outside of the map are refused without a trace.
ServeListed(c, n) ==
    LET got == kore_fileref_get(mem, Real[n])
    IN  /\ got.r # 0
        /\ http_response_fileref(c, got)
        /\ UNCHANGED <<disk, ref_timer, changes, miscounted>>

ServeOpened(c, n) ==
    LET got == kore_fileref_get(mem, Real[n])
        fd == Min(FileFds \ got.m.open)
        opened == [got.m EXCEPT !.open = @ \cup {fd}]
    IN  /\ got.r = 0 /\ disk[Real[n]] # 0
        /\ FileFds # got.m.open /\ Live(got.m) # Refs
        /\ ref_timer' = "primed"
        /\ http_response_fileref(c, kore_fileref_create(opened, n, fd))
        /\ UNCHANGED <<disk, changes, miscounted>>

\* The file is not there (any more).
ServeMissing(n) ==
    LET got == kore_fileref_get(mem, Real[n])
    IN  /\ got.r = 0 /\ disk[Real[n]] = 0
        /\ mem' = got.m /\ UNCHANGED <<disk, held, ref_timer, changes, miscounted>>

\* net_remove_netbuf: the file was sent, or its connection is removed.
SentOrClosed(c) ==
    /\ held[c] # << >>
    /\ mem' = kore_fileref_release(mem, Head(held[c]))
    /\ held' = [held EXCEPT ![c] = Tail(@)]
    /\ miscounted' = IF mem.ref[Head(held[c])].cnt < 1 THEN "yes" ELSE miscounted
    /\ UNCHANGED <<disk, ref_timer, changes>>

\* FILEREF_EXPIRATION passes for a reference without users.
Ages(r) ==
    /\ r \in Live(mem) /\ mem.ref[r].cnt = 0 /\ mem.ref[r].age = "new"
    /\ mem' = [mem EXCEPT !.ref[r].age = "old"]
    /\ UNCHANGED <<disk, held, ref_timer, changes, miscounted>>

\* fileref_expiration_check; the timer ends with the last reference.
fileref_expiration_check ==
    LET old == SelectSeq(mem.refs, LAMBDA r : mem.ref[r].cnt = 0 /\ mem.ref[r].age = "old")
        left == FoldLeft(fileref_drop, mem, old)
    IN  /\ ref_timer = "primed" /\ mem' = left
        /\ ref_timer' = IF left.refs = << >> THEN "none" ELSE ref_timer
        /\ UNCHANGED <<disk, held, changes, miscounted>>

\* Somebody writes, makes or deletes a file.
Change(f) ==
    /\ changes < MaxChanges /\ changes' = changes + 1
    /\ \E t \in {0, changes + 2} : t # disk[f] /\ disk' = [disk EXCEPT ![f] = t]
    /\ UNCHANGED <<mem, held, ref_timer, miscounted>>

FilerefNext ==
    \/ \E c \in Senders, n \in Names : ServeListed(c, n) \/ ServeOpened(c, n)
    \/ \E n \in Names : ServeMissing(n)
    \/ \E c \in Senders : SentOrClosed(c)
    \/ \E r \in Refs : Ages(r)
    \/ fileref_expiration_check
    \/ \E f \in Files : Change(f)

FilerefSpec == FilerefInit /\ [][FilerefNext]_filerefVars
-----------------------------------------------------------------------------
\* Every reference in a send queue is in use, counted exactly, whatever
\* happens to the file meanwhile, and no count ever goes below zero.
HeldRefsCounted ==
    /\ miscounted = "no"
    /\ \A r \in Refs :
         LET users == {p \in Senders \X (1 .. MaxHeld) : p[2] <= Len(held[p[1]]) /\ held[p[1]][p[2]] = r}
         IN  mem.ref[r].cnt = Cardinality(users) /\ (users # {} => r \in Live(mem))

\* A reference is in the list or was removed softly and is in use; while the
\* list is not empty the timer that empties it is there.
WillExpire ==
    /\ \A r \in Live(mem) : (mem.ref[r].soft = "no") <=> (\E i \in DOMAIN mem.refs : mem.refs[i] = r)
    /\ \A r \in Live(mem) : mem.ref[r].soft = "yes" => mem.ref[r].cnt > 0
    /\ mem.refs # << >> => ref_timer = "primed"

\* Every open descriptor belongs to exactly one reference: the references
\* take over the descriptors that filemap_serve opens, and close them.
DescriptorsOwned ==
    /\ mem.open = {mem.ref[r].fd : r \in Live(mem)}
    /\ \A r, q \in Live(mem) : mem.ref[r].fd = mem.ref[q].fd => r = q
=============================================================================
