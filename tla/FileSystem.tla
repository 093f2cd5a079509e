----------------------------- MODULE FileSystem -----------------------------
(***************************************************************************)
(* FileSystem.c as tasks call it: the cluster link table, the root         *)
(* directory, the handles, and the calls that open, read, write, seek,     *)
(* close and remove.                                                       *)
(*                                                                         *)
(* Sectors and clusters are read and written as one store, which Cache     *)
(* shows the caches to be, and each such call can fail.  What a call does  *)
(* under the mutex is one step, except that a write takes one step for     *)
(* each cluster; closing, which takes no mutex, is two.                    *)
(***************************************************************************)
EXTENDS Naturals, Integers, Sequences

CONSTANTS
    Tasks, NoTask,
    Names, NoName,
    dwTotalClusterCount,
    LinksPerSector,      \* 128 in the code
    ClusterSize,         \* FILESYSTEM_CLUSTERSIZE, in bytes
    MaxEntries,          \* FILESYSTEM_MAXDIRECTORYENTRYCOUNT
    MaxHandles,          \* FILESYSTEM_HANDLE_MAXCOUNT
    MaxSize,             \* a bound on the size of a file
    Counts, Offsets,     \* what is read or written, and sought, at once
    Fails                \* a low-level call can fail, one in a run

ASSUME FileSystemAssumption ==
    /\ NoTask \notin Tasks /\ NoName \notin Names
    /\ {dwTotalClusterCount, LinksPerSector, ClusterSize, MaxEntries,
        MaxHandles} \subseteq Nat \ {0}
    /\ dwTotalClusterCount > 1
    /\ MaxSize \in Nat /\ Counts \subseteq Nat \ {0} /\ Offsets \subseteq Int
    /\ Fails \in BOOLEAN

VARIABLES
    link,     \* the cluster link table
    root,     \* the entries of the root directory
    data,     \* the bytes of the clusters
    dwLastAllocatedClusterLinkSectorOffset,
    pool,     \* pstHandlePool
    owner,    \* of stMutex
    call,     \* the call each task is in, and its locals
    holder,   \* history: the task kOpenFile gave a handle to
    content,  \* history: what has been written to each file
    failed,   \* history: some low-level call has failed
    broken    \* history: the code has lost track of a volume or a handle

volume == <<link, root, data, dwLastAllocatedClusterLinkSectorOffset>>
vars == <<volume, pool, owner, call, holder, content, failed, broken>>

FREECLUSTER == 0
LASTCLUSTER == dwTotalClusterCount  \* 0xFFFFFFFF in the code
Clusters == 0 .. dwTotalClusterCount - 1
Entries == 1 .. MaxEntries
Handles == 1 .. MaxHandles
None == 0  \* no entry, no handle

\* A byte that was written, be it a zero, and any other.
Byte(name, position) == <<name, position>>
Junk == <<NoName, 0>>
Unknown == [k \in 0 .. ClusterSize - 1 |-> Junk]

NoEntry == [name |-> NoName, dwFileSize |-> 0, dwStartClusterIndex |-> 0]

FreeHandle == [used |-> FALSE, entry |-> None, dwFileSize |-> 0,
               dwStartClusterIndex |-> 0, dwCurrentClusterIndex |-> 0,
               dwPreviousClusterIndex |-> 0, dwCurrentOffset |-> 0]

Idle == [step |-> "idle", h |-> None, left |-> 0, zeros |-> 0]

\* A formatted volume: cluster 0 is the root directory.
Init ==
    /\ link = [c \in Clusters |-> IF c = 0 THEN LASTCLUSTER ELSE FREECLUSTER]
    /\ root = [i \in Entries |-> NoEntry]
    /\ data = [c \in Clusters |-> Unknown]
    /\ dwLastAllocatedClusterLinkSectorOffset = 0
    /\ pool = [h \in Handles |-> FreeHandle]
    /\ owner = NoTask /\ call = [t \in Tasks |-> Idle]
    /\ holder = [h \in Handles |-> NoTask]
    /\ content = [name \in Names |-> <<>>]
    /\ failed = FALSE /\ broken = FALSE

-----------------------------------------------------------------------------
\* The link table.

AreaSize == (dwTotalClusterCount + LinksPerSector - 1) \div LinksPerSector
SectorOf(c) == c \div LinksPerSector

\* How far a sector of the table is from the one searched first.
Distance(c) ==
    (SectorOf(c) + AreaSize - dwLastAllocatedClusterLinkSectorOffset) % AreaSize

\* The clusters kFindFreeCluster sees: of the last sector, the remainder.
Searched(c) == SectorOf(c) = AreaSize - 1 =>
    c % LinksPerSector < dwTotalClusterCount % LinksPerSector

\* Faulty: a link that ends a chain passes for free.
FindFreeClusterLast ==
    LET free == {c \in Clusters : Searched(c) /\ link[c] \in {FREECLUSTER, LASTCLUSTER}} IN
    IF free = {} THEN LASTCLUSTER
    ELSE CHOOSE c \in free : \A d \in free :
            Distance(c) < Distance(d) \/ (Distance(c) = Distance(d) /\ c <= d)

FindFreeCluster ==
    LET free == {c \in Clusters : Searched(c) /\ link[c] = FREECLUSTER} IN
    IF free = {} THEN LASTCLUSTER
    ELSE CHOOSE c \in free : \A d \in free :
            Distance(c) < Distance(d) \/ (Distance(c) = Distance(d) /\ c <= d)

\* The cluster n links behind c; the table has no link for LASTCLUSTER.
Walk(c, n) ==
    LET at[k \in 0 .. n] ==
            IF k = 0 THEN c
            ELSE IF at[k - 1] = LASTCLUSTER THEN LASTCLUSTER ELSE link[at[k - 1]]
    IN  at[n]

Chain(c) == {Walk(c, n) : n \in Clusters} \ {LASTCLUSTER}
Ends(c) == Walk(c, dwTotalClusterCount) = LASTCLUSTER

\* kFreeClusterUntilEnd on a table: the first n clusters are freed.
Freed(table, c, n) ==
    [d \in Clusters |-> IF d \in {Walk(c, k) : k \in 0 .. n - 1} THEN FREECLUSTER
                        ELSE table[d]]
Length(c) == CHOOSE n \in 0 .. dwTotalClusterCount :
    Walk(c, n) = LASTCLUSTER /\ \A k \in 0 .. n - 1 : Walk(c, k) # LASTCLUSTER

-----------------------------------------------------------------------------
\* The root directory and the handles.

Lowest(S) == IF S = {} THEN None ELSE CHOOSE i \in S : \A j \in S : i <= j

FindFreeDirectoryEntry ==
    Lowest({i \in Entries : root[i].dwStartClusterIndex = 0})

\* No name here is the beginning of another.
FindDirectoryEntry(name) == Lowest({i \in Entries : root[i].name = name})

AllocateFileDirectoryHandle == Lowest({h \in Handles : ~pool[h].used})

IsFileOpened(i) == \E h \in Handles :
    pool[h].used /\ pool[h].dwStartClusterIndex = root[i].dwStartClusterIndex

\* How a call can leave the volume, and the entry it found or made.
Outcome(table, entries, last, i, wrong, lost) ==
    [link |-> table, root |-> entries, last |-> last, entry |-> i,
     failed |-> wrong, broken |-> lost]

Last == dwLastAllocatedClusterLinkSectorOffset
NoChange(wrong) == Outcome(link, root, Last, None, wrong, FALSE)
MayFail == Fails /\ ~failed
IfFails(outcomes) == IF MayFail THEN outcomes ELSE {}

\* kCreateFile.  A failure can leave the cluster allocated.
Create(name) ==
    LET c == FindFreeCluster
        i == FindFreeDirectoryEntry
        new == [link EXCEPT ![c] = LASTCLUSTER]
        entry == [name |-> name, dwFileSize |-> 0, dwStartClusterIndex |-> c]
    IN  IF c = LASTCLUSTER THEN {NoChange(FALSE)}
        ELSE {IF i = None THEN Outcome(link, root, SectorOf(c), None, FALSE, FALSE)
              ELSE Outcome(new, [root EXCEPT ![i] = entry], SectorOf(c), i, FALSE, FALSE)}
             \cup IfFails({NoChange(TRUE)} \cup
                    {Outcome(table, root, SectorOf(c), None, TRUE, FALSE) :
                        table \in {link, new}})

\* Of a file opened with "w" all clusters but the first are freed, and then
\* its size is set.  A failure on the way leaves a size that is too large.
Truncate(i) ==
    LET first == root[i].dwStartClusterIndex
        second == link[first]
        cut == [link EXCEPT ![first] = LASTCLUSTER]
    IN  {Outcome(Freed(cut, second, Length(second)),
                 [root EXCEPT ![i].dwFileSize = 0], Last, i, FALSE, FALSE)}
        \cup IfFails({NoChange(TRUE)} \cup
                {Outcome(Freed(cut, second, n), root, Last, None, TRUE, TRUE) :
                    n \in 0 .. Length(second)})

\* What kRemoveFile does with a file that is not open.  A failure on the way
\* leaves an entry whose clusters are free.
Remove(i) ==
    LET first == root[i].dwStartClusterIndex
    IN  {Outcome(Freed(link, first, Length(first)), [root EXCEPT ![i] = NoEntry],
                 Last, i, FALSE, FALSE)}
        \cup IfFails({NoChange(TRUE)} \cup
                {Outcome(Freed(link, first, n), root, Last, None, TRUE, TRUE) :
                    n \in 1 .. Length(first)})

\* kOpenFile up to the handle.  A directory that cannot be read is taken for
\* one without the file.
Open(name, mode) ==
    LET i == FindDirectoryEntry(name)
        found == IF i # None /\ mode = "w" THEN Truncate(i)
                 ELSE IF i # None THEN {Outcome(link, root, Last, i, FALSE, FALSE)}
                 ELSE {}
        missed == IF mode = "r" THEN {NoChange(i # None)}
                  ELSE {[o EXCEPT !.failed = o.failed \/ i # None,
                                  !.broken = o.broken \/ i # None] : o \in Create(name)}
    IN  found \cup (IF i = None THEN missed ELSE IfFails(missed))

-----------------------------------------------------------------------------
\* A call leaves the volume so.  What a freed cluster held no longer matters.
Leave(o) ==
    /\ link' = o.link /\ root' = o.root
    /\ data' = [c \in Clusters |-> IF o.link[c] = FREECLUSTER THEN Unknown ELSE data[c]]
    /\ dwLastAllocatedClusterLinkSectorOffset' = o.last
    /\ failed' = (failed \/ o.failed) /\ broken' = (broken \/ o.broken)

\* A task that calls the file system and finds the mutex free.
Calls(t) == call[t].step = "idle" /\ owner = NoTask
Has(t, h) == holder[h] = t /\ pool[h].used

\* The handle after n bytes were passed: at the end of a cluster it goes on to
\* the next.
Advance(f, n) ==
    LET links == (f.dwCurrentOffset + n) \div ClusterSize
                 - f.dwCurrentOffset \div ClusterSize
    IN  [f EXCEPT !.dwCurrentOffset = @ + n,
                  !.dwCurrentClusterIndex = Walk(@, links),
                  !.dwPreviousClusterIndex =
                      IF links = 0 THEN @ ELSE Walk(f.dwCurrentClusterIndex, links - 1)]

\* The n-th byte from the offset is in a cluster.
InChain(f, n) ==
    Walk(f.dwCurrentClusterIndex, (f.dwCurrentOffset + n - 1) \div ClusterSize
                                  - f.dwCurrentOffset \div ClusterSize) # LASTCLUSTER

\* Or it fails to: the offset is in the next cluster, the index is not.
Stuck(f, n) == [Advance(f, n - 1) EXCEPT !.dwCurrentOffset = f.dwCurrentOffset + n]

\* Where kSeekFile is to go, never before the start.
RealOffset(f, iOffset, iOrigin) ==
    LET base == CASE iOrigin = "SET" -> 0
                  [] iOrigin = "CUR" -> f.dwCurrentOffset
                  [] iOrigin = "END" -> f.dwFileSize
    IN  IF base + iOffset < 0 THEN 0 ELSE base + iOffset

\* How kSeekFile counts: clusters from where the handle is, or from the start.
ClusterOf(offset) == offset \div ClusterSize
IsBeyond(f, real) == ClusterOf(f.dwFileSize) < ClusterOf(real)

MoveCount(f, real) ==
    LET last == ClusterOf(f.dwFileSize)
        now == ClusterOf(f.dwCurrentOffset)
        to == ClusterOf(real)
    IN  IF last < to THEN last - now ELSE IF now <= to THEN to - now ELSE to

\* Faulty: a seek back also starts where the handle is.
MoveFromHere(f, real) == f.dwCurrentClusterIndex

MoveFrom(f, real) ==
    IF ClusterOf(f.dwCurrentOffset) <= ClusterOf(real) \/ IsBeyond(f, real)
    THEN f.dwCurrentClusterIndex ELSE f.dwStartClusterIndex

\* Faulty: the cluster before the current one is forgotten.
SeekNoPrevious(f, real) ==
    LET n == MoveCount(f, real)
        c == MoveFrom(f, real)
    IN  [f EXCEPT
            !.dwCurrentClusterIndex = Walk(c, n),
            !.dwCurrentOffset = IF IsBeyond(f, real) THEN f.dwFileSize ELSE real]

Seek(f, real) ==
    LET n == MoveCount(f, real)
        c == MoveFrom(f, real)
        start == f.dwStartClusterIndex
    IN  [f EXCEPT
            !.dwCurrentClusterIndex =
                IF n > 0 THEN Walk(c, n) ELSE IF c = start THEN start ELSE @,
            !.dwPreviousClusterIndex =
                IF n > 0 THEN Walk(c, n - 1) ELSE IF c = start THEN start ELSE @,
            !.dwCurrentOffset = IF IsBeyond(f, real) THEN f.dwFileSize ELSE real]

\* kGetClusterLinkData fails beyond the last cluster.
CanSeek(f, real) ==
    /\ MoveCount(f, real) >= 0
    /\ \A k \in 0 .. MoveCount(f, real) - 1 : Walk(MoveFrom(f, real), k) # LASTCLUSTER

-----------------------------------------------------------------------------
\* A file is opened by one task at a time: the code leaves that to the callers.
\* A handle that a kCloseFile is still zeroing is given out and then zeroed.
OpenFile(t, name, mode) ==
    /\ Calls(t)
    /\ LET i == FindDirectoryEntry(name) IN
        i # None => ~IsFileOpened(i) /\ Ends(root[i].dwStartClusterIndex)
    /\ \E o \in Open(name, mode), sought \in {TRUE} \cup IfFails({FALSE}) :
        LET h == AllocateFileDirectoryHandle
            entry == o.root[o.entry]
            f == [used |-> TRUE, entry |-> o.entry,
                  dwFileSize |-> entry.dwFileSize,
                  dwStartClusterIndex |-> entry.dwStartClusterIndex,
                  dwCurrentClusterIndex |-> entry.dwStartClusterIndex,
                  dwPreviousClusterIndex |-> entry.dwStartClusterIndex,
                  dwCurrentOffset |-> 0]
            wiped == h \in {call[u].h : u \in {u \in Tasks : call[u].step = "close"}}
        IN  /\ Leave([o EXCEPT !.failed = @ \/ ~sought,
                               !.broken = @ \/ (wiped /\ o.entry # None)])
            /\ content' = IF o.entry # None /\ entry.dwFileSize = 0
                          THEN [content EXCEPT ![name] = <<>>] ELSE content
            /\ IF o.entry = None \/ h = None THEN sought /\ UNCHANGED <<pool, holder>>
               ELSE /\ pool' = [pool EXCEPT ![h] =
                            IF mode = "a" /\ sought THEN Seek(f, f.dwFileSize) ELSE f]
                    /\ holder' = [holder EXCEPT ![h] = t]
    /\ UNCHANGED <<owner, call>>

\* kReadFile: what is asked for as far as the file and its clusters go, or up to
\* a failure.  Beyond the end of the file what is left of it wraps around.
ReadFile(t, h, count) ==
    LET f == pool[h]
        most == f.dwFileSize - f.dwCurrentOffset
        asked == IF most \in 0 .. count THEN most ELSE count
        total == CHOOSE n \in 0 .. asked :
            /\ n > 0 => InChain(f, n)
            /\ n < asked => ~InChain(f, n + 1)
    IN  /\ Calls(t) /\ Has(t, h)
        /\ most # 0 /\ f.dwCurrentClusterIndex # LASTCLUSTER
        /\ \/ /\ pool' = [pool EXCEPT ![h] = Advance(f, total)]
              /\ UNCHANGED <<failed, broken>>
           \/ /\ MayFail
              /\ \E n \in 1 .. total :
                    /\ (f.dwCurrentOffset + n) % ClusterSize = 0
                    /\ \/ n < total /\ UNCHANGED broken
                            /\ pool' = [pool EXCEPT ![h] = Advance(f, n)]
                       \/ broken' = TRUE /\ pool' = [pool EXCEPT ![h] = Stuck(f, n)]
              /\ failed' = TRUE
        /\ UNCHANGED <<volume, owner, call, holder, content>>

\* kWriteFile up to its loop.
WriteFile(t, h, count) ==
    /\ Calls(t) /\ Has(t, h)
    /\ pool[h].dwCurrentOffset + count <= MaxSize
    /\ owner' = t
    /\ call' = [call EXCEPT ![t] = [Idle EXCEPT
                    !.step = "write", !.h = h, !.left = count]]
    /\ UNCHANGED <<volume, pool, holder, content, failed, broken>>

\* Faulty: the mutex is not waited for.
LockShared(t) ==
    /\ call[t].step = "lock"
    /\ owner' = t
    /\ call' = [call EXCEPT ![t].step = "write"]
    /\ UNCHANGED <<volume, pool, holder, content, failed, broken>>

\* kWriteZero calls kWriteFile for a cluster.
Lock(t) ==
    /\ call[t].step = "lock" /\ owner = NoTask
    /\ owner' = t
    /\ call' = [call EXCEPT ![t].step = "write"]
    /\ UNCHANGED <<volume, pool, holder, content, failed, broken>>

EndLoop(t) == call' = [call EXCEPT ![t].step = "update"]

\* At the end of the chain a cluster is appended to it.
AppendCluster(t) ==
    LET f == pool[call[t].h]
        c == FindFreeCluster
        new == [link EXCEPT ![c] = LASTCLUSTER]
    IN  /\ call[t].step = "write" /\ call[t].left > 0
        /\ f.dwCurrentClusterIndex = LASTCLUSTER
        /\ IF c = LASTCLUSTER
           THEN EndLoop(t) /\ UNCHANGED <<volume, pool, failed>>
           ELSE \/ /\ link' = [new EXCEPT ![f.dwPreviousClusterIndex] = c]
                   /\ dwLastAllocatedClusterLinkSectorOffset' = SectorOf(c)
                   /\ pool' = [pool EXCEPT ![call[t].h].dwCurrentClusterIndex = c]
                   /\ UNCHANGED <<root, data, call, failed>>
                \/ /\ MayFail /\ failed' = TRUE
                   /\ link' \in {link, new}
                   /\ dwLastAllocatedClusterLinkSectorOffset' \in {Last, SectorOf(c)}
                   /\ EndLoop(t)
                   /\ UNCHANGED <<root, data, pool>>
        /\ UNCHANGED <<owner, holder, content, broken>>

\* One cluster, or what is left, is written.
WriteCluster(t) ==
    LET h == call[t].h
        f == pool[h]
        c == f.dwCurrentClusterIndex
        from == f.dwCurrentOffset % ClusterSize
        size == IF call[t].left < ClusterSize - from THEN call[t].left
                ELSE ClusterSize - from
        name == root[f.entry].name
    IN  /\ call[t].step = "write" /\ call[t].left > 0 /\ c # LASTCLUSTER
        /\ data' = [data EXCEPT ![c] = [k \in 0 .. ClusterSize - 1 |->
                        IF k \in from .. from + size - 1
                        THEN Byte(name, f.dwCurrentOffset + k - from) ELSE @[k]]]
        /\ content' = [content EXCEPT ![name] =
                LET length == IF Len(@) > f.dwCurrentOffset + size THEN Len(@)
                              ELSE f.dwCurrentOffset + size
                IN  [k \in 1 .. length |->
                        IF k - 1 \in f.dwCurrentOffset .. f.dwCurrentOffset + size - 1
                        THEN Byte(name, k - 1)
                        ELSE IF k <= Len(@) THEN @[k] ELSE Junk]]
        /\ \/ /\ pool' = [pool EXCEPT ![h] = Advance(f, size)]
              /\ call' = [call EXCEPT ![t].left = @ - size]
              /\ UNCHANGED <<failed, broken>>
           \/ /\ MayFail /\ (f.dwCurrentOffset + size) % ClusterSize = 0
              /\ pool' = [pool EXCEPT ![h] = Stuck(f, size)]
              /\ EndLoop(t)
              /\ failed' = TRUE /\ broken' = TRUE
        /\ UNCHANGED <<link, root, Last, owner, holder>>

\* The cluster cannot be read or written.
WriteClusterFails(t) ==
    /\ MayFail
    /\ call[t].step = "write" /\ call[t].left > 0
    /\ pool[call[t].h].dwCurrentClusterIndex # LASTCLUSTER
    /\ EndLoop(t)
    /\ failed' = TRUE
    /\ UNCHANGED <<volume, pool, owner, holder, content, broken>>

\* A size that has grown goes into the directory, the mutex is given back, and
\* kWriteZero goes on with its next cluster.  The size grows to the offset even
\* if a seek has put it there and nothing was written.
EndWrite(t) ==
    LET h == call[t].h
        f == pool[h]
        grown == f.dwFileSize < f.dwCurrentOffset
        zeros == call[t].zeros
        next == IF zeros < ClusterSize THEN zeros ELSE ClusterSize
        name == root[f.entry].name
    IN  /\ call[t].step = "update" \/ (call[t].step = "write" /\ call[t].left = 0)
        /\ pool' = IF grown THEN [pool EXCEPT ![h].dwFileSize = f.dwCurrentOffset] ELSE pool
        /\ \/ /\ root' = IF grown
                         THEN [root EXCEPT ![f.entry].dwFileSize = f.dwCurrentOffset,
                                   ![f.entry].dwStartClusterIndex = f.dwStartClusterIndex]
                         ELSE root
              /\ UNCHANGED failed
           \/ grown /\ MayFail /\ failed' = TRUE /\ UNCHANGED root
        /\ content' = [content EXCEPT ![name] =
                IF Len(@) >= f.dwCurrentOffset THEN @
                ELSE @ \o [k \in 1 .. f.dwCurrentOffset - Len(@) |-> Junk]]
        /\ owner' = NoTask
        /\ call' = [call EXCEPT ![t] =
                IF call[t].left > 0 \/ zeros = 0 THEN Idle
                ELSE [@ EXCEPT !.step = "lock", !.left = next, !.zeros = zeros - next]]
        /\ UNCHANGED <<link, data, Last, holder, broken>>

\* kSeekFile.  Beyond the last cluster the file is filled with zeros, cluster
\* by cluster, after the mutex was given back.
SeekFile(t, h, iOffset, iOrigin) ==
    LET f == pool[h]
        real == RealOffset(f, iOffset, iOrigin)
        zeros == real - f.dwFileSize
        next == IF zeros < ClusterSize THEN zeros ELSE ClusterSize
    IN  /\ Calls(t) /\ Has(t, h)
        /\ real <= MaxSize
        /\ CanSeek(f, real)
        /\ \/ /\ pool' = [pool EXCEPT ![h] = Seek(f, real)]
              /\ call' = IF ~IsBeyond(f, real) THEN call
                         ELSE [call EXCEPT ![t] = [Idle EXCEPT
                                !.step = "lock", !.h = h, !.left = next,
                                !.zeros = zeros - next]]
              /\ UNCHANGED failed
           \/ /\ MayFail /\ failed' = TRUE
              /\ \/ MoveCount(f, real) > 0 /\ UNCHANGED pool
                 \/ IsBeyond(f, real) /\ pool' = [pool EXCEPT ![h] = Seek(f, real)]
              /\ UNCHANGED call
        /\ UNCHANGED <<volume, owner, holder, content, broken>>

\* kCloseFile takes no mutex: it zeroes the handle, its type first.
CloseFile(t, h) ==
    /\ call[t].step = "idle" /\ Has(t, h)
    /\ holder' = [holder EXCEPT ![h] = NoTask]
    /\ pool' = [pool EXCEPT ![h] = FreeHandle]
    /\ call' = [call EXCEPT ![t] = [Idle EXCEPT !.step = "close", !.h = h]]
    /\ UNCHANGED <<volume, owner, content, failed, broken>>

CloseRest(t) ==
    /\ call[t].step = "close"
    /\ pool' = [pool EXCEPT ![call[t].h] = FreeHandle]
    /\ call' = [call EXCEPT ![t] = Idle]
    /\ UNCHANGED <<volume, owner, holder, content, failed, broken>>

RemoveFile(t, name) ==
    LET i == FindDirectoryEntry(name) IN
    /\ Calls(t) /\ i # None /\ ~IsFileOpened(i) /\ Ends(root[i].dwStartClusterIndex)
    /\ \E o \in Remove(i) :
        /\ Leave(o)
        /\ content' = IF o.entry = None THEN content ELSE [content EXCEPT ![name] = <<>>]
    /\ UNCHANGED <<pool, owner, call, holder>>

Next == \E t \in Tasks :
    \/ \E name \in Names, mode \in {"r", "w", "a"} : OpenFile(t, name, mode)
    \/ \E name \in Names : RemoveFile(t, name)
    \/ \E h \in Handles, count \in Counts : ReadFile(t, h, count)
    \/ \E h \in Handles, count \in Counts : WriteFile(t, h, count)
    \/ \E h \in Handles, iOffset \in Offsets, iOrigin \in {"SET", "CUR", "END"} :
            SeekFile(t, h, iOffset, iOrigin)
    \/ \E h \in Handles : CloseFile(t, h)
    \/ Lock(t)
    \/ AppendCluster(t)
    \/ WriteCluster(t)
    \/ WriteClusterFails(t)
    \/ EndWrite(t)
    \/ CloseRest(t)

Spec == Init /\ [][Next]_vars

-----------------------------------------------------------------------------
Links == Clusters \cup {LASTCLUSTER}

\* Every variable has the type the code gives it.
TypeOK ==
    /\ link \in [Clusters -> Links]
    /\ \A i \in Entries :
        /\ root[i].name \in Names \cup {NoName}
        /\ root[i].dwFileSize \in Nat /\ root[i].dwStartClusterIndex \in Clusters
    /\ \A c \in Clusters : DOMAIN data[c] = 0 .. ClusterSize - 1
    /\ Last \in 0 .. AreaSize - 1
    /\ \A h \in Handles : LET f == pool[h] IN
        /\ f.used \in BOOLEAN /\ f.entry \in Entries \cup {None}
        /\ f.dwFileSize \in Nat /\ f.dwCurrentOffset \in Nat
        /\ f.dwStartClusterIndex \in Clusters
        /\ {f.dwCurrentClusterIndex, f.dwPreviousClusterIndex} \subseteq Links
    /\ owner \in Tasks \cup {NoTask}
    /\ holder \in [Handles -> Tasks \cup {NoTask}]
    /\ \A t \in Tasks :
        /\ call[t].step \in {"idle", "lock", "write", "update", "close"}
        /\ owner = t <=> call[t].step \in {"write", "update"}
        /\ call[t].left \in 0 .. MaxSize /\ call[t].zeros \in 0 .. MaxSize
    /\ failed \in BOOLEAN /\ broken \in BOOLEAN

Files == {i \in Entries : root[i].name # NoName}
ChainOf(i) == Chain(root[i].dwStartClusterIndex)

\* Whenever no call is at work on the volume, each file is a chain of its own
\* that ends and holds no free cluster, whatever has failed except where the
\* code loses track; and if nothing has failed, each cluster in use is on a
\* file's chain and no chain is longer than its file needs.
ChainsApart ==
    owner = NoTask /\ ~broken =>
        /\ link[0] = LASTCLUSTER
        /\ \A i \in Files :
            /\ Ends(root[i].dwStartClusterIndex)
            /\ \A c \in ChainOf(i) : c # 0 /\ link[c] # FREECLUSTER
            /\ \A j \in Files \ {i} : ChainOf(i) \cap ChainOf(j) = {}
        /\ ~failed =>
            /\ \A c \in Clusters \ {0} :
                link[c] # FREECLUSTER => \E i \in Files : c \in ChainOf(i)
            /\ \A i \in Files : LET n == Length(root[i].dwStartClusterIndex) IN
                n = 1 \/ (n - 1) * ClusterSize < root[i].dwFileSize

\* A file's clusters hold, byte for byte, what was last written to it and the
\* zeros a seek has put in, as far as the directory says it reaches: all of it
\* if nothing has failed.  What a seek within the last cluster has skipped is
\* left open.
WrittenStays ==
    owner = NoTask /\ ~broken => \A i \in Files :
        LET bytes == content[root[i].name]
            size == root[i].dwFileSize
        IN  /\ size <= Len(bytes) /\ (~failed => size = Len(bytes))
            /\ \A k \in 0 .. size - 1 : bytes[k + 1] # Junk =>
                data[Walk(root[i].dwStartClusterIndex, k \div ClusterSize)]
                    [k % ClusterSize] = bytes[k + 1]

\* An open handle agrees with the directory on its file and finds the cluster of
\* its offset, or the last one to append to, after any reads, writes and seeks,
\* also those of a seek that stops beyond the end of the file, unless a low-level
\* call has failed or a kCloseFile was still zeroing a handle that was given out.
HandleKnowsItsPlace ==
    owner = NoTask /\ ~failed /\ ~broken => \A h \in Handles :
        LET f == pool[h]
            k == f.dwCurrentOffset \div ClusterSize
        IN  f.used =>
            /\ f.dwFileSize = root[f.entry].dwFileSize
            /\ f.dwStartClusterIndex = root[f.entry].dwStartClusterIndex
            /\ f.dwCurrentClusterIndex = Walk(f.dwStartClusterIndex, k)
            /\ f.dwCurrentClusterIndex = LASTCLUSTER =>
                f.dwPreviousClusterIndex = Walk(f.dwStartClusterIndex, k - 1)
=============================================================================
