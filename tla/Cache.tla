------------------------------- MODULE Cache -------------------------------
(***************************************************************************)
(* CacheManager.c and the functions of FileSystem.c that read and write    *)
(* the cluster link table through it, with formatting, flushing and        *)
(* restarting.  Every call is one step: the file system's mutex is held.   *)
(* The data area goes through the same code with clusters for sectors.     *)
(***************************************************************************)
EXTENDS Naturals, FiniteSets

CONSTANTS
    WordSize,              \* 2^32 in the code: DWORDs wrap here
    MaxCount,              \* vdwMaxCount, the buffers of the area
    dwClusterLinkAreaSize,
    dwTotalSectors,
    Versions               \* what is written to the link table

ASSUME CacheAssumption ==
    /\ MaxCount \in Nat \ {0} /\ MaxCount + 1 < WordSize - 2
    /\ dwClusterLinkAreaSize \in Nat \ {0}
    /\ dwTotalSectors \in Nat /\ dwTotalSectors < WordSize
    /\ dwClusterLinkAreaSize + 2 < dwTotalSectors
    /\ WordSize \in Nat

VARIABLES
    buffer,         \* vvstCacheBuffer of the area, with what pbBuffer points to
    vdwAccessTime,
    disk,           \* external: the sectors
    bMounted, bCacheEnable,
    recent,         \* history: which tag in the cache was used before which
    flushed,        \* history: nothing was written since a flush returned TRUE
    torn            \* history: kFormat has failed half-way since the start

cache == <<buffer, vdwAccessTime>>
vars == <<cache, disk, bMounted, bCacheEnable, recent, flushed, torn>>

CACHE_INVALIDTAG == WordSize - 1
dwClusterLinkAreaStartAddress == 1  \* kFormat reserves no sectors
Buffers == 1 .. MaxCount
Tags == 0 .. dwClusterLinkAreaSize - 1
Sectors == 0 .. dwTotalSectors - 1

\* kFormat: the first sector's first link ends the root directory's chain.
Fresh(dwTag) == IF dwTag = 0 THEN "root" ELSE "free"
Data == {"root", "free"} \cup Versions

MBR == "MBR"

Empty == [dwTag |-> CACHE_INVALIDTAG, dwAccessTime |-> 0, bChanged |-> FALSE,
          data |-> "free"]

\* kInitializeFileSystem finds a formatted disk, or a blank one and then has no
\* cache.
Init ==
    /\ buffer = [i \in Buffers |-> Empty] /\ vdwAccessTime = 0
    /\ bMounted \in BOOLEAN /\ bCacheEnable = bMounted
    /\ disk = [lba \in Sectors |-> IF ~bMounted THEN "free"
                                   ELSE IF lba = 0 THEN MBR ELSE Fresh(lba - 1)]
    /\ recent = {} /\ flushed = FALSE /\ torn = FALSE

-----------------------------------------------------------------------------
\* CacheManager.c

First(S) == CHOOSE i \in S : \A j \in S : i <= j

\* Where the stable sort by access time moves buffer i.
Rank(i) == 1 + Cardinality({j \in Buffers :
    \/ buffer[j].dwAccessTime < buffer[i].dwAccessTime
    \/ buffer[j].dwAccessTime = buffer[i].dwAccessTime /\ j < i})

\* Faulty: the times run on.
CutDownAccessTimeNever == [b |-> buffer, time |-> vdwAccessTime]

\* Faulty: the times start again without the sort.
CutDownAccessTimeUnsorted ==
    [b |-> [i \in Buffers |-> IF vdwAccessTime < WordSize - 2 THEN buffer[i]
                              ELSE [buffer[i] EXCEPT !.dwAccessTime = i - 1]],
     time |-> IF vdwAccessTime < WordSize - 2 THEN vdwAccessTime ELSE MaxCount]

\* Before the time runs over, it starts again with the buffers in their order.
CutDownAccessTime ==
    IF vdwAccessTime < WordSize - 2 THEN [b |-> buffer, time |-> vdwAccessTime]
    ELSE [b |-> [i \in Buffers |->
                    [buffer[CHOOSE j \in Buffers : Rank(j) = i]
                        EXCEPT !.dwAccessTime = i - 1]],
          time |-> MaxCount]

With(c, dwTag) == {i \in Buffers : c.b[i].dwTag = dwTag}

GetVictim(c) == First({i \in Buffers :
    \A j \in Buffers : c.b[i].dwAccessTime <= c.b[j].dwAccessTime})

\* kAllocateCacheBuffer, or else kGetVictimInCacheBuffer
Allocated(c) ==
    IF With(c, CACHE_INVALIDTAG) # {} THEN First(With(c, CACHE_INVALIDTAG))
    ELSE GetVictim(c)

MustWriteBack(c) ==
    With(c, CACHE_INVALIDTAG) = {} /\ c.b[GetVictim(c)].bChanged

-----------------------------------------------------------------------------
\* The sector a tag is written to, and the driver's range check.
Address(dwTag) == (dwTag + dwClusterLinkAreaStartAddress) % WordSize
Reaches(lba) == (lba + 1) % WordSize < dwTotalSectors

Cached == {buffer[i].dwTag : i \in Buffers} \ {CACHE_INVALIDTAG}

\* A buffer is used: found or allocated, with what it now holds.
Use(c, i, held) ==
    /\ buffer' = [c.b EXCEPT ![i] = [held EXCEPT !.dwAccessTime = c.time]]
    /\ vdwAccessTime' = c.time + 1
    /\ recent' = {older \in Cached' \X Cached' : older[1] # held.dwTag
                    /\ (older \in recent \/ older[2] = held.dwTag)}

Held(dwTag, data, bChanged) ==
    [dwTag |-> dwTag, dwAccessTime |-> 0, bChanged |-> bChanged, data |-> data]

\* kAllocateCacheBufferWithFlush and the caller's use of the buffer, of which
\* a failing write back leaves only a victim that looks newly used.
Enter(c, held) ==
    LET i == Allocated(c)
        old == c.b[i]
    IN  IF MustWriteBack(c)
        THEN \/ /\ Reaches(Address(old.dwTag))
                /\ disk' = [disk EXCEPT ![Address(old.dwTag)] = old.data]
                /\ Use(c, i, held)
             \/ Use(c, i, old) /\ UNCHANGED disk
        ELSE Use(c, i, held) /\ UNCHANGED disk

\* kInternalReadClusterLinkTableWithCache.  A read that fails on a miss
\* changes the access times at most.
Read(dwTag) == LET c == CutDownAccessTime IN
    /\ bMounted /\ bCacheEnable
    /\ IF With(c, dwTag) # {}
       THEN LET i == First(With(c, dwTag)) IN Use(c, i, c.b[i]) /\ UNCHANGED disk
       ELSE Enter(c, Held(dwTag, disk[Address(dwTag)], FALSE))
    /\ UNCHANGED <<bMounted, bCacheEnable, flushed, torn>>

ReadFails(dwTag) == LET c == CutDownAccessTime IN
    /\ bMounted /\ bCacheEnable /\ With(c, dwTag) = {}
    /\ buffer' = c.b /\ vdwAccessTime' = c.time
    /\ UNCHANGED <<disk, bMounted, bCacheEnable, recent, flushed, torn>>

\* Faulty: a buffer that was found is not marked as changed.
HeldAfterHit(c, i, data) == [c.b[i] EXCEPT !.data = data]

HeldAfterWrite(c, i, data) == [c.b[i] EXCEPT !.data = data, !.bChanged = TRUE]

\* kInternalWriteClusterLinkTableWithCache
Write(dwTag, data) == LET c == CutDownAccessTime IN
    /\ bMounted /\ bCacheEnable
    /\ IF With(c, dwTag) # {}
       THEN LET i == First(With(c, dwTag)) IN
            Use(c, i, HeldAfterWrite(c, i, data)) /\ UNCHANGED disk
       ELSE Enter(c, Held(dwTag, data, TRUE))
    /\ flushed' = FALSE
    /\ UNCHANGED <<bMounted, bCacheEnable, torn>>

\* kInternalWriteClusterLinkTableWithoutCache
WriteWithoutCache(dwTag, data) ==
    /\ bMounted /\ ~bCacheEnable
    /\ disk' = [disk EXCEPT ![Address(dwTag)] = data]
    /\ flushed' = FALSE
    /\ UNCHANGED <<cache, bMounted, bCacheEnable, recent, torn>>

-----------------------------------------------------------------------------
\* The sectors the first n buffers are written to, in turn.
FlushedTo(n, lba) ==
    {i \in 1 .. n : buffer[i].bChanged /\ Address(buffer[i].dwTag) = lba}

\* kFlushFileSystemCache up to its n-th buffer: the last one, or one that the
\* disk then fails to write.
Flush(n) ==
    /\ bCacheEnable
    /\ n < MaxCount => buffer[n + 1].bChanged
    /\ disk' = [lba \in Sectors |->
                    IF FlushedTo(n, lba) = {} THEN disk[lba]
                    ELSE buffer[CHOOSE i \in FlushedTo(n, lba) :
                                    \A j \in FlushedTo(n, lba) : j <= i].data]
    /\ buffer' = [i \in Buffers |-> IF i <= n
                                    THEN [buffer[i] EXCEPT !.bChanged = FALSE]
                                    ELSE buffer[i]]
    /\ flushed' = (flushed \/ (n = MaxCount /\ ~torn))
    /\ UNCHANGED <<vdwAccessTime, bMounted, bCacheEnable, recent, torn>>

\* kDiscardAllCacheBuffer
DiscardAll ==
    /\ buffer' = [i \in Buffers |-> [buffer[i] EXCEPT !.dwTag = CACHE_INVALIDTAG]]
    /\ vdwAccessTime' = 0
    /\ recent' = {}

\* kFormat up to its n-th sector, the boot record being the first: the last
\* one, or one before a failure.
Format(n) ==
    /\ disk' = [lba \in Sectors |-> IF lba >= n THEN disk[lba]
                                    ELSE IF lba = 0 THEN MBR ELSE Fresh(lba - 1)]
    /\ IF n = dwClusterLinkAreaSize + 1 /\ bCacheEnable THEN DiscardAll
       ELSE UNCHANGED <<cache, recent>>
    /\ flushed' = FALSE /\ torn' = (n < dwClusterLinkAreaSize + 1)
    /\ UNCHANGED <<bMounted, bCacheEnable>>

\* kMount; a read that fails leaves all as it was.
Mount ==
    /\ disk[0] = MBR
    /\ bMounted' = TRUE
    /\ UNCHANGED <<cache, disk, bCacheEnable, recent, flushed, torn>>

\* The machine is switched off and on at any time: kInitializeFileSystem has a
\* cache only if the disk can be mounted.
Restart ==
    /\ buffer' = [i \in Buffers |-> Empty] /\ vdwAccessTime' = 0
    /\ bMounted' = (disk[0] = MBR) /\ bCacheEnable' = bMounted'
    /\ recent' = {} /\ flushed' = FALSE /\ torn' = FALSE
    /\ UNCHANGED disk

Next ==
    \/ \E dwTag \in Tags : Read(dwTag) \/ ReadFails(dwTag)
    \/ \E dwTag \in Tags, data \in Versions :
            Write(dwTag, data) \/ WriteWithoutCache(dwTag, data)
    \/ \E n \in 0 .. MaxCount : Flush(n)
    \/ \E n \in 0 .. dwClusterLinkAreaSize + 1 : Format(n)
    \/ Mount
    \/ Restart

Spec == Init /\ [][Next]_vars

-----------------------------------------------------------------------------
\* Every variable has the type the code gives it.
TypeOK ==
    /\ buffer \in [Buffers -> [dwTag : Tags \cup {CACHE_INVALIDTAG},
                               dwAccessTime : 0 .. WordSize - 2,
                               bChanged : BOOLEAN, data : Data]]
    /\ vdwAccessTime \in 0 .. WordSize - 1
    /\ disk \in [Sectors -> Data \cup {MBR}]
    /\ bMounted \in BOOLEAN /\ bCacheEnable \in BOOLEAN /\ flushed \in BOOLEAN
    /\ torn \in BOOLEAN
    /\ recent \in SUBSET (Tags \X Tags)

\* What the file system sees of the link table, and what the disk has of it.
Content == [dwTag \in Tags |->
    IF \E i \in Buffers : buffer[i].dwTag = dwTag
    THEN buffer[CHOOSE i \in Buffers : buffer[i].dwTag = dwTag].data
    ELSE disk[Address(dwTag)]]

Stable == [dwTag \in Tags |-> disk[Address(dwTag)]]

\* To the file system the cache and the disk are one store: a read finds what
\* was written last, whatever was evicted, and after a flush that returned TRUE
\* the disk has it all, so that a restart loses nothing, unless formatting has
\* failed half-way.
Store == INSTANCE BlockStore WITH
    Blocks <- Tags,
    content <- Content,
    stable <- Stable

ImplementsStore == Store!Spec

\* A sector leaves the full cache only for another, and only if it is the one
\* not used for longest, also after the access times have started again.
LeastRecentlyUsedGoes ==
    [][\A dwTag \in Cached : dwTag \notin Cached' /\ Cached' # {} =>
            /\ Cached \subseteq Cached' \cup {dwTag}
            /\ \A other \in Cached \ {dwTag} : <<dwTag, other>> \in recent]_vars

\* A mounted disk keeps its boot record: what is written through the cache and
\* flushed stays in the link table.
BootRecordKept == bMounted => disk[0] = MBR
=============================================================================
