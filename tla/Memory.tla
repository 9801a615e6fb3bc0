------------------------------- MODULE Memory -------------------------------
(***************************************************************************)
(* The page manager of otium/os (os/ot/core/memory.cpp): the page table,   *)
(* the free list, the known-memory regions, and what creating, running and *)
(* ending a process does to them.  The kernel never allocates a page twice *)
(* in one step and never blocks in here, so each operation is one action.  *)
(***************************************************************************)
EXTENDS Integers, Sequences, FiniteSetsExt

CONSTANTS
  TOTAL,          \* total_page_count
  INFO_PAGES,     \* pages the bootstrap allocator gave the PageInfo array
  PROCS_MAX,
  KnownMemories,  \* ids of known memory regions
  AllocSizes      \* page counts that programs ask for

PageNos == 0 .. TOTAL - 1
KERNEL == -1      \* pidx of a kernel page
NONE == 0         \* PIDX_NONE, and the pidx of idle
NULL == -1        \* a null page address
Procs == 1 .. PROCS_MAX - 1
IdlePages == 3    \* comm, storage and stack of idle

ASSUME MemoryAssumption ==
  /\ TOTAL \in Nat /\ INFO_PAGES \in Nat \ {0}
  /\ INFO_PAGES + IdlePages <= TOTAL
  /\ PROCS_MAX \in Nat \ {0}
  /\ AllocSizes \subseteq Nat \ {0}

VARIABLES
  pidx,             \* PageInfo.pidx of every page
  free_list,        \* the free list, from its head
  known_memory,     \* known_memory_table
  allocated_pages,  \* mem_stats.allocated_pages
  live,             \* slots of the process table in use
  dirty,            \* pages with some process' data, or what was in RAM at boot
  panicked

memoryVars == <<pidx, free_list, known_memory, allocated_pages, live, dirty, panicked>>

KnownMemoryInfo == [addr : PageNos \cup {NULL}, page_count : Nat, holder : {NONE} \cup Procs]

MemoryTypeOK ==
  /\ pidx \in [PageNos -> {KERNEL, NONE} \cup Procs]
  /\ free_list \in Seq(PageNos)
  /\ known_memory \in [KnownMemories -> KnownMemoryInfo]
  /\ allocated_pages \in Nat
  /\ live \subseteq Procs
  /\ dirty \subseteq PageNos
  /\ panicked \in BOOLEAN

-----------------------------------------------------------------------------
(* page_allocate walks the list for a run of consecutive pages, in list order. *)

RunAt(list, i, n) == \A k \in 1 .. n - 1 : list[i + k] = list[i] + k
Runs(list, n) == {i \in 1 .. Len(list) - n + 1 : RunAt(list, i, n)}

\* The first run that completes is the first that starts.
FirstRun(list, n) == Min(Runs(list, n))
RunPages(list, n) == {list[FirstRun(list, n) + k] : k \in 0 .. n - 1}
\* Mutant: leaves the run's last page on the list.
UnlinkedLeavesOne(list, n) ==
  SubSeq(list, 1, FirstRun(list, n) - 1) \o SubSeq(list, FirstRun(list, n) + n - 1, Len(list))
Unlinked(list, n) ==
  SubSeq(list, 1, FirstRun(list, n) - 1) \o SubSeq(list, FirstRun(list, n) + n, Len(list))

\* Mutant: gives the pages out as they are.
AllocateUncleared(owner, n) ==
  /\ Runs(free_list, n) # {}
  /\ pidx' = [p \in PageNos |-> IF p \in RunPages(free_list, n) THEN owner ELSE pidx[p]]
  /\ free_list' = Unlinked(free_list, n)
  /\ dirty' = dirty
  /\ allocated_pages' = allocated_pages + n

\* Give the first run of n pages to owner; the pages are cleared.
Allocate(owner, n) ==
  /\ Runs(free_list, n) # {}
  /\ pidx' = [p \in PageNos |-> IF p \in RunPages(free_list, n) THEN owner ELSE pidx[p]]
  /\ free_list' = Unlinked(free_list, n)
  /\ dirty' = dirty \ RunPages(free_list, n)
  /\ allocated_pages' = allocated_pages + n

Descending(S) ==
  [i \in 1 .. Cardinality(S) |-> CHOOSE x \in S : Cardinality({y \in S : y > x}) = i - 1]

PagesOf(p) == {pg \in PageNos : pidx[pg] = p}
Region(km) ==
  IF known_memory[km].addr = NULL THEN {}
  ELSE known_memory[km].addr .. known_memory[km].addr + known_memory[km].page_count - 1

-----------------------------------------------------------------------------
\* process_create: comm, storage and stack, and a page for arguments, one by one.
ProcessCreate(p, args) ==
  LET n == IF args THEN 4 ELSE 3
      taken == {free_list[i] : i \in 1 .. n}
  IN /\ p = Min(Procs \ live)
     /\ Len(free_list) >= n
     /\ live' = live \cup {p}
     /\ pidx' = [pg \in PageNos |-> IF pg \in taken THEN p ELSE pidx[pg]]
     /\ free_list' = SubSeq(free_list, n + 1, Len(free_list))
     /\ dirty' = dirty \ taken
     /\ allocated_pages' = allocated_pages + n
     /\ UNCHANGED <<known_memory, panicked>>

\* "failed to allocate comm page", and so on.
ProcessCreatePanics(args) ==
  /\ Procs \ live # {}
  /\ Len(free_list) < IF args THEN 4 ELSE 3
  /\ panicked' = TRUE
  /\ UNCHANGED <<pidx, free_list, known_memory, allocated_pages, live, dirty>>

\* ou_alloc_pages
AllocPages(p, n) ==
  /\ Allocate(p, n)
  /\ UNCHANGED <<known_memory, live, panicked>>

\* ou_alloc_pages returns null.
AllocPagesFails(p, n) ==
  /\ Runs(free_list, n) = {}
  /\ UNCHANGED memoryVars

Write(p, pg) ==
  /\ pg \in PagesOf(p) \cup UNION {Region(km) : km \in {k \in KnownMemories : known_memory[k].holder = p}}
  /\ dirty' = dirty \cup {pg}
  /\ UNCHANGED <<pidx, free_list, known_memory, allocated_pages, live, panicked>>

(***************************************************************************)
(* known_memory_lock.  The first lock allocates the region, as kernel      *)
(* pages, and fixes its size.                                              *)
(***************************************************************************)
Lockable(p, km) == known_memory[km].holder \in {NONE, p}

LockAllocates(p, km, n) ==
  /\ Lockable(p, km)
  /\ known_memory[km].addr = NULL
  /\ Allocate(KERNEL, n)
  /\ known_memory' = [known_memory EXCEPT ![km] =
       [addr |-> free_list[FirstRun(free_list, n)], page_count |-> n, holder |-> p]]
  /\ UNCHANGED <<live, panicked>>

LockAgain(p, km, n) ==
  /\ Lockable(p, km)
  /\ known_memory[km].addr # NULL
  /\ n <= known_memory[km].page_count
  /\ known_memory' = [known_memory EXCEPT ![km].holder = p]
  /\ UNCHANGED <<pidx, free_list, allocated_pages, live, dirty, panicked>>

\* Another holder, no run of pages, or a region that is too small: null.
LockFails(p, km, n) ==
  /\ \/ ~Lockable(p, km)
     \/ known_memory[km].addr = NULL /\ Runs(free_list, n) = {}
     \/ known_memory[km].addr # NULL /\ n > known_memory[km].page_count
  /\ UNCHANGED memoryVars

\* Mutant: keeps the known regions locked.
ProcessExitKeepsLocks(p) ==
  /\ UNCHANGED <<known_memory, panicked>>
  /\ dirty' = dirty \ PagesOf(p)
  /\ pidx' = [pg \in PageNos |-> IF pidx[pg] = p THEN NONE ELSE pidx[pg]]
  /\ free_list' = Descending(PagesOf(p)) \o free_list
  /\ allocated_pages' = allocated_pages - Cardinality(PagesOf(p))
  /\ live' = live \ {p}

(***************************************************************************)
(* The memory half of process_exit: the known regions are unlocked, then   *)
(* the pages are cleared and pushed on the free list, lowest page first.   *)
(***************************************************************************)
ProcessExit(p) ==
  /\ known_memory' = [km \in KnownMemories |->
       IF known_memory[km].holder = p THEN [known_memory[km] EXCEPT !.holder = NONE]
       ELSE known_memory[km]]
  /\ dirty' = dirty \ PagesOf(p)
  /\ pidx' = [pg \in PageNos |-> IF pidx[pg] = p THEN NONE ELSE pidx[pg]]
  /\ free_list' = Descending(PagesOf(p)) \o free_list
  /\ allocated_pages' = allocated_pages - Cardinality(PagesOf(p))
  /\ live' = live \ {p}
  /\ UNCHANGED panicked

-----------------------------------------------------------------------------
\* memory_init, then kernel_common creates idle.
MemoryInit ==
  /\ pidx = [pg \in PageNos |-> IF pg < INFO_PAGES THEN KERNEL ELSE NONE]
  /\ free_list = [i \in 1 .. TOTAL - INFO_PAGES - IdlePages |-> INFO_PAGES + IdlePages + i - 1]
  /\ known_memory = [km \in KnownMemories |-> [addr |-> NULL, page_count |-> 0, holder |-> NONE]]
  /\ allocated_pages = INFO_PAGES + IdlePages
  /\ live = {}
  /\ dirty = INFO_PAGES + IdlePages .. TOTAL - 1
  /\ panicked = FALSE

Running(p) ==
  \/ \E n \in AllocSizes : AllocPages(p, n) \/ AllocPagesFails(p, n)
  \/ \E pg \in PageNos : Write(p, pg)
  \/ \E km \in KnownMemories, n \in AllocSizes :
       LockAllocates(p, km, n) \/ LockAgain(p, km, n) \/ LockFails(p, km, n)
  \/ ProcessExit(p)

MemoryNext ==
  /\ ~panicked
  /\ \/ \E p \in Procs, args \in BOOLEAN : p \notin live /\ ProcessCreate(p, args)
     \/ \E args \in BOOLEAN : ProcessCreatePanics(args)
     \/ \E p \in live : Running(p)

MemorySpec == MemoryInit /\ [][MemoryNext]_memoryVars

-----------------------------------------------------------------------------
ListPages == {free_list[i] : i \in 1 .. Len(free_list)}
RegionPages == UNION {Region(km) : km \in KnownMemories}
IdlesPages == INFO_PAGES .. INFO_PAGES + IdlePages - 1

\* No page is on the free list twice, and none there is in use by a process, by the
\* kernel or as known memory (page_allocate, page_free_process).
FreeListSound ==
  /\ Cardinality(ListPages) = Len(free_list)
  /\ \A pg \in ListPages : pidx[pg] = NONE /\ pg \notin RegionPages \cup IdlesPages

\* No page is lost: what is not on the free list belongs to a process that exists, to
\* idle or to the kernel, so that ending every process gets every page back.
NoPageLost ==
  \A pg \in PageNos \ ListPages :
    \/ pidx[pg] \in live
    \/ pg < INFO_PAGES \/ pg \in RegionPages \cup IdlesPages

\* The statistics count the pages that are not free, however they were taken and
\* whichever processes they came back from.
StatsAgree == allocated_pages = TOTAL - Len(free_list)

\* All of it: pages are nowhere twice, nowhere lost, and counted right, whatever runs
\* were cut out of the list and whoever gave pages back (page_allocate,
\* page_free_process).
PagesAccounted == FreeListSound /\ NoPageLost /\ StatsAgree

\* "Clear page contents for security": pages come back cleared, and go out cleared,
\* also those that were never cleared because nobody had them before.
PagesChangeHandsCleared ==
  [][\A pg \in PageNos : pidx'[pg] # pidx[pg] => pg \notin dirty']_memoryVars

\* A known region overlaps nothing a process owns, and only a process that exists
\* holds it (known_memory_lock, known_memory_release_process).
KnownMemoryExclusive ==
  \A km \in KnownMemories :
    /\ known_memory[km].holder \in live \cup {NONE}
    /\ \A pg \in Region(km) : pidx[pg] = KERNEL
=============================================================================
