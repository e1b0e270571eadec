---------------------------- MODULE TlbShootdown ----------------------------
(***************************************************************************)
(* Unmapping memory on several CPUs: MappedPages::drop (kernel/memory)     *)
(* clears the page table entries, has the other CPUs flush the pages from  *)
(* their TLBs with an NMI (kernel/tlb_shootdown, nmi_handler in            *)
(* kernel/exceptions_full), and then gives the frames back.  The samples   *)
(* of the performance counters (kernel/pmu_x86) come as NMIs, too.         *)
(*                                                                         *)
(* A page is mapped to one frame, and named by it.  Every page of a        *)
(* MappedPages is mapped, in the page table in use, and the callbacks are  *)
(* set: the error returns of unmap(), which are for a MappedPages of which *)
(* that is not so, are not taken.                                          *)
(***************************************************************************)
EXTENDS Integers, Sequences, FiniteSets

CONSTANTS
  CPUs,
  Droppers,   \* the CPUs on which a MappedPages is dropped
  Region,     \* the frames of each CPU's MappedPages, in page order
  Shared,     \* the frames that are not mapped exclusively
  Uses,       \* the pages that are used on each CPU
  Sampled     \* the CPUs whose performance counters take samples

Frames(c) == {Region[c][i] : i \in DOMAIN Region[c]}
AllFrames == UNION {Frames(c) : c \in Droppers}

ASSUME TlbShootdownAssumption ==
  /\ Droppers \subseteq CPUs /\ IsFiniteSet(CPUs) /\ Cardinality(CPUs) > 1
  /\ \A c \in Droppers : Region[c] # <<>> /\ Frames(c) \subseteq Nat
  /\ \A c, d \in Droppers : c # d => Frames(c) \cap Frames(d) = {}
  /\ Shared \subseteq AllFrames /\ Uses \in [CPUs -> SUBSET AllFrames] /\ Sampled \subseteq CPUs

None == "none"

VARIABLES
  mapped,   \* pages with a page table entry
  tlb,      \* the pages that each CPU's TLB holds
  free,     \* frames given back to the frame allocator
  lock,     \* TLB_SHOOTDOWN_IPI_LOCK
  count,    \* TLB_SHOOTDOWN_IPI_COUNT
  pages,    \* TLB_SHOOTDOWN_IPI_PAGES: the dropper whose pages they are
  nmi,      \* CPUs with a pending NMI: a second one before it is taken is no more
  sample,   \* CPUs whose IA32_PERF_GLOBAL_STATUS shows a sample
  handler,  \* what each CPU's NMI handler is at
  seen,     \* pages_to_invalidate in each NMI handler
  pc,       \* where each dropping CPU is
  at,       \* the loop index of unmap()
  first, cur,  \* first_frame_range and current_frame_range of unmap()
  old,      \* old_lock_val
  overlap,  \* history: a CPU took the lock while another one had it
  clash     \* history: a sample came in the way of a shootdown

unmap == <<at, first, cur>>
nmis  == <<nmi, sample, handler, seen>>
hist  == <<overlap, clash>>
vars == <<mapped, tlb, free, lock, count, pages, nmis, pc, unmap, old, hist>>

Init ==
  /\ mapped = AllFrames /\ tlb = [c \in CPUs |-> {}] /\ free = {}
  /\ lock = FALSE /\ count = 0 /\ pages = None
  /\ nmi = {} /\ sample = {} /\ handler = [c \in CPUs |-> "none"] /\ seen = [c \in CPUs |-> None]
  /\ pc = [c \in Droppers |-> "mapped"] /\ at = [c \in Droppers |-> 1]
  /\ first = [c \in Droppers |-> {}] /\ cur = [c \in Droppers |-> {}]
  /\ old = [c \in Droppers |-> FALSE] /\ overlap = FALSE /\ clash = FALSE

(***************************************************************************)
(* A CPU that is in its NMI handler does nothing else.                     *)
(***************************************************************************)
Goto(c, from, to) == handler[c] = "none" /\ pc[c] = from /\ pc' = [pc EXCEPT ![c] = to]

(***************************************************************************)
(* The hardware fills a TLB from the page table.                           *)
(***************************************************************************)
Access(c, f) ==
  /\ handler[c] = "none" /\ f \in (Uses[c] \cap mapped) \ tlb[c]
  /\ tlb' = [tlb EXCEPT ![c] = @ \cup {f}]
  /\ UNCHANGED <<mapped, free, lock, count, pages, nmis, pc, unmap, old, hist>>
-----------------------------------------------------------------------------
(***************************************************************************)
(* The loop of MappedPages::unmap(), one page at a time.  Frames that      *)
(* continue the current range are merged into it; otherwise the current    *)
(* range becomes the first one or, if there is one, is dropped.  Frames    *)
(* that were not mapped exclusively are left to their owner.               *)
(***************************************************************************)
Merges(range, f) == f - 1 \in range \/ f + 1 \in range

UnmapPage(c) ==
  LET f == Region[c][at[c]]
      exclusive == IF f \in Shared THEN {} ELSE {f}
      new == exclusive # {} /\ cur[c] # {} /\ ~Merges(cur[c], f)
  IN
  /\ handler[c] = "none" /\ pc[c] \in {"mapped", "unmap"}
  /\ pc' = [pc EXCEPT ![c] = IF at[c] = Len(Region[c]) THEN "load" ELSE "unmap"]
  /\ mapped' = mapped \ {f}
  /\ tlb' = [tlb EXCEPT ![c] = @ \ {f}]
  /\ cur' = [cur EXCEPT ![c] = IF new THEN exclusive ELSE @ \cup exclusive]
  /\ first' = [first EXCEPT ![c] = IF new /\ @ = {} THEN cur[c] ELSE @]
  /\ free' = IF new /\ first[c] # {} THEN free \cup cur[c] ELSE free
  /\ at' = [at EXCEPT ![c] = @ + 1]
  /\ UNCHANGED <<lock, count, pages, nmis, old, hist>>

(***************************************************************************)
(* send_tlb_shootdown_ipi().  The lock is taken by a compare-and-exchange  *)
(* of the value that was last seen to true.                                *)
(***************************************************************************)
LoadLock(c) ==
  /\ Goto(c, "load", "cas")
  /\ old' = [old EXCEPT ![c] = lock]
  /\ UNCHANGED <<mapped, tlb, free, lock, count, pages, nmis, unmap, hist>>

TakeLock(c) ==
  /\ IF lock = old[c]
     THEN Goto(c, "cas", "pages") /\ lock' = TRUE /\ overlap' = (overlap \/ lock) /\ UNCHANGED old
     ELSE Goto(c, "cas", "cas") /\ old' = [old EXCEPT ![c] = lock] /\ UNCHANGED <<lock, overlap>>
  /\ UNCHANGED <<mapped, tlb, free, count, pages, nmis, unmap, clash>>

SetPages(c) ==
  /\ Goto(c, "pages", "count")
  /\ pages' = c
  /\ UNCHANGED <<mapped, tlb, free, lock, count, nmis, unmap, old, hist>>

CountsAll(c) ==              \* mutant: counts this CPU too
  /\ Goto(c, "count", "send")
  /\ count' = Cardinality(CPUs)
  /\ UNCHANGED <<mapped, tlb, free, lock, pages, nmis, unmap, old, hist>>

CountsTooFew(c) ==           \* mutant: off by one
  /\ Goto(c, "count", "send")
  /\ count' = Cardinality(CPUs) - 2
  /\ UNCHANGED <<mapped, tlb, free, lock, pages, nmis, unmap, old, hist>>

SetCount(c) ==
  /\ Goto(c, "count", "send")
  /\ count' = Cardinality(CPUs) - 1
  /\ UNCHANGED <<mapped, tlb, free, lock, pages, nmis, unmap, old, hist>>

SendNmi(c) ==
  /\ Goto(c, "send", "wait")
  /\ nmi' = nmi \cup (CPUs \ {c})
  /\ UNCHANGED <<mapped, tlb, free, lock, count, pages, sample, handler, seen, unmap, old, hist>>

ClearsEarly(c) ==            \* mutant: does not wait for the count
  /\ Goto(c, "wait", "release")
  /\ pages' = None
  /\ UNCHANGED <<mapped, tlb, free, lock, count, nmis, unmap, old, hist>>

AllHandled(c) ==
  /\ count = 0 /\ Goto(c, "wait", "release")
  /\ pages' = None
  /\ UNCHANGED <<mapped, tlb, free, lock, count, nmis, unmap, old, hist>>

(***************************************************************************)
(* The lock is released; unmap() returns and the frame ranges it still has *)
(* are dropped, and after them the pages.                                  *)
(***************************************************************************)
Release(c) ==
  /\ Goto(c, "release", "done")
  /\ lock' = FALSE
  /\ free' = free \cup first[c] \cup cur[c]
  /\ first' = [first EXCEPT ![c] = {}] /\ cur' = [cur EXCEPT ![c] = {}]
  /\ at' = [at EXCEPT ![c] = 1]
  /\ UNCHANGED <<mapped, tlb, count, pages, nmis, old, hist>>

(***************************************************************************)
(* The same pages and frames are allocated and mapped again.               *)
(***************************************************************************)
MapAgain(c) ==
  /\ Goto(c, "done", "mapped")
  /\ free' = free \ Frames(c) /\ mapped' = mapped \cup Frames(c)
  /\ UNCHANGED <<tlb, lock, count, pages, nmis, unmap, old, hist>>
-----------------------------------------------------------------------------
(***************************************************************************)
(* nmi_handler() reads the pages, flushes them and counts down; then       *)
(* handle_sample() looks whether there is a sample.  With neither pages    *)
(* nor a sample the NMI is unexpected, and the CPU's task is killed.  The  *)
(* next NMI stays pending until the handler returns.                       *)
(*                                                                         *)
(* A sample may come at any time.  It is in the way of a shootdown on a    *)
(* CPU whose handler serves one, and on the CPU that sends it.             *)
(***************************************************************************)
Sending(c) ==
  c \in Droppers /\ pc[c] \in {"load", "cas", "pages", "count", "send", "wait", "release"}

InTheWay ==
  \E c \in sample : seen[c] # None \/ (handler[c] # "none" /\ Sending(c))

Sample(c) ==
  /\ c \in Sampled \ sample
  /\ sample' = sample \cup {c} /\ nmi' = nmi \cup {c}
  /\ UNCHANGED <<mapped, tlb, free, lock, count, pages, handler, seen, pc, unmap, old, overlap>>
  /\ clash' = (clash \/ InTheWay')

NmiEnters(c) ==
  /\ c \in nmi /\ handler[c] = "none"
  /\ nmi' = nmi \ {c} /\ handler' = [handler EXCEPT ![c] = "read"]
  /\ UNCHANGED <<mapped, tlb, free, lock, count, pages, sample, seen, pc, unmap, old, overlap>>
  /\ clash' = (clash \/ InTheWay')

NmiReads(c) ==
  /\ handler[c] = "read"
  /\ handler' = [handler EXCEPT ![c] = IF pages = None THEN "sample" ELSE "flush"]
  /\ seen' = [seen EXCEPT ![c] = pages]
  /\ UNCHANGED <<mapped, tlb, free, lock, count, pages, nmi, sample, pc, unmap, old, overlap>>
  /\ clash' = (clash \/ InTheWay')

NmiFlushes(c) ==
  /\ handler[c] = "flush" /\ handler' = [handler EXCEPT ![c] = "count"]
  /\ tlb' = [tlb EXCEPT ![c] = @ \ Frames(seen[c])]
  /\ UNCHANGED <<mapped, free, lock, count, pages, nmi, sample, seen, pc, unmap, old, hist>>

(***************************************************************************)
(* fetch_sub wraps around below 0, to 2^32 - 1; any number that no run of  *)
(* NMIs brings back to 0 stands for it.                                    *)
(***************************************************************************)
WrappedCount == 2 * Cardinality(CPUs) * Cardinality(CPUs)

NmiCounts(c) ==
  /\ handler[c] = "count" /\ handler' = [handler EXCEPT ![c] = "sample"]
  /\ count' = IF count = 0 THEN WrappedCount ELSE count - 1
  /\ UNCHANGED <<mapped, tlb, free, lock, pages, nmi, sample, seen, pc, unmap, old, hist>>

(***************************************************************************)
(* handle_sample() clears the status and, except after the last sample,    *)
(* takes the lock of the CPU's local APIC, which the sender of a shootdown *)
(* holds all the while.                                                    *)
(***************************************************************************)
HandleSample(c) ==
  /\ c \in sample => ~Sending(c)
  /\ sample' = sample \ {c}

NmiSamples(c) ==
  /\ handler[c] = "sample" /\ HandleSample(c)
  /\ handler' = [handler EXCEPT ![c] = IF seen[c] = None /\ c \notin sample THEN "killed" ELSE "none"]
  /\ seen' = [seen EXCEPT ![c] = None]
  /\ UNCHANGED <<mapped, tlb, free, lock, count, pages, nmi, pc, unmap, old, hist>>

Nmi(c) == NmiEnters(c) \/ NmiReads(c) \/ NmiFlushes(c) \/ NmiCounts(c) \/ NmiSamples(c)
Unmap(c) ==
  \/ UnmapPage(c) \/ LoadLock(c) \/ TakeLock(c) \/ SetPages(c)
  \/ SetCount(c) \/ SendNmi(c) \/ AllHandled(c) \/ Release(c)

Next ==
  \/ \E c \in CPUs : Nmi(c) \/ Sample(c) \/ \E f \in AllFrames : Access(c, f)
  \/ \E c \in Droppers : Unmap(c) \/ MapAgain(c)

Spec == Init /\ [][Next]_vars

(***************************************************************************)
(* Fairness: every CPU executes its instructions, and the NMIs it gets;    *)
(* nobody has to start an unmap.                                           *)
(***************************************************************************)
FairSpec ==
  /\ Spec
  /\ \A c \in CPUs : WF_vars(Nmi(c))
  /\ \A c \in Droppers : WF_vars(pc[c] # "mapped" /\ Unmap(c))
-----------------------------------------------------------------------------
(***************************************************************************)
(* "The lock that makes sure only one set of TLB shootdown IPIs is         *)
(* concurrently happening" (kernel/tlb_shootdown/src/lib.rs:22).           *)
(***************************************************************************)
Shooting == {c \in Droppers : pc[c] \in {"pages", "count", "send", "wait", "release"}}
OneShootdown == Cardinality(Shooting) <= 1

(***************************************************************************)
(* It does not, and the handler does not tell the NMI of a shootdown from  *)
(* that of a sample: it counts down whenever there are pages, once more    *)
(* for a sample, and an NMI whose sample an earlier handler has dealt with *)
(* is unexpected.  While there is one shootdown at a time and no sample    *)
(* comes in its way:                                                       *)
(***************************************************************************)
Undisturbed == ~overlap /\ ~clash

(***************************************************************************)
(* Frames that have been given back are in no CPU's TLB: the shootdown     *)
(* "must be a blocking, synchronous operation to ensure stale TLB entries  *)
(* don't cause problems" (kernel/tlb_shootdown/src/lib.rs:93).  The        *)
(* exception are frame ranges between the first and the last one of a      *)
(* MappedPages, which the loop of unmap() drops: those may be in a TLB     *)
(* until the end of the shootdown that follows.                            *)
(***************************************************************************)
Exclusive(c) == SelectSeq(Region[c], LAMBDA f : f \notin Shared)
Contiguous(s, i, j) == \A k \in i .. j - 1 : Merges({s[k]}, s[k + 1])

InTheMiddle(c) ==
  LET s == Exclusive(c) IN
  {s[i] : i \in {k \in DOMAIN s : ~Contiguous(s, 1, k) /\ ~Contiguous(s, k, Len(s))}}

NotShotDown(c) == pc[c] \in {"unmap", "load", "cas", "pages", "count", "send", "wait"}

FreeIsUncached ==
  Undisturbed =>
    \A d \in Droppers, c \in CPUs :
      \A f \in tlb[c] \cap free \cap Frames(d) : f \in InTheMiddle(d) /\ NotShotDown(d)

(***************************************************************************)
(* No CPU takes the NMI of a shootdown, or of a sample, for an unexpected  *)
(* one, whose handler kills the current task.                              *)
(***************************************************************************)
NmiExpected == Undisturbed => \A c \in CPUs : handler[c] # "killed"

(***************************************************************************)
(* A CPU that waits for the others to handle its NMI goes on eventually;   *)
(* there is no timeout (TODO at kernel/tlb_shootdown/src/lib.rs:94).       *)
(***************************************************************************)
ShootdownEnds == <>~Undisturbed \/ \A c \in Droppers : pc[c] = "wait" ~> pc[c] = "done"
=============================================================================
