------------------------------ MODULE VirtualMemory ------------------------------
(***************************************************************************)
(* The user address space: mmap, munmap and page faults (machdep.c) over   *)
(* the zones of page.c and the frames of frame.c.  All threads share one   *)
(* page table.  System calls and do_page_fault run with interrupts on, so  *)
(* the threads interleave at every step; the calls into page.c and frame.c *)
(* are critical sections, except that kmalloc, between the search for a    *)
(* place and the insertion of a zone, may raise a page fault.              *)
(*                                                                         *)
(* The kernel takes page faults itself: vtopte reaches an entry through a  *)
(* window on the page tables, and a page table is a page of that window    *)
(* that is allocated when it is first touched, as the pages of the kernel  *)
(* heap are.  A page fault of the kernel is a second do_page_fault of the  *)
(* same thread, so the actions belong to contexts: <<t, 0>> is thread t,   *)
(* <<t, 1>> the page fault that t takes in the kernel.                     *)
(*                                                                         *)
(* The program is assumed to touch mapped pages only, and to unmap a zone  *)
(* that no thread is touching.  Under Serial it also keeps its calls of    *)
(* mmap and munmap apart.  Nothing keeps two threads from touching a page, *)
(* or a page table, for the first time together.  Once a page table in use *)
(* has been replaced or read before it was cleared, or kmalloc has failed  *)
(* or been entered twice, nothing is known of memory: the flag torn is set *)
(* and the model goes no further.                                          *)
(***************************************************************************)
EXTENDS Frame, PageZone

CONSTANTS
  Thread,
  Value,     (* contents of a page                                         *)
  Zero,      (* a page of zeros                                            *)
  Junk,      (* what a frame holds before it is first used                 *)
  Device,    (* frames mapped through /dev/mem, none of them RAM           *)
  MaxLength, (* bound: the pages of one mmap                               *)
  Serial,    (* whether the program serializes mmap and munmap             *)
  TableSize, (* bound: the entries of a page table, 1024 in the code       *)
  HeapPage,  (* pages of the kernel heap that have not been touched        *)
  None

(* vtopte(): the page of the window, which begins at USER_MAX_ADDR, that   *)
(* holds the entry of a page.  The kernel's own page tables, and that of   *)
(* the window, exist from the beginning.                                   *)
TableOf(p) == UserMax + p \div TableSize
TablePage == {TableOf(p) : p \in UserPage}
Page == UserPage \cup TablePage \cup HeapPage

ASSUME VirtualMemoryAssumption ==
  /\ Zero \in Value /\ Junk \in Value
  /\ Device \subseteq Nat /\ Device \cap BitFrame = {}
  /\ MaxLength \in Nat
  /\ Serial \in BOOLEAN
  /\ None \notin BitFrame \cup Device
  /\ TableSize \in Nat \ {0}
  /\ UserPage \cap (TablePage \cup HeapPage) = {} /\ TablePage \cap HeapPage = {}

Own(t) == <<t, 0>>
Nested(t) == <<t, 1>>
Context == Thread \X {0, 1}

VARIABLES
  uvmzone,   (* the zones of the user address space                        *)
  bitmap,    (* pmzone[].bitmap                                            *)
  pt,        (* the page table: the frame of a valid entry, or None        *)
  content,   (* what the frames of RAM hold                                *)
  pc,        (* where the context is in a system call or a fault           *)
  at,        (* the page that call or fault has come to                    *)
  end,       (* where the loop of mmap or munmap ends                      *)
  frame,     (* paddr, or x, or offset                                     *)
  halted,    (* exception() has reached its endless loop, interrupts off   *)
  last,      (* history: what was last stored to the page since its mmap   *)
  contended, (* history: pages touched while another thread's first touch  *)
             (* of them was in do_page_fault                               *)
  dropped,   (* history: frames whose page table entry was overwritten     *)
  torn       (* history: the page tables or the kernel heap are damaged    *)

locals == <<pc, at, end, frame>>
history == <<last, contended, dropped>>
memory == <<uvmzone, bitmap, pt, content, pc, at, end, frame, halted,
            last, contended, dropped>>
vars == <<memory, torn>>

FaultSteps == {"prot", "alloc", "map", "zero"}
UnmapSteps == {"read", "clear", "free"}
PC == {"user", "insert", "device"} \cup FaultSteps \cup UnmapSteps

Init ==
  /\ uvmzone = <<>>
  /\ bitmap = NoBitSet
  /\ pt = [p \in Page |-> None]
  /\ content = [f \in RamFrame |-> Junk]
  /\ pc = [c \in Context |-> "user"]
  /\ at = [c \in Context |-> UserMin]
  /\ end = [c \in Context |-> UserMin]
  /\ frame = [c \in Context |-> None]
  /\ halted = FALSE
  /\ last = [p \in UserPage |-> Zero]
  /\ contended = {}
  /\ dropped = {}
  /\ torn = FALSE

--------------------------------------------------------------------------------
ToStep(c, step, page, frm) ==
  /\ pc' = [pc EXCEPT ![c] = step]
  /\ at' = [at EXCEPT ![c] = page]
  /\ frame' = [frame EXCEPT ![c] = frm]

Return(c) ==
  /\ ToStep(c, "user", UserMin, None)
  /\ end' = [end EXCEPT ![c] = UserMin]

(* The end of an iteration of the loops of mmap and munmap.                *)
NextPage(c, step, frm) ==
  IF at[c] + 1 = end[c]
  THEN Return(c)
  ELSE ToStep(c, step, at[c] + 1, frm) /\ UNCHANGED end

(* What the program does, and does not do.                                 *)
InCall(u) == pc[u] \in UnmapSteps \cup {"insert", "device"}
MayCall(c) == pc[c] = "user" /\ (Serial => \A u \in Context : ~InCall(u))
Unfinished == UNION {at[u] .. end[u] - 1 : u \in {v \in Context : pc[v] = "device"}}
Touchable == Mapped(uvmzone) \ Unfinished
Faulting(p) == {u \in Context : pc[u] \in FaultSteps /\ at[u] = p}
Contends(p) ==
  contended' = IF Faulting(p) = {} THEN contended ELSE contended \cup {p}

(* An entry can be reached once its page table is present.  Until it is    *)
(* cleared the page table holds whatever its frame held before.            *)
Reached(p) == p \in UserPage => pt[TableOf(p)] # None
Raw(p) == p \in UserPage /\ \E c \in Context : pc[c] = "zero" /\ at[c] = TableOf(p)

(* A thread is inside kmalloc, where a page fault has turned interrupts on.*)
HeapBusy == \E u \in Context : pc[u] = "insert"

--------------------------------------------------------------------------------
(* page_alloc_in_addr() for MAP_FIXED, page_alloc() otherwise: a place is  *)
(* found, kmalloc is called, and then the zone is inserted.                *)
Allocatable(va, npages) ==
  \/ CanAllocInAddr(uvmzone, va, npages)
  \/ va = Address(uvmzone, npages) /\ CanAllocPages(uvmzone, npages)

Allocate(va, npages) ==
  \/ /\ CanAllocInAddr(uvmzone, va, npages)
     /\ uvmzone' = PageAllocInAddr(uvmzone, va, npages)
  \/ /\ va = Address(uvmzone, npages)
     /\ CanAllocPages(uvmzone, npages)
     /\ uvmzone' = PageAlloc(uvmzone, npages)

(* offset is that of /dev/mem, or None for memory of the program's own.    *)
Mmap(c, va, npages, offset) ==
  /\ MayCall(c) /\ ~HeapBusy
  /\ offset # None => Bits(offset, npages) \subseteq Device
  /\ Allocatable(va, npages)
  /\ ToStep(c, "insert", va, offset)
  /\ end' = [end EXCEPT ![c] = va + npages]
  /\ UNCHANGED <<uvmzone, bitmap, pt, content, halted>>
  /\ UNCHANGED history

(* After kmalloc; page_map() fills in the page table of /dev/mem then.     *)
Insert(c) ==
  /\ pc[c] = "insert"
  /\ Allocate(at[c], end[c] - at[c])
  /\ IF frame[c] = None
     THEN Return(c)
     ELSE ToStep(c, "device", at[c], frame[c]) /\ UNCHANGED end
  /\ UNCHANGED <<bitmap, pt, content, halted>>
  /\ UNCHANGED history

PageMap(c) ==
  /\ pc[c] = "device"
  /\ Reached(at[c]) /\ ~Raw(at[c])
  /\ pt' = [pt EXCEPT ![at[c]] = frame[c]]
  /\ NextPage(c, "device", frame[c] + 1)
  /\ UNCHANGED <<uvmzone, bitmap, content, halted>>
  /\ UNCHANGED history

Forget(pages) ==
  /\ last' = [p \in UserPage |-> IF p \in pages THEN Zero ELSE last[p]]
  /\ contended' = contended \ pages

(* Faulty: the last page of the zone is forgotten.                         *)
MunmapShort(c, zone) ==
  /\ MayCall(c) /\ ~HeapBusy
  /\ Pages(zone) \cap Unfinished = {}
  /\ \A p \in Pages(zone) : Faulting(p) = {}
  /\ uvmzone' = PageFree(uvmzone, zone.base, zone.limit)
  /\ IF zone.limit = 1
     THEN UNCHANGED <<pc, at, end, frame>>
     ELSE /\ ToStep(c, "read", zone.base, None)
          /\ end' = [end EXCEPT ![c] = End(zone) - 1]
  /\ Forget(Pages(zone))
  /\ UNCHANGED <<bitmap, pt, content, halted, dropped>>

(* munmap(): the zone is given up first, the pages after it, one by one.   *)
Munmap(c, zone) ==
  /\ MayCall(c) /\ ~HeapBusy
  /\ Pages(zone) \cap Unfinished = {}
  /\ \A p \in Pages(zone) : Faulting(p) = {}
  /\ uvmzone' = PageFree(uvmzone, zone.base, zone.limit)
  /\ ToStep(c, "read", zone.base, None)
  /\ end' = [end EXCEPT ![c] = End(zone)]
  /\ Forget(Pages(zone))
  /\ UNCHANGED <<bitmap, pt, content, halted, dropped>>

UnmapRead(c) ==
  /\ pc[c] = "read"
  /\ Reached(at[c]) /\ ~Raw(at[c])
  /\ IF pt[at[c]] = None
     THEN NextPage(c, "read", None)
     ELSE ToStep(c, "clear", at[c], pt[at[c]]) /\ UNCHANGED end
  /\ UNCHANGED <<uvmzone, bitmap, pt, content, halted>>
  /\ UNCHANGED history

UnmapClear(c) ==
  /\ pc[c] = "clear"
  /\ Reached(at[c]) /\ ~Raw(at[c])
  /\ pt' = [pt EXCEPT ![at[c]] = None]
  /\ ToStep(c, "free", at[c], frame[c])
  /\ UNCHANGED <<uvmzone, bitmap, content, end, halted>>
  /\ UNCHANGED history

UnmapFree(c) ==
  /\ pc[c] = "free"
  /\ bitmap' = FrameFree(bitmap, frame[c], 1)
  /\ NextPage(c, "read", None)
  /\ UNCHANGED <<uvmzone, pt, content, halted>>
  /\ UNCHANGED history

--------------------------------------------------------------------------------
(* A store of the program to a page: it goes to the frame, or raises a     *)
(* page fault.  The instruction is executed again when do_page_fault()     *)
(* returns; the program may as well do something else then.                *)
Store(c, p, v) ==
  /\ pc[c] = "user"
  /\ pt[p] # None /\ ~Raw(p)
  /\ content' = [content EXCEPT ![pt[p]] = v]
  /\ last' = [last EXCEPT ![p] = v]
  /\ Contends(p)
  /\ UNCHANGED <<uvmzone, bitmap, pt, halted, dropped>>
  /\ UNCHANGED locals

Fault(c, p) ==
  /\ pc[c] = "user"
  /\ pt[p] = None /\ ~Raw(p)
  /\ ToStep(c, "prot", p, None)
  /\ Contends(p)
  /\ UNCHANGED <<uvmzone, bitmap, pt, content, end, halted, last, dropped>>

(* exception(): interrupts are turned off, and it never returns.           *)
Halt(c) ==
  /\ halted' = TRUE
  /\ Return(c)
  /\ UNCHANGED bitmap

(* do_page_fault(): page_prot().  The kernel's pages are those of a zone.  *)
FaultProt(c) ==
  /\ pc[c] = "prot"
  /\ IF at[c] \in UserPage => at[c] \in Mapped(uvmzone)
     THEN ToStep(c, "alloc", at[c], None) /\ UNCHANGED <<bitmap, end, halted>>
     ELSE Halt(c)
  /\ UNCHANGED <<uvmzone, pt, content>>
  /\ UNCHANGED history

(* frame_alloc(1).                                                         *)
FaultAlloc(c) ==
  /\ pc[c] = "alloc"
  /\ IF CanAlloc(bitmap, 1)
     THEN /\ bitmap' = FrameAlloc(bitmap, 1).bitmap
          /\ ToStep(c, "map", at[c], FrameAlloc(bitmap, 1).pa)
          /\ UNCHANGED <<end, halted>>
     ELSE Halt(c)
  /\ UNCHANGED <<uvmzone, pt, content>>
  /\ UNCHANGED history

(* The entry is stored whatever it holds by now, ...                       *)
FaultMap(c) ==
  /\ pc[c] = "map"
  /\ Reached(at[c]) /\ ~Raw(at[c])
  /\ at[c] \notin UserPage => pt[at[c]] = None /\ frame[c] \in RamFrame
  /\ pt' = [pt EXCEPT ![at[c]] = frame[c]]
  /\ dropped' = dropped \cup ({pt[at[c]]} \ {None})
  /\ ToStep(c, "zero", at[c], None)
  /\ UNCHANGED <<uvmzone, bitmap, content, end, halted, last, contended>>

(* Faulty: the new page is not cleared.                                    *)
FaultNoZero(c) ==
  /\ pc[c] = "zero"
  /\ pt[at[c]] # None /\ ~Raw(at[c])
  /\ Return(c)
  /\ UNCHANGED <<uvmzone, bitmap, pt, content, halted>>
  /\ UNCHANGED history

(* ... and the page is cleared through it.                                 *)
FaultZero(c) ==
  /\ pc[c] = "zero"
  /\ pt[at[c]] # None /\ ~Raw(at[c])
  /\ content' = [content EXCEPT ![pt[at[c]]] = Zero]
  /\ Return(c)
  /\ UNCHANGED <<uvmzone, bitmap, pt, halted>>
  /\ UNCHANGED history

(* The page fault of a context in the kernel: at an entry whose page table *)
(* is missing, at a page that is cleared and was unmapped meanwhile, and   *)
(* inside kmalloc.                                                         *)
Enters(t, p) ==
  /\ ToStep(Nested(t), "prot", p, None)
  /\ UNCHANGED <<uvmzone, bitmap, pt, content, end, halted, last, dropped>>

TableFault(t) ==
  /\ pc[Own(t)] \in {"device", "read", "clear", "map"}
  /\ ~Reached(at[Own(t)])
  /\ Enters(t, TableOf(at[Own(t)]))
  /\ UNCHANGED contended

ClearFault(t) ==
  /\ pc[Own(t)] = "zero"
  /\ pt[at[Own(t)]] = None /\ ~Raw(at[Own(t)])
  /\ Enters(t, at[Own(t)])
  /\ Contends(at[Own(t)])

HeapFault(t, p) ==
  /\ pc[Own(t)] = "insert"
  /\ pt[p] = None
  /\ Enters(t, p)
  /\ UNCHANGED contended

(* The accesses after which nothing is known of memory.                    *)
TearsTable(c) ==
  \/ pc[c] = "user" /\ \E p \in Touchable : Raw(p)
  \/ pc[c] \in {"device", "read", "clear", "map", "zero"} /\ Raw(at[c])
  \/ pc[c] = "map" /\ at[c] \notin UserPage /\ (pt[at[c]] # None \/ frame[c] \notin RamFrame)

(* mmap() stores through the null pointer when kmalloc fails, and both     *)
(* mmap() and munmap() enter the heap while another thread is inside it.   *)
TearsHeap(c) ==
  \/ pc[c] = "insert"
  \/ MayCall(c) /\ HeapBusy

(* A third page fault inside the second is left out.                       *)
FaultsAgain(c) == pc[c] = "zero" /\ pt[at[c]] = None

--------------------------------------------------------------------------------
Call(c) ==
  \/ \E va \in UserPage, npages \in 1 .. MaxLength, offset \in Device \cup {None} :
       Mmap(c, va, npages, offset)
  \/ \E i \in DOMAIN uvmzone : Munmap(c, uvmzone[i])

Step(c) ==
  \/ Insert(c) \/ PageMap(c) \/ UnmapRead(c) \/ UnmapClear(c) \/ UnmapFree(c)
  \/ FaultProt(c) \/ FaultAlloc(c) \/ FaultMap(c) \/ FaultZero(c)

Touch(c) == \E p \in Touchable : Fault(c, p) \/ \E v \in Value \ {Zero} : Store(c, p, v)

(* The context of the thread that runs.  A thread that comes back to       *)
(* kmalloc from a page fault has interrupts off again: no other runs then. *)
Top(t) == IF pc[Nested(t)] = "user" THEN Own(t) ELSE Nested(t)
Scheduled(t) == \A u \in Thread \ {t} : pc[Top(u)] # "insert"

Works(t) ==
  \/ Call(Top(t)) \/ Step(Top(t)) \/ Touch(Top(t))
  \/ /\ Top(t) = Own(t)
     /\ TableFault(t) \/ ClearFault(t) \/ \E p \in HeapPage : HeapFault(t, p)

Tears(t) ==
  \/ TearsTable(Top(t)) \/ TearsHeap(Top(t))
  \/ Top(t) = Nested(t) /\ FaultsAgain(Top(t))

Next ==
  /\ ~halted /\ ~torn
  /\ \E t \in Thread :
       /\ Scheduled(t)
       /\ \/ Works(t) /\ UNCHANGED torn
          \/ Tears(t) /\ torn' = TRUE /\ UNCHANGED memory

Spec == Init /\ [][Next]_vars

--------------------------------------------------------------------------------
(* The zones are in the user address space, sorted, and apart: whatever    *)
(* was mapped and unmapped, no address belongs to two of them, and the     *)
(* searches that stop early (page.c:99, page.c:157) miss none, although    *)
(* threads fault between the search for a place and the insertion          *)
(* (page.c:114, page.c:177).                                               *)
ZonesInOrder ==
  /\ \A i \in DOMAIN uvmzone :
       UserMin <= uvmzone[i].base /\ End(uvmzone[i]) <= UserMax
  /\ \A i, j \in DOMAIN uvmzone : i < j => End(uvmzone[i]) <= uvmzone[j].base
ZonesApart == ~torn => ZonesInOrder

(* The frames do_page_fault() has taken and not mapped yet, and those      *)
(* munmap() is about to give back.                                         *)
Pending(u) == pc[u] \in {"map", "free"} /\ frame[u] \notin Device

(* A frame of the zones that is in use is in use once: as one page of the  *)
(* program or of the kernel heap, as one page table, or on its way to or   *)
(* from one.  A frame that is in use is never given to another page.       *)
UsedOnce ==
  /\ \A p, q \in Page :
       pt[p] = pt[q] /\ pt[p] \notin Device \cup {None} => p = q
  /\ \A p \in Page : pt[p] \notin Device \cup {None} => pt[p] \in Used(bitmap)
  /\ \A u \in Context : Pending(u) =>
       /\ frame[u] \in Used(bitmap)
       /\ \A p \in Page : pt[p] # frame[u]
       /\ \A v \in Context \ {u} : Pending(v) => frame[v] # frame[u]
FramesExclusive == ~torn => UsedOnce

(* No RAM is lost: a frame marked in the bitmaps is mapped, a page table,  *)
(* or on its way, unless two threads met in do_page_fault at one page and  *)
(* one overwrote the other's entry, or met at one page table               *)
(* (machdep.c:957).                                                        *)
AllKnown ==
  \A f \in Used(bitmap) \cap RamFrame :
    \/ \E p \in Page : pt[p] = f
    \/ \E u \in Context : Pending(u) /\ frame[u] = f
    \/ f \in dropped
FramesAccounted == ~torn => AllKnown

(* A program finds in a page what it last stored there, zeros in a page it *)
(* has mapped and not stored to, as long as its threads did not meet in    *)
(* the first touch of the page or of its page table, and the frame is RAM. *)
PagesKept ==
  \A p \in Touchable \ contended :
    IF pt[p] = None \/ (\E u \in Faulting(p) : pc[u] = "zero")
    THEN last[p] = Zero
    ELSE pt[p] \in RamFrame => content[pt[p]] = last[p]
DataKept == ~torn => PagesKept

(* What a zone leaves behind: outside the zones no page is mapped, but for *)
(* those munmap() still has to unmap.                                      *)
OthersUnmapped ==
  \A p \in UserPage :
    pt[p] # None =>
      \/ p \in Mapped(uvmzone)
      \/ \E u \in Context : pc[u] \in UnmapSteps /\ p \in at[u] .. end[u] - 1
NothingLeftMapped == ~torn => OthersUnmapped

(* A legal access stops the machine only when every frame is in use.       *)
HaltsOnlyWhenFull == halted => BitFrame \subseteq Used(bitmap)

(* frame_free() is for frames that frame_alloc() has handed out            *)
(* (frame.c:112): munmap() never frees a frame twice.                      *)
FreesAllocated ==
  \A u \in Context :
    ~torn /\ pc[u] = "free" /\ frame[u] \in RamFrame => frame[u] \in Used(bitmap)

================================================================================
