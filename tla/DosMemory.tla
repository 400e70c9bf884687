----------------------------- MODULE DosMemory -----------------------------
(***************************************************************************)
(* The DOS memory allocator of src/dos/dos_memory.cpp.  Conventional       *)
(* memory is a chain of blocks, each headed by a memory control block      *)
(* (MCB) of one paragraph that gives the block's owner, its size and       *)
(* whether it is the last ("Z") or not ("M").  The upper memory blocks     *)
(* (UMBs) are a chain of their own behind a system block that covers the   *)
(* gap, and can be linked to the end of the low chain.                     *)
(*                                                                         *)
(* mem is memory itself, one cell per paragraph: an MCB that is merged     *)
(* into another stays behind in memory.  Programs call DOS with blocks     *)
(* they hold and do not write outside them, so that the types of the MCBs  *)
(* are sound and triage_block has nothing to repair.  Sizes are far from   *)
(* 16 bits.  The names in the MCBs are left out.                           *)
(***************************************************************************)
EXTENDS Integers, Sequences, FiniteSets

CONSTANTS
  Procs,      \* the processes (PSP segments)
  LowSize,    \* the size of the free block DOS_SetupMemory leaves
  UmbActive,  \* the UMBs are configured
  CoverSize,  \* the size of the system block before the UMBs
  UmbSize,    \* the size of the upper memory block
  Requests,   \* the sizes that programs ask for
  Strategies  \* the strategies that programs set

ASSUME ConstantsAssumption ==
  /\ LowSize \in Nat /\ CoverSize \in Nat /\ UmbSize \in Nat /\ UmbActive \in BOOLEAN
  /\ Requests \subseteq Nat
  /\ Procs \cap {"free", "dos", "0x40", "none"} = {}  \* not PSP segments
  /\ Strategies \subseteq [fit : {"first", "best", "last"}, chains : {"low", "high", "high_first"}]

VARIABLES
  mem,
  linked,               \* dos_infoblock.GetUMBChainState()
  allocation_strategy,  \* its fit (bits 0-5) and which chains (bits 6, 7)
  psp,                  \* dos.psp(), the current process
  held,                 \* what programs hold, by what DOS has told them
  reported              \* the size a failed allocation has just returned

vars == <<mem, linked, allocation_strategy, psp, held, reported>>

MCB_FREE == "free"
MCB_DOS == "dos"
LoadfixPsp == "0x40"
None == -1

(* DOS_SetupMemory: a device block of one paragraph, a small free block,   *)
(* a block that loadfix can release, then all the rest.                    *)
firstMCB == 0
TempMcb == 2
LockMcb == 4
MainMcb == 6
LowEnd == MainMcb + LowSize           \* the last paragraph of the low chain
umb_start_seg == LowEnd + 1
FirstUmb == umb_start_seg + CoverSize + 1
UmbEnd == FirstUmb + UmbSize
Top == IF UmbActive THEN UmbEnd ELSE LowEnd

Mcb(type, owner, size) == [type |-> type, psp |-> owner, size |-> size]
NoMcb == Mcb("none", "none", 0)

TypeOK ==
  /\ mem \in [0..Top -> [type : {"M", "Z", "none"},
                         psp : Procs \cup {MCB_FREE, MCB_DOS, LoadfixPsp, "none"},
                         size : 0..Top]]
  /\ \A s \in 0..Top : mem[s].type = "none" <=> mem[s].psp = "none"
  /\ linked \in BOOLEAN
  /\ allocation_strategy \in [fit : {"first", "best", "last"},
                              chains : {"low", "high", "high_first"}]
  /\ psp \in Procs
  /\ held \subseteq [seg : 1..Top + 1, size : 0..Top]
  /\ reported \in None..Top

-----------------------------------------------------------------------------
Free(m, s) == m[s].psp = MCB_FREE
NextMcb(m, s) == s + m[s].size + 1

(* A step of a walk along a chain: it ends at the last MCB, or where it    *)
(* leaves memory.                                                          *)
Along(m, walk) ==
  LET s == walk[Len(walk)]
  IN IF s \notin DOMAIN m \/ m[s].type = "Z" THEN walk ELSE Append(walk, NextMcb(m, s))

(* The MCBs from s to the end of its chain: no more than memory has        *)
(* paragraphs.                                                             *)
Chain(m, s) ==
  LET walk[i \in 1..Top + 1] == IF i = 1 THEN <<s>> ELSE Along(m, walk[i - 1])
  IN walk[Top + 1]

McbsFrom(m, s) == LET chain == Chain(m, s) IN {chain[i] : i \in DOMAIN chain}

ChainEnd(m, s) == LET chain == Chain(m, s) IN chain[Len(chain)]

(* One turn of DOS_CompressMemory's loop: the MCB at hand takes the next   *)
(* one in when both are free, else the next one is at hand.                *)
Compress(c) ==
  LET s == c.at
      n == NextMcb(c.mem, s)
  IN IF s \notin DOMAIN c.mem \/ c.mem[s].type = "Z" \/ n \notin DOMAIN c.mem THEN c
     ELSE IF Free(c.mem, s) /\ Free(c.mem, n)
     THEN [c EXCEPT !.mem[s] = Mcb(c.mem[n].type, MCB_FREE, c.mem[s].size + c.mem[n].size + 1)]
     ELSE [c EXCEPT !.at = n]

(* Mutant: free neighbours are not joined.                                 *)
DOS_CompressMemoryNot(m) == m

(* Every turn moves the end of the MCB at hand.                            *)
DOS_CompressMemory(m) ==
  LET turn[i \in 1..Top + 2] == IF i = 1 THEN [mem |-> m, at |-> firstMCB]
                                ELSE Compress(turn[i - 1])
  IN turn[Top + 2].mem

(* The MCBs in the order DOS_AllocateMemory looks at them.                 *)
Searched(m) ==
  IF ~UmbActive \/ allocation_strategy.chains = "low" THEN Chain(m, firstMCB)
  ELSE Chain(m, umb_start_seg)
         \o IF allocation_strategy.chains = "high_first" THEN Chain(m, firstMCB) ELSE <<>>

(* Where among them it allocates: an exact fit ends a search for the best. *)
Chosen(m, chain, fits) ==
  CASE allocation_strategy.fit = "first" ->
         CHOOSE i \in fits : \A j \in fits : i <= j
    [] allocation_strategy.fit = "best" ->
         CHOOSE i \in fits : \A j \in fits :
           \/ m[chain[i]].size < m[chain[j]].size
           \/ m[chain[i]].size = m[chain[j]].size /\ i <= j
    [] allocation_strategy.fit = "last" ->
         CHOOSE i \in fits : \A j \in fits : i >= j

(* The block goes to the start of the MCB, what is left becomes free.      *)
SplitHead(m, s, blocks) ==
  IF m[s].size = blocks THEN [m EXCEPT ![s].psp = psp]
  ELSE [m EXCEPT ![s] = Mcb("M", psp, blocks),
                 ![s + blocks + 1] = Mcb(m[s].type, MCB_FREE, m[s].size - blocks - 1)]

(* Mutant: the end of the chain stays with the old block.                  *)
SplitTailOldEnd(m, s, blocks) ==
  IF m[s].size = blocks THEN [m EXCEPT ![s].psp = psp]
  ELSE [m EXCEPT ![s].size = @ - blocks - 1,
                 ![s + m[s].size - blocks] = Mcb("M", psp, blocks)]

(* The block goes to the end of the MCB.                                   *)
SplitTail(m, s, blocks) ==
  IF m[s].size = blocks THEN [m EXCEPT ![s].psp = psp]
  ELSE [m EXCEPT ![s] = Mcb("M", MCB_FREE, m[s].size - blocks - 1),
                 ![s + m[s].size - blocks] = Mcb(m[s].type, psp, blocks)]

-----------------------------------------------------------------------------
(* DOS_SetupMemory and DOS_BuildUMBChain.                                  *)
Init ==
  /\ mem = [s \in 0..Top |->
              CASE s = firstMCB -> Mcb("M", MCB_DOS, 1)
                [] s = TempMcb -> Mcb("M", MCB_FREE, 1)
                [] s = LockMcb -> Mcb("M", LoadfixPsp, 1)
                [] s = MainMcb -> Mcb("Z", MCB_FREE, LowSize)
                [] s = umb_start_seg -> Mcb("M", MCB_DOS, CoverSize)
                [] s = FirstUmb -> Mcb("Z", MCB_FREE, UmbSize)
                [] OTHER -> NoMcb]
  /\ linked = FALSE
  /\ allocation_strategy = [fit |-> "first", chains |-> "low"]
  /\ psp \in Procs
  /\ held = {}
  /\ reported = None

DOS_AllocateMemory(blocks) ==
  LET m == DOS_CompressMemory(mem)
      chain == Searched(m)
      free == {i \in DOMAIN chain : Free(m, chain[i])}
      fits == {i \in free : m[chain[i]].size >= blocks}
  IN /\ IF fits = {}
        THEN /\ mem' = m
             /\ reported' = IF free = {} THEN 0
                            ELSE CHOOSE n \in {m[chain[i]].size : i \in free} :
                                   \A i \in free : m[chain[i]].size <= n
             /\ UNCHANGED held
        ELSE LET s == chain[Chosen(m, chain, fits)]
                 seg == IF allocation_strategy.fit = "last"
                        THEN s + 1 + m[s].size - blocks ELSE s + 1
             IN /\ mem' = IF allocation_strategy.fit = "last"
                          THEN SplitTail(m, s, blocks) ELSE SplitHead(m, s, blocks)
                /\ held' = held \cup {[seg |-> seg, size |-> blocks]}
                /\ reported' = None
     /\ UNCHANGED <<linked, allocation_strategy, psp>>

(* The block takes all of the free block behind it.                        *)
Grown(m, s, size) ==
  LET n == NextMcb(m, s)
  IN [m EXCEPT ![s].type = IF @ # "Z" /\ Free(m, n) THEN m[n].type ELSE @,
               ![s].psp = psp, ![s].size = size]

(* DOS_ResizeMemory of the block with MCB s, before the last compression.  *)
(* A block that cannot grow as wanted grows as far as it can.  Whoever     *)
(* resizes a block becomes its owner.                                      *)
Resized(m, s, blocks) ==
  LET n == NextMcb(m, s)
      total == m[s].size
      joined == IF m[s].type # "Z" /\ Free(m, n) THEN total + m[n].size + 1 ELSE total
      ending == IF m[s].type # "Z" THEN m[n].type ELSE m[s].type
  IN CASE blocks = total -> m
       [] blocks < total -> DOS_CompressMemory(SplitHead(m, s, blocks))
       [] blocks > total /\ blocks < joined ->
            DOS_CompressMemory(
              [m EXCEPT ![s] = Mcb("M", psp, blocks),
                        ![s + blocks + 1] = Mcb(ending, MCB_FREE, joined - blocks - 1)])
       [] blocks > total /\ blocks >= joined -> Grown(m, s, joined)

DOS_ResizeMemory(b, blocks) ==
  /\ mem' = Resized(DOS_CompressMemory(mem), b.seg - 1, blocks)
  /\ held' = IF mem'[b.seg - 1].size = blocks
             THEN (held \ {b}) \cup {[seg |-> b.seg, size |-> blocks]}
             ELSE held
  /\ reported' = None
  /\ UNCHANGED <<linked, allocation_strategy, psp>>

(* Neighbours are joined later, by the next call that compresses.          *)
DOS_FreeMemory(b) ==
  /\ mem' = [mem EXCEPT ![b.seg - 1].psp = MCB_FREE]
  /\ held' = held \ {b}
  /\ reported' = None
  /\ UNCHANGED <<linked, allocation_strategy, psp>>

Released(m, first, owner) ==
  LET mcbs == McbsFrom(m, first)
  IN [s \in DOMAIN m |-> IF m[s].psp = owner /\ s \in mcbs
                         THEN [m[s] EXCEPT !.psp = MCB_FREE] ELSE m[s]]

(* Mutant: the UMBs are forgotten.                                         *)
DOS_FreeProcessMemoryLow(owner) ==
  /\ mem' = DOS_CompressMemory(Released(mem, firstMCB, owner))
  /\ held' = {b \in held : mem[b.seg - 1].psp # owner}
  /\ reported' = None
  /\ UNCHANGED <<linked, allocation_strategy, psp>>

(* All blocks of a process that ends, in both chains.                      *)
DOS_FreeProcessMemory(owner) ==
  /\ LET low == Released(mem, firstMCB, owner)
         all == IF UmbActive THEN Released(low, umb_start_seg, owner) ELSE low
     IN mem' = DOS_CompressMemory(all)
  /\ held' = {b \in held : mem[b.seg - 1].psp # owner}
  /\ reported' = None
  /\ UNCHANGED <<linked, allocation_strategy, psp>>

DOS_SetMemAllocStrategy(strategy) ==
  /\ allocation_strategy' = strategy
  /\ reported' = None
  /\ UNCHANGED <<mem, linked, psp, held>>

(* Mutant: the last low block stays a middle one.                          *)
UnlinkedNot(m) == m

(* The walk along the low chain ends at the cover block of the UMBs.       *)
Unlinked(m) ==
  LET mcbs == McbsFrom(m, firstMCB)
  IN [s \in DOMAIN m |->
        IF s \in mcbs /\ m[s].type = "M" /\ NextMcb(m, s) = umb_start_seg
        THEN [m[s] EXCEPT !.type = "Z"] ELSE m[s]]

Linked(m) == [m EXCEPT ![ChainEnd(m, firstMCB)].type = "M"]

DOS_LinkUMBsToMemChain(link) ==
  /\ UmbActive
  /\ link # linked
  /\ mem' = IF link THEN Linked(mem) ELSE Unlinked(mem)
  /\ linked' = link
  /\ reported' = None
  /\ UNCHANGED <<allocation_strategy, psp, held>>

(* Another process runs: DOS_Execute, DOS_Terminate, INT 21h AH=50h.       *)
SetPsp(p) ==
  /\ psp' = p
  /\ reported' = None
  /\ UNCHANGED <<mem, linked, allocation_strategy, held>>

Next ==
  \/ \E blocks \in Requests : DOS_AllocateMemory(blocks)
  \/ \E b \in held, blocks \in Requests : DOS_ResizeMemory(b, blocks)
  \/ \E b \in held : DOS_FreeMemory(b)
  \/ \E owner \in Procs \cup {LoadfixPsp} : DOS_FreeProcessMemory(owner)
  \/ \E strategy \in Strategies : DOS_SetMemAllocStrategy(strategy)
  \/ \E link \in BOOLEAN : DOS_LinkUMBsToMemChain(link)
  \/ \E p \in Procs : SetPsp(p)

Spec == Init /\ [][Next]_vars

-----------------------------------------------------------------------------
(* The MCBs of both chains.                                                *)
Mcbs == McbsFrom(mem, firstMCB) \cup (IF UmbActive THEN McbsFrom(mem, umb_start_seg) ELSE {})

LastParagraph(first) == NextMcb(mem, ChainEnd(mem, first)) - 1

(* Both chains tile their part of memory without a gap, whatever is split, *)
(* joined, linked and unlinked: the low chain ends at the end of low       *)
(* memory, or at the end of the UMBs while they are linked.                *)
ChainsTile ==
  /\ TypeOK
  /\ Mcbs \subseteq DOMAIN mem
  /\ LastParagraph(firstMCB) = IF linked THEN UmbEnd ELSE LowEnd
  /\ UmbActive => LastParagraph(umb_start_seg) = UmbEnd

(* What DOS_AllocateMemory and DOS_ResizeMemory gave a program it still    *)
(* has: its MCB is in a chain, not free, and at least as large as DOS      *)
(* said; and no two blocks overlap.                                        *)
HeldIsOwned ==
  /\ LET mcbs == Mcbs
     IN \A b \in held : /\ b.seg - 1 \in mcbs
                        /\ ~Free(mem, b.seg - 1)
                        /\ mem[b.seg - 1].size >= b.size
  /\ \A b, c \in held : b # c => b.seg + b.size < c.seg \/ c.seg + c.size < b.seg

(* DOS_FreeProcessMemory leaves nothing behind: a block that is owned by a *)
(* process is one that it holds.                                           *)
NothingLeaks ==
  \A s \in Mcbs : mem[s].psp \in Procs => \E b \in held : b.seg - 1 = s

(* When an allocation has failed, no two free neighbours are left in the   *)
(* low chain that it could have joined, and the size it reports is that of *)
(* a free block.                                                           *)
FailureIsFinal ==
  reported # None =>
    /\ \A s \in McbsFrom(mem, firstMCB) :
         mem[s].type # "Z" => ~(Free(mem, s) /\ Free(mem, NextMcb(mem, s)))
    /\ reported > 0 => \E s \in Mcbs : Free(mem, s) /\ mem[s].size = reported
=============================================================================
