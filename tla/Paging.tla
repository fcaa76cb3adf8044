------------------------------- MODULE Paging -------------------------------
(***************************************************************************)
(* ASMEntryPoint (kernel/__init.asm), which the loader calls: it clears    *)
(* memory for page tables, links a PML4, a page directory pointer table, a *)
(* page directory and four page tables, fills the page tables entry by     *)
(* entry, and switches to long mode with paging.  The first three page     *)
(* tables map every page to itself; the fourth is the arena of memory.c,   *)
(* whose pages are absent until PageAlloc sets their bit.                  *)
(*                                                                         *)
(* An entry has two halves of 32 bits.  The code writes the lower one; the *)
(* upper one is what clearing left, or else what was in memory before.     *)
(***************************************************************************)
EXTENDS BootLoader

CONSTANT PT_SIZE          \* entries of a table (512)

ASSUME PagingAssumption == PT_SIZE \in Nat /\ PT_SIZE >= 4

VARIABLES
    paging,     \* where ASMEntryPoint is
    filled,     \* entries of the four page tables written
    eax,        \* the next of them
    mem,        \* the seven tables
    ram         \* what is in memory before: 0, or junk

pagingVars == <<paging, filled, eax, mem, ram>>

PAGE_SIZE == 4096
READ_WRITE == 2
READ_WRITE_PRESENT == 3
CLEARED == 4096 * 4              \* bytes that rep stosd clears

(* The tables follow each other from PML4E_ADDR on, a page each.           *)
PML4 == 0
PDP == 1
PD == 2
PT(n) == 3 + n
FIRST_TABLE == 1025              \* PML4E_ADDR, as a page
TABLES == 0 .. 6
Address(t) == (FIRST_TABLE + t) * PAGE_SIZE

PagingInit ==
    /\ paging = "off"
    /\ filled = 0 /\ eax = 0
    /\ ram \in {0, 1}
    /\ mem = [t \in TABLES |-> [i \in 0 .. PT_SIZE - 1 |->
                [low |-> ram, high |-> ram]]]

(* x | flags, for an x whose bits beside an address are no other flags.    *)
Or(x, flags) ==
    (x - (x % 4)) + (IF flags = READ_WRITE_PRESENT \/ x % 4 \in {1, 3}
                   THEN READ_WRITE_PRESENT ELSE READ_WRITE)

-----------------------------------------------------------------------------
ClearTables ==
    /\ stage = "kernel" /\ paging = "off"
    /\ paging' = "cleared"
    /\ mem' = [t \in TABLES |-> IF t < CLEARED \div PAGE_SIZE
                 THEN [i \in 0 .. PT_SIZE - 1 |-> [low |-> 0, high |-> 0]]
                 ELSE mem[t]]
    /\ UNCHANGED <<filled, eax, ram>>

(* The labels PML4, PDP and PD.                                            *)
LinkTables ==
    LET To(t) == Or(Address(t), READ_WRITE_PRESENT)
    IN  /\ paging = "cleared"
        /\ paging' = "filling"
        /\ mem' = [mem EXCEPT
              ![PML4][0].low = To(PDP),
              ![PDP][0].low = To(PD),
              ![PD] = [i \in DOMAIN @ |->
                         IF i < 4 THEN [@[i] EXCEPT !.low = To(PT(i))] ELSE @[i]]]
        /\ eax' = 0
        /\ UNCHANGED <<filled, ram>>

FillEntry_FlagsStay ==
    LET table == filled \div PT_SIZE
        entry == Or(eax, IF table < 3 THEN READ_WRITE_PRESENT ELSE READ_WRITE)
    IN  /\ paging = "filling" /\ filled < 4 * PT_SIZE
        /\ mem' = [mem EXCEPT ![PT(table)][filled % PT_SIZE].low = entry]
        /\ eax' = entry + PAGE_SIZE
        /\ filled' = filled + 1
        /\ UNCHANGED <<paging, ram>>

(* One iteration of .loop_0 to .loop_3.  eax goes on from table to table   *)
(* with the flags of the entry before; they are taken off once.            *)
FillEntry ==
    LET table == filled \div PT_SIZE
        page  == IF filled = 3 * PT_SIZE THEN eax - 3 ELSE eax
        entry == Or(page, IF table < 3 THEN READ_WRITE_PRESENT ELSE READ_WRITE)
    IN  /\ paging = "filling" /\ filled < 4 * PT_SIZE
        /\ mem' = [mem EXCEPT ![PT(table)][filled % PT_SIZE].low = entry]
        /\ eax' = entry + PAGE_SIZE
        /\ filled' = filled + 1
        /\ UNCHANGED <<paging, ram>>

(* PAE, long mode and paging; KernelMain is called.                        *)
activate_paging ==
    /\ paging = "filling" /\ filled = 4 * PT_SIZE
    /\ paging' = "on"
    /\ UNCHANGED <<filled, eax, mem, ram>>

PagingNext ==
    /\ ClearTables \/ LinkTables \/ FillEntry \/ activate_paging
    /\ UNCHANGED loaderVars

-----------------------------------------------------------------------------
(***************************************************************************)
(* What the processor does with the tables, for pages below 1 GB.          *)
(***************************************************************************)
Fault == -1
Present(e) == e.low % 2 = 1
HALF_FRAMES == 1048576            \* pages that the lower half tells apart
Frame(e) == e.high * HALF_FRAMES + e.low \div PAGE_SIZE
IsTable(e) == Present(e) /\ Frame(e) - FIRST_TABLE \in TABLES
TableAt(e) == mem[Frame(e) - FIRST_TABLE]

Entry(v) ==
    LET e4 == mem[PML4][0]
        e3 == TableAt(e4)[0]
        e2 == TableAt(e3)[v \div PT_SIZE]
    IN  IF IsTable(e4) /\ IsTable(e3) /\ IsTable(e2)
        THEN TableAt(e2)[v % PT_SIZE] ELSE [low |-> 0, high |-> 0]

Translate(v) == IF Present(Entry(v)) THEN Frame(Entry(v)) ELSE Fault

-----------------------------------------------------------------------------
(***************************************************************************)
(* Properties.                                                             *)
(***************************************************************************)
Arena == 3 * PT_SIZE .. 4 * PT_SIZE - 1

(* When paging is on, every page below the arena is mapped to itself, and  *)
(* a page of the arena is absent and would be mapped to itself if PageAlloc*)
(* set its bit; nothing behind the arena is mapped.  From the second page  *)
(* table on this takes memory that was zero before, because only four      *)
(* tables are cleared: the first page table is right in any case.          *)
MapsToItself ==
    paging = "on" =>
        \A v \in 0 .. PT_SIZE * PT_SIZE - 1 : ram = 0 \/ v < PT_SIZE =>
            IF v < 3 * PT_SIZE THEN Translate(v) = v
            ELSE /\ Translate(v) = Fault
                 /\ v \in Arena => Entry(v) =
                      [low |-> v * PAGE_SIZE + READ_WRITE, high |-> 0]
=============================================================================
