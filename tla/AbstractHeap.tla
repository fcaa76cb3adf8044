---------------------------- MODULE AbstractHeap ----------------------------
(***************************************************************************)
(* What MemBlockAlloc and MemBlockFree of kernel/memory.c promise their    *)
(* caller: a request is given bytes of the arena that nobody has, of the   *)
(* size it asked for; a block that has been given stays what it is until   *)
(* an address inside of it is freed, and freeing an address takes away no  *)
(* other block.  Requests of no bytes have no block here.                  *)
(*                                                                         *)
(* The promise ends when the heap breaks: the code goes on after a request *)
(* for which there was no page, and after stores outside its tables.       *)
(***************************************************************************)
EXTENDS Integers

CONSTANTS Arena, MaxSize

VARIABLES
    blocks,    \* the blocks in use, <<address, size>>
    freeing,   \* the address that MemBlockFree is called with, or None
    broken     \* nothing is promised any more

vars == <<blocks, freeing, broken>>

None == -1

BytesOf(block) == block[1] .. block[1] + block[2] - 1

Init == blocks = {} /\ freeing = None /\ broken = FALSE

Alloc(size) ==
    /\ ~broken /\ freeing = None
    /\ \E address \in Arena :
          LET new == <<address, size>> IN
          /\ BytesOf(new) \subseteq Arena
          /\ \A block \in blocks : BytesOf(new) \cap BytesOf(block) = {}
          /\ blocks' = blocks \cup {new}
    /\ UNCHANGED <<freeing, broken>>

(* A call of MemBlockFree: it may be given any address; a block that the   *)
(* address is inside of goes, and is gone when the call returns.           *)
BeginFree ==
    /\ ~broken /\ freeing = None
    /\ freeing' \in Nat
    /\ UNCHANGED <<blocks, broken>>

Free(block) ==
    /\ ~broken /\ freeing \in BytesOf(block)
    /\ blocks' = blocks \ {block}
    /\ UNCHANGED <<freeing, broken>>

EndFree ==
    /\ ~broken /\ \A block \in blocks : freeing \notin BytesOf(block)
    /\ freeing' = None
    /\ UNCHANGED <<blocks, broken>>

Break ==
    /\ broken' = TRUE
    /\ blocks' = {} /\ freeing' = None

Next ==
    \/ \E size \in 1 .. MaxSize : Alloc(size)
    \/ BeginFree \/ (\E block \in blocks : Free(block)) \/ EndFree
    \/ Break

Spec == Init /\ [][Next]_vars
=============================================================================
