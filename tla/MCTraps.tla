------------------------------ MODULE MCTraps -------------------------------
EXTENDS Traps

(* Sectors around one, two and nine batches, and sizes with a part of one. *)
MCKernelBytes ==
    {n * SECTOR_SIZE : n \in {1, 55, 56, 69, 70, 71, 80, 139, 140, 141, 210,
                              629, 630, 631}}
      \cup {SECTOR_SIZE + 1, 80 * SECTOR_SIZE + 3, 80 * SECTOR_SIZE + 511}
=============================================================================
