------------------------------- MODULE MCAta --------------------------------
(* Model checking of Ata with bytes of four values: positions have eight    *)
(* bits, those of LBA28 seven, and a track has two sectors.                 *)
EXTENDS Ata

(* The end of the first track, from where two sectors reach into the next;  *)
(* the second cylinder, with the last sector of the drive; and the last     *)
(* position an unsigned int has.                                            *)
SomeLbas == {1, 4, UINT - 1}
=============================================================================
