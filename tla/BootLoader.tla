----------------------------- MODULE BootLoader -----------------------------
(***************************************************************************)
(* The way of kernel.exe from the floppy to the address it is linked for:  *)
(* the master boot record (boot/mbr.asm) reads the second stage, which     *)
(* (boot/ssl.asm) reads the size of the kernel, reads the kernel in real   *)
(* mode in batches of READ_BATCH sectors to one 64 KB window after the     *)
(* other, copies the batches in protected mode to KERNEL_ADDRESS, checks   *)
(* the A20 line and jumps into the kernel.  utils/makeFloppy.py lays the   *)
(* floppy out.                                                             *)
(*                                                                         *)
(* Memory is a function from addresses of sectors to the sectors of the    *)
(* floppy (LBA) whose bytes are there.  int 13h is not code of the         *)
(* repository: it may always fail, and it refuses what a BIOS cannot read. *)
(*                                                                         *)
(* A definition whose name has an underscore and a few words after that of *)
(* another definition is that definition with a plausible mistake: the     *)
(* properties below must reject it.                                        *)
(***************************************************************************)
EXTENDS Integers

CONSTANT KernelBytes      \* the sizes of kernel.exe that are tried

ASSUME KernelBytesAssumption == KernelBytes \subseteq Nat \ {0}

VARIABLES
    stage,      \* where the loader is
    bytes,      \* size of kernel.exe
    sectors,    \* the word at KERNEL_SECTORS_ADDR
    count,      \* cx, ecx: batches that are left
    rest,       \* the word on top of the stack: sectors of the last batch
    lba, es, bx,   \* what is read next, and to where
    low,        \* memory below 1 MB, by sectors
    src, dst,   \* ebx, edi
    image,      \* memory from KERNEL_ADDRESS on, by sectors
    a20         \* the A20 line is on

reading == <<lba, es, bx, low>>
copying == <<src, dst, image>>
sizes == <<bytes, sectors, a20>>
loaderVars == <<stage, sizes, count, rest, reading, copying>>

SECTOR_SIZE == 512
READ_BATCH == 70
HPC == 2
SPT == 18
WORD_MODULUS == 65536
WINDOW == 65536                  \* 0x10000
KERNEL_SIZE_ADDRESS == 37376     \* 0x9200
KERNEL_ADDRESS_ES == 4095        \* 0x0fff
KERNEL_ADDRESS_BX == 16          \* 0x10
KERNEL_READ_ADDRESS == 65536     \* 0x10000
KERNEL_ADDRESS == 2097152        \* 0x200000
KERNEL_FIRST_LBA == 10
VIDEO_MEMORY == 655360           \* 0xA0000
BOOT_MAIN_WORD == 49201          \* 0xC031, the code at 0x7C00: xor ax, ax

(* What int 13h and the copy loop must not touch: vectors, stack, loader,  *)
(* and the sector with the size and the number of sectors.                 *)
LOADER_END == KERNEL_SIZE_ADDRESS + SECTOR_SIZE

FLOPPY_SECTORS == 2880
NoSector == -1

LoaderInit ==
    /\ stage = "mbr"
    /\ bytes \in KernelBytes
    /\ sectors = 0 /\ count = 0 /\ rest = BOOT_MAIN_WORD
    /\ lba = 0 /\ es = 0 /\ bx = 0
    /\ low = [a \in {} |-> NoSector]
    /\ src = 0 /\ dst = 0
    /\ image = [i \in {} |-> NoSector]
    /\ a20 \in BOOLEAN

-----------------------------------------------------------------------------
(***************************************************************************)
(* Reading sectors.                                                        *)
(***************************************************************************)
LBA2CHS_HeadAsCommented(sector) ==
    [C |-> sector \div (HPC * SPT),
     H |-> (sector + SPT) % HPC,
     S |-> (sector % SPT) + 1]

LBA2CHS(sector) ==
    [C |-> sector \div (HPC * SPT),
     H |-> (sector \div SPT) % HPC,
     S |-> (sector % SPT) + 1]

(* The sectors of a floppy in the order of makeFloppy's file.              *)
SectorAt(chs) == (chs.C * HPC + chs.H) * SPT + chs.S - 1

(* DMA does not cross a window of 64 KB, and the floppy ends.              *)
int13(chs, n, at) ==
    /\ n > 0
    /\ SectorAt(chs) + n <= FLOPPY_SECTORS
    /\ at \div WINDOW = (at + n * SECTOR_SIZE - 1) \div WINDOW

Overwrite(f, g) ==
    [a \in DOMAIN f \cup DOMAIN g |-> IF a \in DOMAIN g THEN g[a] ELSE f[a]]

(* cli and hlt in mbr.asm and ssl.asm.                                     *)
Failed == /\ stage' = "halted"
          /\ UNCHANGED <<sizes, count, rest, reading, copying>>

(* .readSectors, of the low byte of dx.                                    *)
readSectors(sector, dx, seg, off) ==
    LET n   == dx % 256
        at  == seg * 16 + off
        chs == LBA2CHS(sector)
        new == [a \in {at + i * SECTOR_SIZE : i \in 0 .. n - 1} |->
                  SectorAt(chs) + (a - at) \div SECTOR_SIZE]
    IN  /\ int13(chs, n, at)
        /\ low' = Overwrite(low, new)

(* mbr.asm: nine sectors behind the first one, to 0x7E00.                  *)
BootMain ==
    /\ stage = "mbr" /\ stage' = "size"
    /\ UNCHANGED <<sizes, count, rest, reading, copying>>

-----------------------------------------------------------------------------
(***************************************************************************)
(* The size of the kernel, which makeFloppy writes with its highest byte   *)
(* first and the loader reads with words of the other order.               *)
(***************************************************************************)
BigEndian(n) ==
    LET weight == <<WORD_MODULUS * 256, WORD_MODULUS, 256, 1>>
    IN  [i \in 0 .. 3 |-> (n \div weight[i + 1]) % 256]
Word(b, i) == b[i] + 256 * b[i + 1]
xchg(w) == 256 * (w % 256) + w \div 256

(* .computeKernelSectors, then .readKernelSectors up to the loop.  dx      *)
(* still holds the remainder when dx:ax is divided by READ_BATCH.          *)
readKernelSize ==
    LET field == BigEndian(bytes)
        size  == xchg(Word(field, 0)) * WORD_MODULUS + xchg(Word(field, 2))
        dx    == size % SECTOR_SIZE
        ax    == size \div SECTOR_SIZE + (IF dx # 0 THEN 1 ELSE 0)
        num   == dx * WORD_MODULUS + ax
        exact == num % READ_BATCH = 0
    IN  /\ stage = "size"
        /\ sectors' = ax
        /\ bx' = KERNEL_SIZE_ADDRESS
        /\ IF exact
           THEN /\ count' = num \div READ_BATCH
                /\ lba' = count'
                /\ UNCHANGED <<rest, es>>
           ELSE /\ count' = num \div READ_BATCH + 1
                /\ rest' = num % READ_BATCH
                /\ es' = KERNEL_ADDRESS_ES
                /\ lba' = KERNEL_FIRST_LBA
        /\ stage' = IF num \div READ_BATCH < WORD_MODULUS THEN "read"
                    ELSE "lost"          \* the division overflows
        /\ UNCHANGED <<bytes, a20, low, copying>>

-----------------------------------------------------------------------------
(***************************************************************************)
(* .readLoop and .readLastBatch.  A read over the loader destroys it.      *)
(***************************************************************************)
readLoop ==
    /\ stage = "read" /\ count # 1
    /\ readSectors(lba, READ_BATCH, es, KERNEL_ADDRESS_BX)
    /\ bx' = KERNEL_ADDRESS_BX
    /\ es' = (es + WINDOW \div 16) % WORD_MODULUS
    /\ lba' = lba + READ_BATCH
    /\ count' = count - 1
    /\ stage' = IF es * 16 + bx' < LOADER_END THEN "lost" ELSE "read"
    /\ UNCHANGED <<sizes, rest, copying>>

readLastBatch ==
    /\ stage = "read" /\ count = 1
    /\ readSectors(lba, rest, es, bx)
    /\ stage' = IF es * 16 + bx < LOADER_END THEN "lost" ELSE "protected"
    /\ UNCHANGED <<sizes, count, rest, lba, es, bx, copying>>

ReadFails == /\ stage \in {"mbr", "size", "read"}
             /\ Failed

-----------------------------------------------------------------------------
(***************************************************************************)
(* Protected mode: the copy to KERNEL_ADDRESS, the check of the A20 line.  *)
(* edi is set only when the last batch is not a full one.                  *)
(***************************************************************************)
bits32 ==
    /\ stage = "protected"
    /\ stage' = IF sectors % READ_BATCH = 0 THEN "lost" ELSE "copy"
    /\ count' = sectors \div READ_BATCH + 1
    /\ rest' = sectors % READ_BATCH
    /\ src' = KERNEL_READ_ADDRESS
    /\ dst' = KERNEL_ADDRESS
    /\ UNCHANGED <<sizes, reading, image>>

(* rep movsb                                                               *)
Move(n) ==
    LET first == (dst - KERNEL_ADDRESS) \div SECTOR_SIZE
        At(i) == src + (i - first) * SECTOR_SIZE
    IN  /\ image' = Overwrite(image, [i \in first .. first + n - 1 |->
                        IF At(i) \in DOMAIN low /\ At(i) < VIDEO_MEMORY
                        THEN low[At(i)] ELSE NoSector])
        /\ dst' = dst + n * SECTOR_SIZE

kernelCopyLoop ==
    /\ stage = "copy" /\ count # 1
    /\ Move(READ_BATCH)
    /\ src' = src + WINDOW
    /\ count' = count - 1
    /\ UNCHANGED <<stage, sizes, rest, reading>>

copyLastBatch ==
    /\ stage = "copy" /\ count = 1
    /\ Move(rest)
    /\ stage' = "A20"
    /\ UNCHANGED <<sizes, count, rest, reading, src>>

is_A20_on ==
    /\ stage = "A20"
    /\ stage' = IF a20 THEN "kernel" ELSE "halted"
    /\ UNCHANGED <<sizes, count, rest, reading, copying>>

LoaderNext ==
    \/ BootMain \/ readKernelSize \/ readLoop \/ readLastBatch \/ ReadFails
    \/ bits32 \/ kernelCopyLoop \/ copyLastBatch \/ is_A20_on

-----------------------------------------------------------------------------
(***************************************************************************)
(* Properties.                                                             *)
(***************************************************************************)
Whole == \A i \in 0 .. (bytes - 1) \div SECTOR_SIZE :
             i \in DOMAIN image /\ image[i] = KERNEL_FIRST_LBA + i

(* The sizes that the loader is made for, as its code has it: full sectors,*)
(* more than one batch, no full last batch, and no more windows than there *)
(* are below the video memory.                                             *)
Loads(n) ==
    /\ n % SECTOR_SIZE = 0
    /\ n \div SECTOR_SIZE \in READ_BATCH + 1 .. 9 * READ_BATCH
    /\ (n \div SECTOR_SIZE) % READ_BATCH # 0

(* A kernel of such a size is never read over the loader that reads it,    *)
(* and when ssl.asm jumps to 0x201000, every sector of kernel.exe lies in  *)
(* its place: the conversion to cylinder, head and sector, the windows of  *)
(* the read loop and those of the copy loop agree.                         *)
KernelIsWhole ==
    Loads(bytes) => /\ stage # "lost"
                    /\ stage = "kernel" => Whole

=============================================================================
