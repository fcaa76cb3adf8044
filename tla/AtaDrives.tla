----------------------------- MODULE AtaDrives ------------------------------
(***************************************************************************)
(* The drives the driver of kernel/ata.c talks to.  They are not code of   *)
(* the kernel: what is here is what that code relies on.  A drive that has *)
(* been given a command, or a sector, shows BSY a moment later, works, and *)
(* then asks for data, is ready, or is in error; it does not listen to a   *)
(* command while it is busy, and a place without a drive reads as 0 (both  *)
(* as in Bochs, on which the kernel is run).                               *)
(***************************************************************************)
EXTENDS Integers

CONSTANTS
    NChannels,     \* channels of the controller (2)
    Capacity,      \* bound: sectors of a drive
    ByteValues,    \* values of a byte (256), the most sectors of one command
    Values,        \* contents of a sector
    NoValue        \* what the data port gives when there is no data

VARIABLES
    kind,          \* what is connected at each place
    lba_capable,   \* the drives know LBA
    drive,         \* what each drive is doing
    media,         \* the sectors of each drive
    failed         \* history: a drive was in error since the call began

connected == <<kind, lba_capable>>
drives == <<connected, drive, media, failed>>

IDE_ATA == "ATA"
IDE_ATAPI == "ATAPI"

Places == (0 .. NChannels - 1) \X {0, 1}
Sectors == 0 .. Capacity - 1

Idle == [state |-> "ready", cmd |-> "NONE", addr |-> 0, left |-> 0, hold |-> NoValue]

DrivesInit ==
    /\ kind \in [Places -> {"none", IDE_ATA, IDE_ATAPI}]
    /\ lba_capable \in BOOLEAN
    /\ drive = [p \in Places |-> Idle]
    /\ \E v \in Values : media = [p \in Places |-> [s \in Sectors |-> v]]
    /\ failed = FALSE

DrivesTypeOK(positions) ==
    /\ kind \in [Places -> {"none", IDE_ATA, IDE_ATAPI}]
    /\ lba_capable \in BOOLEAN
    /\ drive \in [Places ->
         [state : {"ready", "settling", "busy", "data", "error", "fault"},
          cmd : {"NONE", "IDENTIFY", "READ_PIO", "WRITE_PIO", "CACHE_FLUSH"},
          addr : positions, left : 0 .. ByteValues, hold : Values \cup {NoValue}]]
    /\ media \in [Places -> [Sectors -> Values]]
    /\ failed \in BOOLEAN

Status(p) ==
    IF kind[p] = "none" THEN {}
    ELSE CASE drive[p].state = "busy" -> {"BSY"}
           [] drive[p].state = "data" -> {"DRDY", "DRQ"}
           [] drive[p].state = "error" -> {"DRDY", "ERR"}
           [] drive[p].state = "fault" -> {"DRDY", "DF"}
           [] OTHER -> {"DRDY"}

HasData(p, cmd) == drive[p].state = "data" /\ drive[p].cmd = cmd

(* A command for so many sectors from addr on.                             *)
Commanded(p, cmd, addr, left) ==
    IF kind[p] = "none" \/ drive[p].state \in {"settling", "busy"} THEN drive
    ELSE [drive EXCEPT ![p] = [state |-> "settling", cmd |-> cmd, addr |-> addr,
                               left |-> left, hold |-> NoValue]]

(* A sector taken from the data port, and a sector written to it.          *)
SectorTaken(p) ==
    LET d == drive[p]
    IN  IF ~HasData(p, "READ_PIO") THEN drive
        ELSE [drive EXCEPT ![p] =
               IF d.left = 1 THEN Idle
               ELSE [d EXCEPT !.addr = @ + 1, !.left = @ - 1, !.state = "settling"]]

SectorGiven(p, value) ==
    IF ~HasData(p, "WRITE_PIO") THEN drive
    ELSE [drive EXCEPT ![p].hold = value, ![p].state = "settling"]

Settled(p) ==
    IF drive[p].state = "settling" THEN [drive EXCEPT ![p].state = "busy"] ELSE drive

DriveSettles(p) ==
    /\ drive[p].state = "settling"
    /\ drive' = Settled(p)
    /\ UNCHANGED <<connected, media, failed>>

(* The answer to the command, and to each sector that was written.         *)
DriveGoesOn(p) ==
    LET d == drive[p]
        stores == d.hold # NoValue
        next == IF stores THEN d.addr + 1 ELSE d.addr
        left == IF stores THEN d.left - 1 ELSE d.left
        more == d.cmd \in {"READ_PIO", "WRITE_PIO"} /\ left > 0
    IN  /\ d.state = "busy"
        /\ d.cmd = "IDENTIFY" => kind[p] = IDE_ATA
        /\ more => next \in Sectors
        /\ media' = IF stores THEN [media EXCEPT ![p][d.addr] = d.hold] ELSE media
        /\ drive' = [drive EXCEPT ![p] =
             IF more \/ d.cmd = "IDENTIFY"
             THEN [d EXCEPT !.state = "data", !.addr = next, !.left = left,
                            !.hold = NoValue]
             ELSE Idle]
        /\ UNCHANGED <<connected, failed>>

(* An ATAPI drive refuses IDENTIFY; an ATA drive is taken to answer it.    *)
DriveFails(p) ==
    /\ drive[p].state = "busy"
    /\ drive[p].cmd = "IDENTIFY" => kind[p] = IDE_ATAPI
    /\ \E end \in {"error", "fault"} :
         /\ drive[p].cmd = "IDENTIFY" => end = "error"
         /\ drive' = [drive EXCEPT ![p] = [Idle EXCEPT !.state = end]]
    /\ failed' = TRUE
    /\ UNCHANGED <<connected, media>>

DriveAnswers(p) == DriveGoesOn(p) \/ DriveFails(p)
=============================================================================
