-------------------------------- MODULE Ata ---------------------------------
(***************************************************************************)
(* The disk driver, kernel/ata.c: ide_initialize, which asks the drives of *)
(* the channels to identify themselves, and ide_read_sectors and           *)
(* ide_write_sectors, which move sectors by programmed input and output,   *)
(* polling the status register (PoollingUntilReady) between the steps of a *)
(* drive that works by itself (AtaDrives).                                 *)
(*                                                                         *)
(* PoollingUntilReady has no return statement behind its loop: what it     *)
(* answers when the drive is not busy is undefined, here either answer.    *)
(*                                                                         *)
(* A definition whose name has an underscore and a few words after that of *)
(* another definition is that definition with a plausible mistake: the     *)
(* properties below must reject it.                                        *)
(***************************************************************************)
EXTENDS AtaDrives, Sequences

CONSTANTS
    HeadValues,        \* values of the four bits of HDDEVSEL (16)
    SectorsPerTrack,   \* of the geometry that CHS addresses use (63)
    Heads,             \* heads of that geometry (16)
    Lbas,              \* positions that are asked for
    MaxSectors         \* bound: sectors in one request

LBA28 == ByteValues * ByteValues * ByteValues * HeadValues
UINT == ByteValues * ByteValues * ByteValues * ByteValues

ASSUME AtaAssumption ==
    /\ NChannels \in Nat \ {0} /\ Capacity \in Nat \ {0}
    /\ ByteValues \in Nat \ {0} /\ HeadValues \in Nat \ {0}
    /\ MaxSectors \in 1 .. ByteValues - 1
    /\ Heads \in 1 .. HeadValues /\ SectorsPerTrack \in 1 .. ByteValues - 1
    /\ Capacity < LBA28 /\ LBA28 < UINT
    /\ Lbas \subseteq 0 .. UINT - 1
    /\ NoValue \notin Values

VARIABLES
    selected,      \* the drive selected on each channel
    ide_devices,   \* the drives found
    place,         \* the place being identified, as a number
    pc, after,     \* the next step of the driver, and the one after polling
    polled,        \* the last answer of PoollingUntilReady
    request,       \* arguments of the call; room is bufferSize in sectors
    i,             \* sectors moved so far
    buffer,        \* the caller's buffer, one entry for each sector
    answer         \* how the call ended

found == <<ide_devices, place>>
polling == <<after, polled>>
call == <<request, i, buffer, answer>>
vars == <<drives, selected, found, pc, polling, call>>

ATA_READ == 0
ATA_WRITE == 1

PlaceAt(n) == <<n \div 2, n % 2>>
Device == ide_devices[request.drive + 1]
Target == <<Device.Channel, Device.Drive>>
Polled == <<Device.Channel, selected[Device.Channel]>>

ide_device ==
    [Channel : 0 .. NChannels - 1, Drive : {0, 1}, Type : {IDE_ATA, IDE_ATAPI},
     Size : {0, Capacity}]

AtaTypeOK ==
    /\ DrivesTypeOK(0 .. UINT + ByteValues)
    /\ selected \in [0 .. NChannels - 1 -> {0, 1}]
    /\ ide_devices \in Seq(ide_device) /\ Len(ide_devices) <= 2 * NChannels
    /\ place \in 0 .. 2 * NChannels
    /\ pc \in {"identify", "answered", "reads", "idle", "delay", "test", "status",
               "send", "sector", "transfer", "flush", "end"}
    /\ after \in {"send", "transfer", "end"}
    /\ polled \in BOOLEAN
    /\ i \in 0 .. request.numsects /\ i <= request.room
    /\ DOMAIN buffer = 0 .. request.numsects - 1
    /\ answer \in {"none", "refused", "not ATA", "Polling error", "done"}

(* A drive that does not know LBA has no more sectors than its cylinders,  *)
(* of which two bytes hold the number, reach.                              *)
Init ==
    /\ DrivesInit
    /\ lba_capable \/ Capacity < ByteValues * ByteValues * Heads * SectorsPerTrack
    /\ selected = [c \in 0 .. NChannels - 1 |-> 0]
    /\ ide_devices = <<>> /\ place = 0
    /\ pc = "identify" /\ after = "end" /\ polled = FALSE
    /\ request = [drive |-> 0, direction |-> ATA_READ, lba |-> 0, numsects |-> 0,
                  room |-> 0]
    /\ i = 0 /\ buffer = [k \in {} |-> NoValue] /\ answer = "none"

-----------------------------------------------------------------------------
(***************************************************************************)
(* ide_initialize and ATAIdentify.                                         *)
(***************************************************************************)
SelectDrive(p) == selected' = [selected EXCEPT ![p[1]] = p[2]]

WriteCommand(channel, cmd, addr, left) ==
    /\ drive' = Commanded(<<channel, selected'[channel]>>, cmd, addr, left)
    /\ UNCHANGED <<connected, media, failed>>

ATAIdentify ==
    /\ pc = "identify" /\ pc' = "answered"
    /\ SelectDrive(PlaceAt(place))
    /\ WriteCommand(PlaceAt(place)[1], "IDENTIFY", 0, 0)
    /\ UNCHANGED <<found, polling, call>>

NextPlace ==
    /\ place' = place + 1
    /\ pc' = IF place + 1 = 2 * NChannels THEN "idle" ELSE "identify"

(* After mSleep(10): a drive that is there shows that it is.               *)
FirstStatus ==
    LET p == PlaceAt(place)
    IN  /\ pc = "answered" /\ drive[p].state # "settling"
        /\ IF Status(p) = {} THEN NextPlace ELSE pc' = "reads" /\ UNCHANGED place
        /\ UNCHANGED <<drives, selected, ide_devices, polling, call>>

(* The loops end when the drive is not busy and has data or an error; the  *)
(* test for the error inside the second loop is never true.                *)
Identified_DataOnly(p) == "BSY" \notin Status(p) /\ "DRQ" \in Status(p)

Identified(p) ==
    "BSY" \notin Status(p) /\ Status(p) \cap {"DRQ", "ERR"} # {}

(* CommandSets is read as a WORD, so that its bit 26 is never set and Size *)
(* is that of 28-bit addressing.  Size and capabilities of an ATAPI drive  *)
(* are not used.                                                           *)
DeviceAt(p) ==
    [Channel |-> p[1], Drive |-> p[2], Type |-> kind[p],
     Size |-> IF kind[p] = IDE_ATA THEN Capacity ELSE 0]

IdentificationAwaited ==
    /\ pc = "reads" /\ ~Identified(PlaceAt(place))
    /\ UNCHANGED vars

ReadIdentification ==
    LET p == PlaceAt(place)
    IN  /\ pc = "reads" /\ Identified(p)
        /\ ide_devices' = Append(ide_devices, DeviceAt(p))
        /\ drive' = IF "DRQ" \in Status(p) THEN [drive EXCEPT ![p] = Idle] ELSE drive
        /\ NextPlace
        /\ UNCHANGED <<connected, media, failed, selected, polling, call>>

-----------------------------------------------------------------------------
(***************************************************************************)
(* PoollingUntilReady: four readings of the alternate status, which give   *)
(* the drive time to show that it is busy, and the loop.                   *)
(***************************************************************************)
Poll(next) == pc' = "delay" /\ after' = next

FourReadings_Left == drive

FourReadings == Settled(Polled)

Delay ==
    /\ pc = "delay" /\ pc' = "test"
    /\ drive' = FourReadings
    /\ UNCHANGED <<connected, media, failed, selected, found, polling, call>>

Answers(result) == pc' = after /\ polled' = result

TestBusy ==
    /\ pc = "test"
    /\ \/ "BSY" \in Status(Polled) /\ pc' = "status" /\ UNCHANGED polled
       \/ "BSY" \notin Status(Polled) /\ \E undefined \in BOOLEAN : Answers(undefined)
    /\ UNCHANGED <<drives, selected, found, after, call>>

ReadStatus ==
    LET status == Status(Polled)
    IN  /\ pc = "status"
        /\ IF status \cap {"ERR", "DF"} # {} THEN Answers(FALSE)
           ELSE IF status \cap {"BSY", "DRQ"} = {"DRQ"} THEN Answers(TRUE)
           ELSE pc' = "test" /\ UNCHANGED polled
        /\ UNCHANGED <<drives, selected, found, after, call>>

-----------------------------------------------------------------------------
(***************************************************************************)
(* ide_read_sectors and ide_write_sectors: the checks.                     *)
(***************************************************************************)
BufferTooSmall(numsects, room) == numsects > room

Refused(r) ==
    \/ r.drive >= Len(ide_devices)
    \/ LET d == ide_devices[r.drive + 1]
       IN  r.drive < Len(ide_devices) /\ d.Type = IDE_ATA
           /\ (r.lba + r.numsects) % UINT > d.Size
    \/ BufferTooSmall(r.numsects, r.room)

(* The disk command of the console, on drive 0, with any contents of the   *)
(* buffer and with room for so many sectors.                               *)
Request(direction, lba, numsects, room) ==
    LET r == [drive |-> 0, direction |-> direction, lba |-> lba,
              numsects |-> numsects, room |-> room]
    IN  /\ pc = "idle"
        /\ request' = r /\ i' = 0 /\ failed' = FALSE
        /\ buffer' \in [0 .. numsects - 1 ->
                          IF direction = ATA_WRITE THEN Values ELSE {NoValue}]
        /\ \/ Refused(r) /\ answer' = "refused" /\ UNCHANGED <<pc, after>>
           \/ /\ ~Refused(r) /\ ide_devices[1].Type # IDE_ATA
              /\ answer' = "not ATA" /\ UNCHANGED <<pc, after>>
           \/ /\ ~Refused(r) /\ ide_devices[1].Type = IDE_ATA
              /\ answer' = "none" /\ Poll("send")
        /\ UNCHANGED <<connected, drive, media, selected, found, polled>>

-----------------------------------------------------------------------------
(***************************************************************************)
(* ide_ata_access.  The registers carry the position as LBA48 when it has  *)
(* more than 28 bits, as LBA28 when the drive knows LBA, as cylinder, head *)
(* and sector otherwise; Decoded is the position the drive makes of them.  *)
(***************************************************************************)
SectorOf(lba) == (lba % SectorsPerTrack) + 1

CHS(lba) ==
    LET track == lba + 1 - SectorOf(lba)
    IN  [mode |-> 0, sect |-> SectorOf(lba),
         cyl |-> (track \div (Heads * SectorsPerTrack)) % (ByteValues * ByteValues),
         head |-> (track % (Heads * SectorsPerTrack)) \div SectorsPerTrack]

lba_io(lba) ==
    LET Byte(weight) == (lba \div weight) % ByteValues
        byte == <<Byte(1), Byte(ByteValues), Byte(ByteValues * ByteValues),
                  Byte(ByteValues * ByteValues * ByteValues)>>
    IN  IF lba >= LBA28 THEN [mode |-> 2, byte |-> byte, head |-> 0]
        ELSE IF lba_capable
        THEN [mode |-> 1, byte |-> byte, head |-> byte[4] % HeadValues]
        ELSE CHS(lba)

Decoded(io) ==
    IF io.mode = 0
    THEN (io.cyl * Heads + io.head) * SectorsPerTrack + io.sect - 1
    ELSE io.byte[1] + io.byte[2] * ByteValues
           + io.byte[3] * (ByteValues * ByteValues)
           + (IF io.mode = 2 THEN io.byte[4] ELSE io.head)
               * (ByteValues * ByteValues * ByteValues)

(* A count of 0 means as many sectors as a byte has values.                *)
SendCommand ==
    /\ pc = "send" /\ pc' = "sector"
    /\ SelectDrive(Target)
    /\ WriteCommand(Target[1],
         IF request.direction = ATA_READ THEN "READ_PIO" ELSE "WRITE_PIO",
         Decoded(lba_io(request.lba)),
         IF request.numsects = 0 THEN ByteValues ELSE request.numsects)
    /\ UNCHANGED <<found, polling, call>>

(* The loop over the sectors: poll and move one, or the end.               *)
NextSector ==
    /\ pc = "sector" /\ i < request.numsects
    /\ Poll("transfer")
    /\ UNCHANGED <<drives, selected, found, polled, call>>

(* The locals of the call end with it.                                     *)
Returns(how) ==
    /\ pc' = "idle" /\ answer' = how
    /\ after' = "end" /\ polled' = FALSE
    /\ UNCHANGED <<drives, selected, found, request, i, buffer>>

LastSectorRead ==
    /\ pc = "sector" /\ request.direction = ATA_READ /\ i = request.numsects
    /\ Returns("done")

PollingError ==
    /\ pc = "transfer" /\ request.direction = ATA_READ /\ ~polled
    /\ Returns("Polling error")

ReadInto_FirstSector(k, value) == [buffer EXCEPT ![0] = value]

ReadInto(k, value) == [buffer EXCEPT ![k] = value]

ReadSector ==
    /\ pc = "transfer" /\ request.direction = ATA_READ /\ polled
    /\ buffer' = ReadInto(i, IF HasData(Polled, "READ_PIO")
                             THEN media[Polled][drive[Polled].addr] ELSE NoValue)
    /\ drive' = SectorTaken(Polled)
    /\ i' = i + 1 /\ pc' = "sector"
    /\ UNCHANGED <<connected, media, failed, selected, found, polling, request, answer>>

WriteFrom_FirstSector(k) == buffer[0]

WriteFrom(k) == buffer[k]

WriteSector ==
    /\ pc = "transfer" /\ request.direction = ATA_WRITE
    /\ drive' = SectorGiven(Polled, WriteFrom(i))
    /\ i' = i + 1 /\ pc' = "sector"
    /\ UNCHANGED <<connected, media, failed, selected, found, polling, request, buffer,
                   answer>>

LastSectorWritten ==
    /\ pc = "sector" /\ request.direction = ATA_WRITE /\ i = request.numsects
    /\ pc' = "flush"
    /\ UNCHANGED <<drives, selected, found, polling, call>>

FlushAwaited_Not == pc' = "end" /\ UNCHANGED after

FlushAwaited == Poll("end")

(* CACHE_FLUSH is written at once after the last sector, to a drive that   *)
(* is busy with it.                                                        *)
CacheFlush ==
    /\ pc = "flush" /\ FlushAwaited
    /\ UNCHANGED selected
    /\ WriteCommand(Target[1], "CACHE_FLUSH", 0, 0)
    /\ UNCHANGED <<found, polled, call>>

WriteEnds == pc = "end" /\ Returns("done")

-----------------------------------------------------------------------------
Driver ==
    \/ ATAIdentify \/ FirstStatus \/ IdentificationAwaited \/ ReadIdentification
    \/ Delay \/ TestBusy \/ ReadStatus
    \/ SendCommand \/ NextSector \/ LastSectorRead \/ PollingError \/ ReadSector
    \/ WriteSector \/ LastSectorWritten \/ CacheFlush \/ WriteEnds

DriveSteps(p) ==
    /\ DriveSettles(p) \/ DriveAnswers(p)
    /\ UNCHANGED <<selected, found, pc, polling, call>>

Next ==
    \/ Driver
    \/ \E p \in Places : DriveSteps(p)
    \/ \E direction \in {ATA_READ, ATA_WRITE}, lba \in Lbas,
          numsects \in 0 .. MaxSectors, room \in {0, MaxSectors} :
            Request(direction, lba, numsects, room)

(* The processor goes on, and a drive ends what it was told to do.         *)
Fairness == WF_vars(Driver) /\ \A p \in Places : WF_vars(DriveSteps(p))

Spec == Init /\ [][Next]_vars /\ Fairness

-----------------------------------------------------------------------------
(***************************************************************************)
(* Properties.                                                             *)
(***************************************************************************)

(* ide_initialize finds the drives that are there, in the order of their   *)
(* places and with the place of each: ATAPI drives, which answer IDENTIFY  *)
(* with an error, like the others.  (No run checks it: it is proved.)      *)
DevicesAreDrives ==
    LET earlier == {p \in Places : 2 * p[1] + p[2] < place /\ kind[p] # "none"}
        order(d) == 2 * d.Channel + d.Drive
    IN  /\ {<<ide_devices[k].Channel, ide_devices[k].Drive, ide_devices[k].Type>> :
              k \in DOMAIN ide_devices} = {<<p[1], p[2], kind[p]>> : p \in earlier}
        /\ \A k \in 2 .. Len(ide_devices) :
             order(ide_devices[k - 1]) < order(ide_devices[k])

(* No word is moved through the data port while the drive is busy, or      *)
(* about to show that it is.                                               *)
NoTransferWhileBusy ==
    pc = "transfer" => drive[Polled].state \notin {"settling", "busy"}

(* A read that ends without a polling error, of a drive that had no error, *)
(* has put the sectors asked for into the buffer, whatever earlier calls   *)
(* left the drive in the middle of.                                        *)
ReadDelivers ==
    pc = "idle" /\ answer = "done" /\ request.direction = ATA_READ /\ ~failed =>
        \A k \in 0 .. request.numsects - 1 :
            buffer[k] = media[Target][request.lba + k]

(* When a write comes back from a drive that had no error, the drive has   *)
(* stored every sector, although the answer of PoollingUntilReady is       *)
(* ignored and may be wrong.                                               *)
WriteStores ==
    pc = "idle" /\ answer = "done" /\ request.direction = ATA_WRITE /\ ~failed =>
        \A k \in 0 .. request.numsects - 1 :
            media[Target][request.lba + k] = buffer[k]

(* A sector changes only on the drive and in the range of the write that   *)
(* is going on, and to what the buffer holds for it.                       *)
OnlyAskedIsWritten ==
    [][\A p \in Places, s \in Sectors : media'[p][s] # media[p][s] =>
         /\ pc # "idle" /\ request.direction = ATA_WRITE
         /\ p = Target
         /\ s - request.lba \in 0 .. i - 1
         /\ media'[p][s] = buffer[s - request.lba]]_vars

(* Identification ends, and every call comes back.                         *)
CallsComeBack == (pc # "idle") ~> (pc = "idle")

=============================================================================
