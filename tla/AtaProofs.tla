------------------------------ MODULE AtaProofs ------------------------------
(***************************************************************************)
(* Proofs about Ata, for drives, bytes and requests of any size.           *)
(***************************************************************************)
EXTENDS Ata, SequenceTheorems, TLAPS

-----------------------------------------------------------------------------
(***************************************************************************)
(* Positions.                                                              *)
(***************************************************************************)
(* Quotient and remainder are what they are known to be.                   *)
LEMMA Division ==
    ASSUME NEW x \in Nat, NEW d \in Nat \ {0}
    PROVE  \E q \in Nat, r \in Nat :
              q = x \div d /\ r = x % d /\ x = q * d + r /\ r < d
<1>1. PICK q \in Nat : q = x \div d
      OBVIOUS
<1>2. PICK r \in Nat : r = x % d
      OBVIOUS
<1>3. x = q * d + r /\ r < d
      BY <1>1, <1>2
<1> QED BY <1>1, <1>2, <1>3, Zenon

(* There is only one way to divide.                                        *)
LEMMA DivisionIsUnique ==
    ASSUME NEW x \in Nat, NEW d \in Nat \ {0}, NEW q \in Nat, NEW r \in Nat,
           r < d, x = q * d + r
    PROVE  x \div d = q /\ x % d = r
<1>1. PICK q2 \in Nat, r2 \in Nat :
          q2 = x \div d /\ r2 = x % d /\ x = q2 * d + r2 /\ r2 < d
      BY Division, Zenon
<1>2. x = q2 * d + r2 /\ r2 < d
      BY <1>1
<1>3. ASSUME NEW a \in Nat, NEW b \in Nat, NEW k \in Nat, NEW l \in Nat,
             a < b, k < d, a * d + k = b * d + l
      PROVE  FALSE
  <2>1. PICK n \in Nat : b = a + 1 + n
    <3>1. b - a - 1 \in Nat /\ b = a + 1 + (b - a - 1)
          BY <1>3
    <3> QED BY <3>1
  <2>2. b * d = a * d + d + n * d
        BY <2>1
  <2>3. n * d \in Nat
        OBVIOUS
  <2> QED BY <1>3, <2>2, <2>3
<1>4. q2 = q
      BY <1>2, <1>3
<1> QED BY <1>1, <1>2, <1>4

(* The bytes of a position give the position.                              *)
LEMMA BytesOfPosition ==
    ASSUME NEW lba \in Nat, NEW b \in Nat \ {0},
           NEW q \in Nat, q = lba \div (b * b * b)
    PROVE  lba = (lba % b) + ((lba \div b) % b) * b
                  + ((lba \div (b * b)) % b) * (b * b) + q * (b * b * b)
<1>1. PICK q1 \in Nat, r0 \in Nat : lba = q1 * b + r0 /\ r0 < b
      BY Division, Zenon
<1>2. PICK q2 \in Nat, r1 \in Nat : q1 = q2 * b + r1 /\ r1 < b
      BY Division, Zenon
<1>3. PICK q3 \in Nat, r2 \in Nat : q2 = q3 * b + r2 /\ r2 < b
      BY Division, Zenon
<1>4. lba % b = r0 /\ lba \div b = q1
      BY <1>1, DivisionIsUnique
<1>5. (lba \div b) % b = r1
      BY <1>2, <1>4, DivisionIsUnique
<1>6. lba \div (b * b) = q2
  <2>1. PICK s \in Nat : s = r1 * b + r0
        OBVIOUS
  <2>2. PICK bb \in Nat \ {0} : bb = b * b
        OBVIOUS
  <2>3. s < bb
    <3>1. PICK n \in Nat : b = r1 + 1 + n
      <4>1. b - r1 - 1 \in Nat /\ b = r1 + 1 + (b - r1 - 1)
            BY <1>2
      <4> QED BY <4>1
    <3>2. bb = r1 * b + b + n * b /\ n * b \in Nat
          BY <2>2, <3>1
    <3> QED BY <1>1, <2>1, <3>2
  <2>4. lba = q2 * bb + s
        BY <1>1, <1>2, <2>1, <2>2
  <2>5. lba \div bb = q2
        BY <2>3, <2>4, DivisionIsUnique
  <2> QED BY <2>2, <2>5
<1>7. (lba \div (b * b)) % b = r2
      BY <1>3, <1>6, DivisionIsUnique
<1>8. q = q3
  <2>1. PICK bb \in Nat \ {0} : bb = b * b
        OBVIOUS
  <2>2. PICK bbb \in Nat \ {0} : bbb = bb * b
        OBVIOUS
  <2>3. PICK s \in Nat : s = r2 * bb + (r1 * b + r0)
        BY <2>1
  <2>4. s < bbb
    <3>1. PICK n \in Nat : b = r1 + 1 + n
      <4>1. b - r1 - 1 \in Nat /\ b = r1 + 1 + (b - r1 - 1)
            BY <1>2
      <4> QED BY <4>1
    <3>2. bb = r1 * b + b + n * b /\ n * b \in Nat
          BY <2>1, <3>1
    <3>3. PICK low \in Nat : low = r1 * b + r0
          OBVIOUS
    <3>4. low < bb
          BY <1>1, <3>2, <3>3
    <3>5. PICK m \in Nat : b = r2 + 1 + m
      <4>1. b - r2 - 1 \in Nat /\ b = r2 + 1 + (b - r2 - 1)
            BY <1>3
      <4> QED BY <4>1
    <3>6. bbb = r2 * bb + bb + m * bb /\ m * bb \in Nat
          BY <2>2, <3>5
    <3> QED BY <2>3, <3>3, <3>4, <3>6
  <2>5. lba = q3 * bbb + s
    <3>1. q2 * bb = q3 * bbb + r2 * bb
          BY <1>3, <2>2
    <3>2. lba = q2 * bb + r1 * b + r0
          BY <1>1, <1>2, <2>1
    <3> QED BY <2>3, <3>1, <3>2
  <2>6. lba \div bbb = q3
        BY <2>4, <2>5, DivisionIsUnique
  <2> QED BY <2>1, <2>2, <2>6
<1>9. PICK bb \in Nat : bb = b * b
      OBVIOUS
<1>10. PICK bbb \in Nat : bbb = b * b * b
      OBVIOUS
<1>11. lba = r0 + r1 * b + r2 * bb + q3 * bbb
  <2>1. q2 * bb = q3 * bbb + r2 * bb
        BY <1>3, <1>9, <1>10
  <2>2. lba = q2 * bb + r1 * b + r0
        BY <1>1, <1>2, <1>9
  <2> QED BY <2>1, <2>2
<1> QED BY <1>4, <1>5, <1>7, <1>8, <1>9, <1>10, <1>11

(* A drive that gets cylinder, head and sector makes the position of them, *)
(* as long as the cylinder fits its two bytes.                             *)
LEMMA CHSIsPosition ==
    ASSUME NEW lba \in Nat,
           lba < ByteValues * ByteValues * Heads * SectorsPerTrack
    PROVE  Decoded(CHS(lba)) = lba
<1>1. /\ Heads \in Nat \ {0} /\ SectorsPerTrack \in Nat \ {0}
      /\ ByteValues \in Nat \ {0}
      BY AtaAssumption
<1>2. PICK q \in Nat, r \in Nat :
          q = lba \div SectorsPerTrack /\ r = lba % SectorsPerTrack
          /\ lba = q * SectorsPerTrack + r /\ r < SectorsPerTrack
      BY <1>1, Division, Zenon
<1>3. PICK c \in Nat, h \in Nat :
          c = q \div Heads /\ h = q % Heads /\ q = c * Heads + h /\ h < Heads
      BY <1>1, Division, Zenon
<1>4. PICK bb \in Nat \ {0} : bb = ByteValues * ByteValues
      BY <1>1
<1>5. PICK hs \in Nat \ {0} : hs = Heads * SectorsPerTrack
      BY <1>1
<1>6. PICK track \in Nat : track = q * SectorsPerTrack
      BY <1>1
<1>7. PICK rest \in Nat : rest = h * SectorsPerTrack
      BY <1>1
<1>8. lba + 1 - SectorOf(lba) = track /\ SectorOf(lba) = r + 1
      BY <1>1, <1>2, <1>6 DEF SectorOf
<1>9. track = c * hs + rest
      BY <1>1, <1>3, <1>5, <1>6, <1>7
<1>10. rest < hs
  <2>1. PICK n \in Nat : Heads = h + 1 + n
    <3>1. Heads - h - 1 \in Nat /\ Heads = h + 1 + (Heads - h - 1)
          BY <1>1, <1>3
    <3> QED BY <3>1
  <2>2. hs = rest + SectorsPerTrack + n * SectorsPerTrack
        BY <1>1, <1>5, <1>7, <2>1
  <2>3. n * SectorsPerTrack \in Nat
        BY <1>1
  <2> QED BY <1>1, <2>2, <2>3
<1>11. track \div hs = c /\ track % hs = rest
       BY <1>9, <1>10, DivisionIsUnique
<1>12. rest \div SectorsPerTrack = h
  <2>1. rest = h * SectorsPerTrack + 0 /\ 0 < SectorsPerTrack
        BY <1>1, <1>7
  <2> QED BY <1>1, <2>1, DivisionIsUnique
<1>13. c < bb
  <2>1. SUFFICES ASSUME c >= bb PROVE FALSE
        OBVIOUS
  <2>2. PICK n \in Nat : c = bb + n
    <3>1. c - bb \in Nat /\ c = bb + (c - bb)
          BY <2>1
    <3> QED BY <3>1
  <2>3. track = bb * hs + n * hs + rest /\ n * hs \in Nat
        BY <1>9, <2>2
  <2>4. lba < bb * hs
        BY <1>1, <1>4, <1>5
  <2> QED BY <1>2, <1>6, <2>3, <2>4
<1>14. c % bb = c
  <2>1. c = 0 * bb + c
        OBVIOUS
  <2> QED BY <1>13, <2>1, DivisionIsUnique
<1>15. (track \div (Heads * SectorsPerTrack)) % (ByteValues * ByteValues) = c
       BY <1>4, <1>5, <1>11, <1>14
<1>16. (track % (Heads * SectorsPerTrack)) \div SectorsPerTrack = h
       BY <1>5, <1>11, <1>12
<1>17. CHS(lba) = [mode |-> 0, sect |-> r + 1, cyl |-> c, head |-> h]
       BY <1>8, <1>15, <1>16 DEF CHS
<1>18. Decoded(CHS(lba)) = (c * Heads + h) * SectorsPerTrack + (r + 1) - 1
       BY <1>17 DEF Decoded
<1>19. Decoded(CHS(lba)) = q * SectorsPerTrack + (r + 1) - 1
       BY <1>3, <1>18
<1>20. Decoded(CHS(lba)) = track + (r + 1) - 1
       BY <1>6, <1>19
<1>21. lba = track + r
       BY <1>2, <1>6
<1>22. track + (r + 1) - 1 = track + r
       OBVIOUS
<1> QED BY <1>20, <1>21, <1>22

(* So does one that gets the bytes of the position, or its 28 bits.        *)
LEMMA PositionIsKept ==
    ASSUME NEW lba \in 0 .. UINT - 1,
           lba < LBA28 /\ ~lba_capable =>
               lba < ByteValues * ByteValues * Heads * SectorsPerTrack
    PROVE  Decoded(lba_io(lba)) = lba
<1>1. ByteValues \in Nat \ {0} /\ HeadValues \in Nat \ {0} /\ LBA28 < UINT
      BY AtaAssumption
<1>2. PICK b \in Nat \ {0} : b = ByteValues
      BY <1>1
<1>3. PICK bb \in Nat \ {0} : bb = b * b
      OBVIOUS
<1>4. PICK bbb \in Nat \ {0} : bbb = b * b * b
      OBVIOUS
<1>5. LBA28 = bbb * HeadValues /\ UINT = bbb * b
      BY <1>2, <1>4 DEF LBA28, UINT
<1>6. lba \in Nat /\ lba < bbb * b
      BY <1>4, <1>5
<1>7. PICK q \in Nat, low \in Nat :
          q = lba \div bbb /\ low = lba % bbb /\ lba = q * bbb + low /\ low < bbb
      BY <1>6, Division, Zenon
<1>8. lba = (lba % b) + ((lba \div b) % b) * b + ((lba \div bb) % b) * bb + q * bbb
  <2>1. q = lba \div (b * b * b)
        BY <1>4, <1>7
  <2>2. lba = (lba % b) + ((lba \div b) % b) * b
                  + ((lba \div (b * b)) % b) * (b * b) + q * (b * b * b)
        BY <1>6, <2>1, BytesOfPosition, Zenon
  <2> QED BY <1>3, <1>4, <2>2, Zenon
<1>9. ASSUME NEW n \in Nat \ {0}, lba < bbb * n
      PROVE  q < n
  <2>1. SUFFICES ASSUME q >= n PROVE FALSE
        OBVIOUS
  <2>2. PICK k \in Nat : q = n + k
    <3>1. q - n \in Nat /\ q = n + (q - n)
          BY <2>1
    <3> QED BY <3>1
  <2>3. lba = n * bbb + k * bbb + low /\ k * bbb \in Nat
        BY <1>7, <2>2
  <2> QED BY <1>9, <2>3
<1>10. ASSUME NEW n \in Nat \ {0}, q < n
       PROVE  q % n = q
  <2>1. q = 0 * n + q
        OBVIOUS
  <2> QED BY <1>10, <2>1, DivisionIsUnique
<1>11. q % b = q
       BY <1>6, <1>9, <1>10
<1>12. lba \div 1 = lba
  <2>1. lba = lba * 1 + 0
        BY <1>6
  <2> QED BY <1>6, <2>1, DivisionIsUnique
<1>13. PICK byte : byte = <<(lba \div 1) % b, (lba \div b) % b,
                           (lba \div bb) % b, (lba \div bbb) % b>>
       OBVIOUS
<1>14. byte[1] + byte[2] * b + byte[3] * bb + q * bbb = lba /\ byte[4] = q
       BY <1>7, <1>8, <1>11, <1>12, <1>13
<1>15. CASE lba >= LBA28
  <2>1. lba_io(lba) = [mode |-> 2, byte |-> byte, head |-> 0]
        BY <1>2, <1>3, <1>4, <1>13, <1>15 DEF lba_io
  <2>2. Decoded(lba_io(lba)) = byte[1] + byte[2] * b + byte[3] * bb + byte[4] * bbb
        BY <1>2, <1>3, <1>4, <2>1 DEF Decoded
  <2> QED BY <1>14, <2>2
<1>16. CASE ~(lba >= LBA28) /\ lba_capable
  <2>1. q < HeadValues
        BY <1>1, <1>5, <1>6, <1>9, <1>16
  <2>2. q % HeadValues = q
        BY <1>1, <1>10, <2>1
  <2>3. lba_io(lba) = [mode |-> 1, byte |-> byte, head |-> byte[4] % HeadValues]
        BY <1>2, <1>3, <1>4, <1>13, <1>16 DEF lba_io
  <2>4. lba_io(lba) = [mode |-> 1, byte |-> byte, head |-> q]
        BY <1>14, <2>2, <2>3
  <2>5. Decoded(lba_io(lba)) = byte[1] + byte[2] * b + byte[3] * bb + q * bbb
        BY <1>2, <1>3, <1>4, <2>4 DEF Decoded
  <2> QED BY <1>14, <2>5
<1>17. CASE ~(lba >= LBA28) /\ ~lba_capable
  <2>1. lba_io(lba) = CHS(lba)
        BY <1>17 DEF lba_io
  <2>2. lba < LBA28
        BY <1>1, <1>5, <1>6, <1>17
  <2> QED BY <1>6, <1>17, <2>1, <2>2, CHSIsPosition
<1> QED BY <1>15, <1>16, <1>17

-----------------------------------------------------------------------------
(***************************************************************************)
(* The invariant.                                                          *)
(***************************************************************************)
Identifying == pc \in {"identify", "answered", "reads"}
Polling == pc \in {"delay", "test", "status"}

(* The command of the request has been sent and its call goes on.          *)
Sent == \/ pc \in {"sector", "transfer", "flush", "end"}
        \/ Polling /\ after # "send"

Quiet(p) == drive[p].state \notin {"settling", "busy"}

DriveStates ==
    [state : {"ready", "settling", "busy", "data", "error", "fault"},
     cmd : {"NONE", "IDENTIFY", "READ_PIO", "WRITE_PIO", "CACHE_FLUSH"},
     addr : Nat, left : Nat, hold : Values \cup {NoValue}]

Requests ==
    [drive : {0}, direction : {ATA_READ, ATA_WRITE}, lba : 0 .. UINT - 1,
     numsects : 0 .. MaxSectors, room : {0, MaxSectors}]

Typed ==
    /\ kind \in [Places -> {"none", IDE_ATA, IDE_ATAPI}]
    /\ lba_capable \in BOOLEAN
    /\ lba_capable \/ Capacity < ByteValues * ByteValues * Heads * SectorsPerTrack
    /\ drive \in [Places -> DriveStates]
    /\ media \in [Places -> [Sectors -> Values]]
    /\ selected \in [0 .. NChannels - 1 -> {0, 1}]
    /\ place \in 0 .. 2 * NChannels
    /\ pc \in {"identify", "answered", "reads", "idle", "delay", "test", "status",
               "send", "sector", "transfer", "flush", "end"}
    /\ after \in {"send", "transfer", "end"}
    /\ request \in Requests
    /\ i \in Nat
    /\ request.direction = ATA_WRITE =>
          buffer \in [0 .. request.numsects - 1 -> Values]
    /\ DOMAIN buffer = 0 .. request.numsects - 1

(* Where the driver is in the identification, and what it has found.       *)
Order(d) == 2 * d.Channel + d.Drive
Devices ==
    /\ IF Identifying THEN place < 2 * NChannels ELSE place = 2 * NChannels
    /\ pc = "reads" => kind[PlaceAt(place)] # "none"
    /\ ide_devices \in Seq(ide_device)
    /\ \A k \in DOMAIN ide_devices :
          LET d == ide_devices[k]
          IN  kind[<<d.Channel, d.Drive>>] = d.Type /\ d.Type # "none" /\ Order(d) < place
    /\ \A n \in 0 .. place - 1 : kind[PlaceAt(n)] # "none" =>
          \E k \in DOMAIN ide_devices : Order(ide_devices[k]) = n
    /\ \A k \in 2 .. Len(ide_devices) :
          Order(ide_devices[k - 1]) < Order(ide_devices[k])

(* What a drive in the middle of a transfer is doing.                      *)
Transfers ==
    \A p \in Places :
        /\ kind[p] = "none" => drive[p] = Idle
        /\ drive[p].cmd \in {"READ_PIO", "WRITE_PIO"} =>
              /\ drive[p].state \in {"settling", "busy", "data"}
              /\ drive[p].left > 0
              /\ drive[p].state = "data" => drive[p].addr \in Sectors
        /\ drive[p].hold # NoValue =>
              /\ drive[p].cmd = "WRITE_PIO" /\ ~Quiet(p) /\ drive[p].addr \in Sectors
              /\ Sent /\ request.direction = ATA_WRITE /\ i > 0

(* Drives that work while the driver is elsewhere: only the one that is    *)
(* being identified, or that of the request, which is then selected.       *)
Working ==
    /\ Identifying =>
          \A p \in Places : p # PlaceAt(place) \/ pc = "identify" => Quiet(p)
    /\ ~Identifying /\ pc # "idle" =>
          Len(ide_devices) > 0 /\ Device.Type = IDE_ATA
    /\ ~Identifying =>
          \A p \in Places :
             Quiet(p) \/ (Len(ide_devices) > 0 /\ p = Target /\ Polled = Target)
    /\ Sent => Polled = Target
    /\ pc \in {"test", "status"} => drive[Polled].state # "settling"
    /\ pc \in {"send", "transfer", "end"} => Quiet(Polled)

(* Where the call is.                                                      *)
Place ==
    /\ pc # "idle" => answer = "none"
    /\ Sent => i <= request.numsects
    /\ pc = "transfer" \/ (Polling /\ after = "transfer") => i < request.numsects
    /\ pc \in {"flush", "end"} \/ (Polling /\ after = "end") =>
          request.direction = ATA_WRITE /\ i = request.numsects
    /\ pc = "send" \/ (Polling /\ after = "send") =>
          i = 0 /\ ~Refused(request)

(* Sectors the drive has taken from the driver and stored.                 *)
Stored == IF drive[Target].hold = NoValue THEN i ELSE i - 1

Writing ==
    Sent /\ request.direction = ATA_WRITE =>
        LET d == drive[Target] IN
        /\ d.cmd = "WRITE_PIO" => d.addr = request.lba + Stored
        /\ d.hold # NoValue => d.hold = buffer[i - 1]
        /\ ~failed =>
              /\ Stored < request.numsects =>
                    d.cmd = "WRITE_PIO" /\ d.left = request.numsects - Stored
              /\ \A k \in 0 .. Stored - 1 : media[Target][request.lba + k] = buffer[k]

Reading ==
    Sent /\ request.direction = ATA_READ /\ ~failed =>
        LET d == drive[Target] IN
        /\ i < request.numsects =>
              /\ d.cmd = "READ_PIO" /\ d.addr = request.lba + i
              /\ d.left = request.numsects - i
        /\ \A k \in 0 .. i - 1 : buffer[k] = media[Target][request.lba + k]

AInv == /\ Typed /\ Devices /\ Transfers /\ Working /\ Place
        /\ Writing /\ Reading /\ ReadDelivers /\ WriteStores

-----------------------------------------------------------------------------
(***************************************************************************)
(* Places and drives.                                                      *)
(***************************************************************************)
(* The places are counted without a gap.                                   *)
LEMMA PlaceOfNumber ==
    ASSUME NEW n \in 0 .. 2 * NChannels - 1
    PROVE  PlaceAt(n) \in Places /\ 2 * PlaceAt(n)[1] + PlaceAt(n)[2] = n
<1>1. NChannels \in Nat \ {0}
      BY AtaAssumption
<1>2. PICK c \in Nat, d \in Nat : c = n \div 2 /\ d = n % 2 /\ n = c * 2 + d /\ d < 2
  <2>1. n \in Nat /\ 2 \in Nat \ {0}
        BY <1>1
  <2> QED BY <2>1, Division, Zenon
<1>3. c \in 0 .. NChannels - 1 /\ d \in {0, 1} /\ 2 * c + d = n
      BY <1>1, <1>2
<1>4. PlaceAt(n) = <<c, d>>
      BY <1>2 DEF PlaceAt
<1> QED BY <1>3, <1>4 DEF Places

(* And each has its number.                                                *)
LEMMA NumberOfPlace ==
    ASSUME NEW p \in Places
    PROVE  /\ 2 * p[1] + p[2] \in 0 .. 2 * NChannels - 1
           /\ PlaceAt(2 * p[1] + p[2]) = p
<1>1. NChannels \in Nat \ {0}
      BY AtaAssumption
<1>2. PICK c \in 0 .. NChannels - 1, d \in {0, 1} : p = <<c, d>>
      BY DEF Places
<1>3. 2 * c + d \in 0 .. 2 * NChannels - 1
      /\ (2 * c + d) \div 2 = c /\ (2 * c + d) % 2 = d
      BY <1>1
<1> QED BY <1>2, <1>3 DEF PlaceAt

(* The drive of a request is a drive that was found.                       *)
LEMMA TargetIsPlace ==
    ASSUME AInv, Len(ide_devices) > 0
    PROVE  /\ Device = ide_devices[1] /\ Device \in ide_device
           /\ Target \in Places /\ Polled \in Places
           /\ kind[Target] = Device.Type /\ kind[Target] # "none"
<1>1. Device = ide_devices[1] /\ 1 \in DOMAIN ide_devices
  <2>1. request.drive = 0
        BY DEF AInv, Typed, Requests
  <2>2. Len(ide_devices) \in Nat /\ DOMAIN ide_devices = 1 .. Len(ide_devices)
        BY LenProperties DEF AInv, Devices
  <2> QED BY <2>1, <2>2 DEF Device
<1>2. Device \in ide_device
      BY <1>1, ElementOfSeq DEF AInv, Devices
<1>3. Device.Channel \in 0 .. NChannels - 1 /\ Device.Drive \in {0, 1}
      /\ selected[Device.Channel] \in {0, 1}
      BY <1>2 DEF ide_device, AInv, Typed
<1>4. kind[Target] = Device.Type /\ kind[Target] # "none"
      BY <1>1 DEF AInv, Devices, Target
<1> QED BY <1>1, <1>2, <1>3, <1>4 DEF Target, Polled, Places

(* The fields of a drive.                                                  *)
LEMMA DriveFields ==
    ASSUME Typed, NEW p \in Places
    PROVE  /\ drive[p] \in DriveStates
           /\ drive[p].state \in {"ready", "settling", "busy", "data", "error", "fault"}
           /\ drive[p].cmd \in {"NONE", "IDENTIFY", "READ_PIO", "WRITE_PIO",
                                "CACHE_FLUSH"}
           /\ drive[p].addr \in Nat /\ drive[p].left \in Nat
           /\ drive[p].hold \in Values \cup {NoValue}
BY DEF Typed, DriveStates

(* What a drive does after a command, if it hears it.                      *)
LEMMA CommandedDrive ==
    ASSUME Typed, NEW p \in Places,
           NEW cmd \in {"IDENTIFY", "READ_PIO", "WRITE_PIO", "CACHE_FLUSH"},
           NEW addr \in Nat, NEW left \in Nat, NEW new,
           new = [state |-> "settling", cmd |-> cmd, addr |-> addr, left |-> left,
                  hold |-> NoValue]
    PROVE  /\ new \in DriveStates
           /\ kind[p] # "none" /\ Quiet(p) =>
                 Commanded(p, cmd, addr, left) = [drive EXCEPT ![p] = new]
           /\ ~(kind[p] # "none" /\ Quiet(p)) =>
                 Commanded(p, cmd, addr, left) = drive
<1>1. new \in DriveStates
      BY DEF DriveStates
<1> QED BY <1>1 DEF Commanded, Quiet

(* The status of a drive that is quiet, and of one that is not.            *)
LEMMA StatusOfDrive ==
    ASSUME Typed, Transfers, NEW p \in Places
    PROVE  /\ Status(p) = {} <=> kind[p] = "none"
           /\ "BSY" \in Status(p) => drive[p].state = "busy"
           /\ "BSY" \notin Status(p) => drive[p].state # "busy"
           /\ Status(p) \cap {"DRQ", "ERR", "DF"} # {} => Quiet(p)
           /\ "DRQ" \in Status(p) <=> kind[p] # "none" /\ drive[p].state = "data"
<1>1. drive[p].state \in {"ready", "settling", "busy", "data", "error", "fault"}
      BY DriveFields
<1>2. CASE kind[p] = "none"
  <2>1. drive[p].state = "ready"
        BY <1>2 DEF Transfers, Idle
  <2> QED BY <1>2, <2>1 DEF Status, Quiet
<1>3. CASE kind[p] # "none"
      BY <1>1, <1>3 DEF Status, Quiet
<1> QED BY <1>2, <1>3

(* Before anything is found.                                               *)
LEMMA InitAInv == Init => AInv
<1> SUFFICES ASSUME Init PROVE AInv
    OBVIOUS
<1>1. NChannels \in Nat \ {0} /\ ByteValues \in Nat \ {0} /\ UINT > 0
      /\ MaxSectors \in Nat
      BY AtaAssumption DEF UINT
<1>2. Idle \in DriveStates /\ Idle.state = "ready" /\ Idle.hold = NoValue
      /\ Idle.cmd = "NONE"
      BY DEF Idle, DriveStates
<1>3. Typed
  <2>1. request \in Requests
        BY <1>1 DEF Init, Requests, ATA_READ, UINT
  <2>2. media \in [Places -> [Sectors -> Values]]
        BY DEF Init, DrivesInit
  <2>3. drive \in [Places -> DriveStates]
        BY <1>2 DEF Init, DrivesInit
  <2>4. DOMAIN buffer = 0 .. request.numsects - 1
        /\ request.direction # ATA_WRITE
        BY DEF Init, ATA_READ, ATA_WRITE
  <2>5. /\ kind \in [Places -> {"none", IDE_ATA, IDE_ATAPI}]
        /\ lba_capable \in BOOLEAN
        /\ lba_capable \/ Capacity < ByteValues * ByteValues * Heads * SectorsPerTrack
        BY DEF Init, DrivesInit
  <2>6. /\ selected \in [0 .. NChannels - 1 -> {0, 1}]
        /\ place \in 0 .. 2 * NChannels
        /\ pc = "identify" /\ after = "end" /\ i \in Nat
        BY <1>1 DEF Init
  <2> QED BY <2>1, <2>2, <2>3, <2>4, <2>5, <2>6 DEF Typed
<1>4. Devices
      BY <1>1 DEF Init, Devices, Identifying
<1>5. Transfers /\ Working
      BY <1>2 DEF Init, DrivesInit, Transfers, Working, Identifying, Sent, Polling,
                  Quiet
<1>6. Place /\ Writing /\ Reading /\ ReadDelivers /\ WriteStores
      BY DEF Init, Place, Writing, Reading, ReadDelivers, WriteStores, Sent, Polling
<1> QED BY <1>3, <1>4, <1>5, <1>6 DEF AInv

-----------------------------------------------------------------------------
(***************************************************************************)
(* Identification.                                                         *)
(***************************************************************************)
(* A command is sent to the drive at the place, if there is one.           *)
LEMMA ATAIdentifyKeeps == AInv /\ ATAIdentify => AInv'
<1> SUFFICES ASSUME AInv, ATAIdentify PROVE AInv'
    OBVIOUS
<1>1. PICK p \in Places : p = PlaceAt(place)
  <2>1. place \in 0 .. 2 * NChannels - 1
        BY AtaAssumption DEF AInv, Typed, Devices, Identifying, ATAIdentify
  <2> QED BY <2>1, PlaceOfNumber
<1>2. p[1] \in 0 .. NChannels - 1 /\ p[2] \in {0, 1} /\ p = <<p[1], p[2]>>
      BY DEF Places
<1>3. PICK new : new = [state |-> "settling", cmd |-> "IDENTIFY", addr |-> 0,
                        left |-> 0, hold |-> NoValue]
      OBVIOUS
<1>4. /\ pc = "identify" /\ pc' = "answered"
      /\ selected' = [selected EXCEPT ![p[1]] = p[2]]
      /\ drive' = Commanded(<<p[1], selected'[p[1]]>>, "IDENTIFY", 0, 0)
      /\ UNCHANGED <<kind, lba_capable, media, failed, ide_devices, place, after,
                     polled, request, i, buffer, answer>>
      BY <1>1 DEF ATAIdentify, SelectDrive, WriteCommand, connected, found, polling,
                  call
<1>5. selected' \in [0 .. NChannels - 1 -> {0, 1}] /\ selected'[p[1]] = p[2]
      BY <1>2, <1>4 DEF AInv, Typed
<1>6. /\ new \in DriveStates
      /\ drive' = IF kind[p] = "none" THEN drive ELSE [drive EXCEPT ![p] = new]
  <2>1. Quiet(p)
        BY <1>4 DEF AInv, Working, Identifying
  <2>2. drive' = Commanded(p, "IDENTIFY", 0, 0)
        BY <1>2, <1>4, <1>5
  <2>3. Typed
        BY DEF AInv
  <2> QED BY <1>3, <2>1, <2>2, <2>3, CommandedDrive
<1>7. Typed'
      BY <1>4, <1>5, <1>6 DEF AInv, Typed
<1>8. Devices'
      BY <1>4 DEF AInv, Devices, Identifying
<1>9. Transfers'
  <2>1. ASSUME NEW q \in Places
        PROVE  /\ kind[q] = "none" => drive'[q] = Idle
               /\ drive'[q] = drive[q] \/ drive'[q] = new
        BY <1>6 DEF AInv, Typed, Transfers
  <2>2. ~Sent
        BY <1>4 DEF Sent, Polling
  <2> QED BY <1>3, <1>4, <2>1, <2>2 DEF AInv, Transfers, Quiet
<1>10. Working'
  <2>1. ASSUME NEW q \in Places, q # p
        PROVE  drive'[q] = drive[q] /\ Quiet(q)
    <3>1. drive'[q] = drive[q]
          BY <1>6, <2>1 DEF AInv, Typed
    <3>2. Quiet(q)
          BY <1>4 DEF AInv, Working, Identifying
    <3> QED BY <3>1, <3>2
  <2> QED BY <1>1, <1>4, <2>1 DEF Working, Identifying, Sent, Polling, Quiet
<1>11. Place' /\ Writing' /\ Reading'
       BY <1>4 DEF AInv, Place, Writing, Reading, Sent, Polling
<1>12. ReadDelivers' /\ WriteStores'
       BY <1>4 DEF ReadDelivers, WriteStores
<1> QED BY <1>7, <1>8, <1>9, <1>10, <1>11, <1>12 DEF AInv

(* What holds of a place that is left behind, with or without a drive.     *)
LEMMA NextPlaceGoesOn ==
    ASSUME AInv, Identifying, NextPlace
    PROVE  /\ place' = place + 1 /\ place' \in 0 .. 2 * NChannels
           /\ pc' = IF place' = 2 * NChannels THEN "idle" ELSE "identify"
<1>1. place \in 0 .. 2 * NChannels - 1
      BY AtaAssumption DEF AInv, Typed, Devices
<1> QED BY <1>1, AtaAssumption DEF NextPlace

(* A place that shows no status has no drive.                              *)
LEMMA FirstStatusKeeps == AInv /\ FirstStatus => AInv'
<1> SUFFICES ASSUME AInv, FirstStatus PROVE AInv'
    OBVIOUS
<1>1. PICK p \in Places : p = PlaceAt(place)
  <2>1. place \in 0 .. 2 * NChannels - 1
        BY AtaAssumption DEF AInv, Typed, Devices, Identifying, FirstStatus
  <2> QED BY <2>1, PlaceOfNumber
<1>2. /\ pc = "answered" /\ Identifying
      /\ UNCHANGED <<kind, lba_capable, drive, media, failed, selected,
                     ide_devices, after, polled, request, i, buffer, answer>>
      BY DEF FirstStatus, drives, connected, polling, call, Identifying
<1>3. Status(p) = {} <=> kind[p] = "none"
      BY StatusOfDrive DEF AInv
<1>4. CASE kind[p] # "none"
  <2>1. pc' = "reads" /\ place' = place
        BY <1>1, <1>3, <1>4 DEF FirstStatus
  <2>2. Typed'
        BY <1>2, <2>1 DEF AInv, Typed
  <2>3. Devices'
        BY <1>1, <1>2, <1>4, <2>1 DEF AInv, Devices, Identifying
  <2>4. Transfers'
        BY <1>2, <2>1 DEF AInv, Transfers, Sent, Polling, Quiet
  <2>5. Working'
        BY <1>2, <2>1 DEF AInv, Working, Identifying, Sent, Polling, Quiet
  <2>6. Place' /\ Writing' /\ Reading'
        BY <1>2, <2>1 DEF AInv, Place, Writing, Reading, Sent, Polling
  <2>7. ReadDelivers' /\ WriteStores'
        BY <2>1 DEF ReadDelivers, WriteStores
  <2> QED BY <2>2, <2>3, <2>4, <2>5, <2>6, <2>7 DEF AInv
<1>5. CASE kind[p] = "none"
  <2>1. /\ place' = place + 1 /\ place' \in 0 .. 2 * NChannels
        /\ pc' = IF place' = 2 * NChannels THEN "idle" ELSE "identify"
    <3>1. NextPlace
          BY <1>1, <1>3, <1>5 DEF FirstStatus
    <3> QED BY <1>2, <3>1, NextPlaceGoesOn
  <2>2. Typed'
        BY <1>2, <2>1 DEF AInv, Typed
  <2>3. Devices'
    <3>1. ASSUME NEW n \in 0 .. place' - 1, kind[PlaceAt(n)] # "none"
          PROVE  n \in 0 .. place - 1
          BY <1>1, <1>5, <2>1, <3>1 DEF AInv, Typed
    <3>2. ASSUME NEW k \in DOMAIN ide_devices
          PROVE  Order(ide_devices[k]) < place'
      <4>1. ide_devices[k] \in ide_device
            BY ElementOfSeq, LenProperties DEF AInv, Devices
      <4>2. Order(ide_devices[k]) \in Int
        <5>1. PICK d \in ide_device : d = ide_devices[k]
              BY <4>1
        <5>2. d.Channel \in Int /\ d.Drive \in Int
              BY DEF ide_device
        <5>3. Order(d) \in Int
              BY <5>2 DEF Order
        <5> QED BY <5>1, <5>3
      <4>3. Order(ide_devices[k]) < place
            BY DEF AInv, Devices
      <4> QED BY <2>1, <4>2, <4>3 DEF AInv, Typed
    <3>3. IF Identifying' THEN place' < 2 * NChannels ELSE place' = 2 * NChannels
          BY <2>1, AtaAssumption DEF Identifying
    <3> QED BY <1>2, <2>1, <3>1, <3>2, <3>3 DEF AInv, Devices
  <2>4. Transfers'
        BY <1>2, <2>1 DEF AInv, Transfers, Sent, Polling, Quiet
  <2>5. Working'
    <3>1. \A q \in Places : Quiet(q)
      <4>1. Quiet(p)
            BY <1>5 DEF AInv, Transfers, Idle, Quiet
      <4> QED BY <1>1, <1>2, <4>1 DEF AInv, Working
    <3> QED BY <1>2, <2>1, <3>1 DEF Working, Identifying, Sent, Polling, Quiet
  <2>6. Place' /\ Writing' /\ Reading'
        BY <1>2, <2>1 DEF AInv, Place, Writing, Reading, Sent, Polling
  <2>7. ReadDelivers' /\ WriteStores'
        BY <1>2, <2>1 DEF AInv, Place, ReadDelivers, WriteStores
  <2> QED BY <2>2, <2>3, <2>4, <2>5, <2>6, <2>7 DEF AInv
<1> QED BY <1>4, <1>5

(* A drive that is found behind the others.                                *)
LEMMA AppendedDevice ==
    ASSUME AInv, Identifying, NEW p \in Places, p = PlaceAt(place),
           kind[p] # "none", UNCHANGED kind, NextPlace,
           NEW len \in Nat, len = Len(ide_devices),
           NEW new \in ide_device, new = DeviceAt(p),
           ide_devices' \in Seq(ide_device), Len(ide_devices') = len + 1,
           \A k \in 1 .. len : ide_devices'[k] = ide_devices[k],
           ide_devices'[len + 1] = new
    PROVE  Devices'
<1>1. /\ place' = place + 1 /\ place' \in 0 .. 2 * NChannels
      /\ pc' = IF place' = 2 * NChannels THEN "idle" ELSE "identify"
      BY NextPlaceGoesOn
<1>2. p[1] \in 0 .. NChannels - 1 /\ p[2] \in {0, 1} /\ p = <<p[1], p[2]>>
      /\ 2 * p[1] + p[2] = place /\ place \in 0 .. 2 * NChannels - 1
  <2>1. place \in 0 .. 2 * NChannels - 1
        BY AtaAssumption DEF AInv, Typed, Devices
  <2> QED BY <2>1, PlaceOfNumber DEF Places
<1>3. new.Channel = p[1] /\ new.Drive = p[2] /\ new.Type = kind[p]
      BY DEF DeviceAt
<1>4. Order(new) = place /\ <<new.Channel, new.Drive>> = p
      BY <1>2, <1>3 DEF Order
<1>5. ide_devices \in Seq(ide_device)
      BY DEF AInv, Devices
<1>6. /\ ide_devices \in Seq(ide_device) /\ DOMAIN ide_devices = 1 .. len
      /\ DOMAIN ide_devices' = 1 .. len + 1
      /\ \A k \in 1 .. len : ide_devices'[k] = ide_devices[k]
      /\ ide_devices'[len + 1] = new
      BY <1>5, LenProperties
<1>7. ASSUME NEW k \in 1 .. len
      PROVE  /\ Order(ide_devices[k]) \in Int /\ Order(ide_devices[k]) < place
             /\ kind[<<ide_devices[k].Channel, ide_devices[k].Drive>>]
                   = ide_devices[k].Type
             /\ ide_devices[k].Type # "none"
  <2>1. PICK d \in ide_device : d = ide_devices[k]
        BY <1>6, ElementOfSeq
  <2>2. d.Channel \in Int /\ d.Drive \in Int
        BY DEF ide_device
  <2>3. Order(d) \in Int
        BY <2>2 DEF Order
  <2> QED BY <1>6, <2>1, <2>3 DEF AInv, Devices
<1>8. IF Identifying' THEN place' < 2 * NChannels ELSE place' = 2 * NChannels
      BY <1>1, AtaAssumption DEF Identifying
<1>9. ASSUME NEW k \in 1 .. len + 1
       PROVE  /\ kind[<<ide_devices'[k].Channel, ide_devices'[k].Drive>>]
                    = ide_devices'[k].Type
              /\ ide_devices'[k].Type # "none" /\ Order(ide_devices'[k]) < place'
  <2>1. CASE k \in 1 .. len
    <3>1. PICK d : d = ide_devices[k]
          OBVIOUS
    <3>2. d = ide_devices'[k]
          BY <1>6, <2>1, <3>1
    <3>3. /\ kind[<<d.Channel, d.Drive>>] = d.Type /\ d.Type # "none"
          /\ Order(d) \in Int /\ Order(d) < place
          BY <1>7, <2>1, <3>1
    <3>4. Order(d) < place'
          BY <1>1, <1>2, <3>3
    <3> QED BY <3>2, <3>3, <3>4
  <2>2. CASE k = len + 1
    <3>1. new = ide_devices'[k]
          BY <1>6, <2>2
    <3>2. kind[<<new.Channel, new.Drive>>] = new.Type /\ new.Type # "none"
          BY <1>3, <1>4
    <3>3. Order(new) \in Int /\ Order(new) < place'
          BY <1>1, <1>2, <1>4
    <3> QED BY <3>1, <3>2, <3>3
  <2> QED BY <2>1, <2>2
<1>10. ASSUME NEW n \in 0 .. place' - 1, kind[PlaceAt(n)] # "none"
       PROVE  \E k \in 1 .. len + 1 : Order(ide_devices'[k]) = n
  <2>1. CASE n = place
        BY <1>4, <1>6, <2>1
  <2>2. CASE n # place
    <3>1. n \in 0 .. place - 1
          BY <1>1, <1>2, <2>2
    <3>2. PICK k \in 1 .. len : Order(ide_devices[k]) = n
          BY <1>6, <1>10, <3>1 DEF AInv, Devices
    <3> QED BY <1>6, <3>2
  <2> QED BY <2>1, <2>2
<1>11. ASSUME NEW k \in 2 .. len + 1
       PROVE  Order(ide_devices'[k - 1]) < Order(ide_devices'[k])
  <2>1. CASE k \in 2 .. len
    <3>1. Order(ide_devices[k - 1]) < Order(ide_devices[k])
          BY <2>1 DEF AInv, Devices
    <3>2. k - 1 \in 1 .. len /\ k \in 1 .. len
          BY <2>1
    <3> QED BY <1>6, <3>1, <3>2
  <2>2. CASE k = len + 1
    <3>1. k - 1 \in 1 .. len /\ k - 1 = len
          BY <2>2
    <3>2. PICK d : d = ide_devices[len]
          OBVIOUS
    <3>3. Order(d) \in Int /\ Order(d) < place /\ len \in 1 .. len
          BY <1>7, <3>1, <3>2
    <3>4. d = ide_devices'[k - 1]
          BY <1>6, <3>1, <3>2, <3>3
    <3>5. new = ide_devices'[k]
          BY <1>6, <2>2
    <3>6. Order(d) \in Int /\ Order(new) \in Int /\ Order(d) < Order(new)
          BY <1>2, <1>4, <3>3
    <3> QED BY <3>4, <3>5, <3>6
  <2> QED BY <2>1, <2>2
<1>12. pc' # "reads"
       BY <1>1
<1> QED BY <1>6, <1>8, <1>9, <1>10, <1>11, <1>12 DEF Devices

(* The identification of a drive is read.                                  *)
LEMMA ReadIdentificationKeeps == AInv /\ ReadIdentification => AInv'
<1> SUFFICES ASSUME AInv, ReadIdentification PROVE AInv'
    OBVIOUS
<1>1. PICK p \in Places : p = PlaceAt(place)
  <2>1. place \in 0 .. 2 * NChannels - 1
        BY AtaAssumption DEF AInv, Typed, Devices, Identifying, ReadIdentification
  <2> QED BY <2>1, PlaceOfNumber
<1>2. /\ pc = "reads" /\ Identifying /\ NextPlace /\ kind[p] # "none"
      /\ UNCHANGED <<kind, lba_capable, media, failed, selected, after, polled,
                     request, i, buffer, answer>>
      /\ ide_devices' = Append(ide_devices, DeviceAt(p))
      BY <1>1 DEF ReadIdentification, connected, polling, call, Identifying, AInv,
                  Devices
<1>3. Devices'
  <2>1. ide_devices \in Seq(ide_device)
        BY DEF AInv, Devices
  <2>2. PICK len \in Nat : len = Len(ide_devices)
        BY <2>1, LenProperties
  <2>3. PICK new : new = DeviceAt(p)
        OBVIOUS
  <2>4. new \in ide_device
    <3>1. kind[p] \in {IDE_ATA, IDE_ATAPI}
          BY <1>2 DEF AInv, Typed
    <3>2. p[1] \in 0 .. NChannels - 1 /\ p[2] \in {0, 1}
          BY DEF Places
    <3> QED BY <2>3, <3>1, <3>2 DEF DeviceAt, ide_device
  <2>5. /\ ide_devices' \in Seq(ide_device) /\ Len(ide_devices') = len + 1
        /\ \A k \in 1 .. len : ide_devices'[k] = ide_devices[k]
        /\ ide_devices'[len + 1] = new
        BY <1>2, <2>1, <2>2, <2>3, <2>4, AppendProperties
  <2> QED BY <1>1, <1>2, <2>2, <2>3, <2>4, <2>5, AppendedDevice
<1>4. /\ place' = place + 1 /\ place' \in 0 .. 2 * NChannels
      /\ pc' = IF place' = 2 * NChannels THEN "idle" ELSE "identify"
      BY <1>2, NextPlaceGoesOn
<1>5. Quiet(p)
  <2>1. Status(p) \cap {"DRQ", "ERR", "DF"} # {}
        BY <1>1 DEF ReadIdentification, Identified
  <2> QED BY <2>1, StatusOfDrive DEF AInv
<1>6. /\ Idle \in DriveStates /\ Idle.state = "ready" /\ Idle.cmd = "NONE"
      /\ Idle.hold = NoValue
      BY DEF Idle, DriveStates
<1>7. drive' = drive \/ drive' = [drive EXCEPT ![p] = Idle]
      BY <1>1 DEF ReadIdentification
<1>8. ASSUME NEW q \in Places
      PROVE  drive'[q] = drive[q] \/ (q = p /\ drive'[q] = Idle)
      BY <1>7 DEF AInv, Typed
<1>9. Typed'
  <2>1. drive' \in [Places -> DriveStates]
        BY <1>6, <1>7 DEF AInv, Typed
  <2> QED BY <1>2, <1>4, <2>1 DEF AInv, Typed
<1>10. Transfers'
  <2>1. ~Sent
        BY <1>2 DEF Sent, Polling
  <2> QED BY <1>2, <1>6, <1>8, <2>1 DEF AInv, Transfers, Quiet
<1>11. Working'
  <2>1. ASSUME NEW q \in Places PROVE Quiet(q)'
    <3>1. Quiet(q)
          BY <1>1, <1>2, <1>5 DEF AInv, Working
    <3> QED BY <1>6, <1>8, <3>1 DEF Quiet
  <2> QED BY <1>4, <2>1 DEF Working, Identifying, Sent, Polling
<1>12. Place' /\ Writing' /\ Reading'
       BY <1>2, <1>4 DEF AInv, Place, Writing, Reading, Sent, Polling
<1>13. ReadDelivers' /\ WriteStores'
       BY <1>2, <1>4 DEF AInv, Place, ReadDelivers, WriteStores
<1> QED BY <1>3, <1>9, <1>10, <1>11, <1>12, <1>13 DEF AInv

-----------------------------------------------------------------------------
(***************************************************************************)
(* Steps that only go on in the call.                                      *)
(***************************************************************************)
(* The drives, the request and the buffer stay: what has to be shown is    *)
(* where the call goes.                                                    *)
LEMMA CallGoesOn ==
    ASSUME AInv, ~Identifying, ~Identifying',
           UNCHANGED <<drives, selected, found, request, i, buffer>>,
           pc' \in {"idle", "delay", "test", "status", "send", "sector", "transfer",
                   "flush", "end"},
           after' \in {"send", "transfer", "end"},
           Sent' => Sent,
           \A p \in Places : drive[p].hold # NoValue => Sent',
           pc' # "idle" => pc # "idle",
           pc' \in {"test", "status"} => drive[Polled].state # "settling",
           pc' \in {"send", "transfer", "end"} => Quiet(Polled),
           Place', ReadDelivers', WriteStores'
    PROVE  AInv'
<1>1. /\ UNCHANGED <<kind, lba_capable, drive, media, failed, selected,
                     ide_devices, place, request, i, buffer>>
      BY DEF drives, connected, found
<1>2. Typed'
      BY <1>1 DEF AInv, Typed
<1>3. Devices'
  <2>1. pc' # "reads"
        BY DEF Identifying
  <2> QED BY <1>1, <2>1 DEF AInv, Devices
<1>4. Transfers'
      BY <1>1 DEF AInv, Transfers, Quiet
<1>5. Device' = Device /\ Target' = Target /\ Polled' = Polled /\ Stored' = Stored
      BY <1>1 DEF Device, Target, Polled, Stored
<1>6. Working'
      BY <1>1, <1>5 DEF AInv, Working, Quiet
<1>7. Writing' /\ Reading'
      BY <1>1, <1>5 DEF AInv, Writing, Reading
<1> QED BY <1>2, <1>3, <1>4, <1>6, <1>7 DEF AInv

(* In a call there is a drive, and it is the one that is polled.           *)
LEMMA CallHasDrive ==
    ASSUME AInv, ~Identifying, pc # "idle"
    PROVE  /\ Len(ide_devices) > 0 /\ Device.Type = IDE_ATA
           /\ Target \in Places /\ Polled \in Places
           /\ kind[Target] = IDE_ATA
           /\ \A p \in Places : ~Quiet(p) => p = Target /\ Polled = Target
<1>1. /\ Len(ide_devices) > 0 /\ Device.Type = IDE_ATA
      /\ \A p \in Places : ~Quiet(p) => p = Target /\ Polled = Target
      BY DEF AInv, Working
<1> QED BY <1>1, TargetIsPlace

(* When nothing works on, nothing is held back.                            *)
LEMMA QuietHoldsNothing ==
    ASSUME AInv, ~Identifying, pc # "idle", Quiet(Polled), NEW p \in Places
    PROVE  Quiet(p) /\ drive[p].hold = NoValue
<1>1. Quiet(p)
      BY CallHasDrive
<1> QED BY <1>1 DEF AInv, Transfers

(* After four readings the drive shows that it is busy, if it is.          *)
LEMMA DelayKeeps == AInv /\ Delay => AInv'
<1> SUFFICES ASSUME AInv, Delay PROVE AInv'
    OBVIOUS
<1>1. PICK p \in Places : p = Polled
      BY CallHasDrive DEF Delay, Identifying
<1>2. PICK new : new = [drive[p] EXCEPT !.state = "busy"]
      OBVIOUS
<1>3. /\ pc = "delay" /\ pc' = "test"
      /\ UNCHANGED <<kind, lba_capable, media, failed, selected, ide_devices,
                     place, after, polled, request, i, buffer, answer>>
      /\ drive' = IF drive[p].state = "settling" THEN [drive EXCEPT ![p] = new]
                  ELSE drive
      BY <1>1, <1>2 DEF Delay, FourReadings, Settled, connected, found, polling, call,
                        AInv, Typed
<1>4. /\ new \in DriveStates /\ new.state = "busy" /\ new.cmd = drive[p].cmd
      /\ new.addr = drive[p].addr /\ new.left = drive[p].left
      /\ new.hold = drive[p].hold
      BY <1>2 DEF AInv, Typed, DriveStates
<1>5. drive' \in [Places -> DriveStates]
      BY <1>3, <1>4 DEF AInv, Typed
<1>6. ASSUME NEW q \in Places
      PROVE  /\ drive'[q].cmd = drive[q].cmd /\ drive'[q].addr = drive[q].addr
             /\ drive'[q].left = drive[q].left /\ drive'[q].hold = drive[q].hold
             /\ \/ drive'[q].state = drive[q].state
                   /\ (q = p => drive[q].state # "settling")
                \/ drive[q].state = "settling" /\ drive'[q].state = "busy"
      BY <1>3, <1>4 DEF AInv, Typed
<1>7. Device' = Device /\ Target' = Target /\ Polled' = Polled
      BY <1>3 DEF Device, Target, Polled
<1>8. Target \in Places /\ Stored' = Stored
      BY <1>3, <1>6, <1>7, CallHasDrive DEF Identifying, Stored
<1>9. Typed' /\ Devices'
      BY <1>3, <1>5 DEF AInv, Typed, Devices, Identifying
<1>10. Sent' <=> Sent
       BY <1>3 DEF Sent, Polling
<1>11. Transfers'
  <2>1. ASSUME NEW q \in Places, kind[q] = "none" PROVE drive'[q] = Idle
        BY <1>3, <2>1 DEF AInv, Typed, Transfers, Idle
  <2> QED BY <1>3, <1>6, <1>10, <2>1 DEF AInv, Transfers, Quiet
<1>12. Working'
       BY <1>1, <1>3, <1>6, <1>7, <1>10
          DEF AInv, Working, Identifying, Quiet, Sent, Polling
<1>13. Place'
       BY <1>3, <1>10 DEF AInv, Place, Polling, Refused, BufferTooSmall
<1>14. Writing' /\ Reading'
       BY <1>3, <1>6, <1>7, <1>8, <1>10 DEF AInv, Writing, Reading
<1>15. ReadDelivers' /\ WriteStores'
       BY <1>3 DEF ReadDelivers, WriteStores
<1> QED BY <1>9, <1>11, <1>12, <1>13, <1>14, <1>15 DEF AInv

(* An answer of the polling is given when the drive is quiet.              *)
LEMMA PollingKeeps == AInv /\ (TestBusy \/ ReadStatus) => AInv'
<1> SUFFICES ASSUME AInv, TestBusy \/ ReadStatus PROVE AInv'
    OBVIOUS
<1>1. /\ pc \in {"test", "status"} /\ ~Identifying
      /\ after \in {"send", "transfer", "end"}
      /\ UNCHANGED <<drives, selected, found, after, request, i, buffer, answer>>
      BY DEF TestBusy, ReadStatus, Identifying, call, AInv, Typed, found
<1>2. Polled \in Places /\ drive[Polled].state # "settling"
      BY <1>1, CallHasDrive DEF AInv, Working
<1>3. pc' \in {"test", "status"} \/ (pc' = after /\ Quiet(Polled))
  <2>1. CASE TestBusy
    <3>1. "BSY" \notin Status(Polled) => drive[Polled].state # "busy"
          BY <1>2, StatusOfDrive DEF AInv
    <3> QED BY <1>2, <2>1, <3>1 DEF TestBusy, Answers, Quiet
  <2>2. CASE ReadStatus
    <3>1. Status(Polled) \cap {"DRQ", "ERR", "DF"} # {} => Quiet(Polled)
          BY <1>2, StatusOfDrive DEF AInv
    <3>2. /\ Status(Polled) \cap {"ERR", "DF"} # {} =>
                Status(Polled) \cap {"DRQ", "ERR", "DF"} # {}
          /\ Status(Polled) \cap {"BSY", "DRQ"} = {"DRQ"} =>
                Status(Polled) \cap {"DRQ", "ERR", "DF"} # {}
          OBVIOUS
    <3> QED BY <2>2, <3>1, <3>2 DEF ReadStatus, Answers
  <2> QED BY <2>1, <2>2
<1>4. Sent' <=> Sent
      BY <1>1, <1>3 DEF Sent, Polling
<1>5. \A p \in Places : drive[p].hold # NoValue => Sent'
      BY <1>4 DEF AInv, Transfers
<1>6. ide_devices' = ide_devices /\ request' = request /\ failed' = failed
      BY <1>1 DEF drives, found
<1>7. Place'
      BY <1>1, <1>3, <1>4, <1>6 DEF AInv, Place, Polling, Refused, BufferTooSmall
<1>8. ReadDelivers' /\ WriteStores'
      BY <1>1, <1>3 DEF ReadDelivers, WriteStores
<1>9. ~Identifying' /\ pc' # "idle"
      BY <1>1, <1>3 DEF Identifying
<1> QED BY <1>1, <1>2, <1>3, <1>4, <1>5, <1>7, <1>8, <1>9, CallGoesOn

(* The loop goes on, or the last sector has been written.                  *)
LEMMA LoopKeeps == AInv /\ (NextSector \/ LastSectorWritten) => AInv'
<1> SUFFICES ASSUME AInv, NextSector \/ LastSectorWritten PROVE AInv'
    OBVIOUS
<1>1. /\ pc = "sector" /\ ~Identifying /\ Sent
      /\ UNCHANGED <<drives, selected, found, request, i, buffer, answer>>
      /\ after' \in {"send", "transfer", "end"}
      /\ \/ i < request.numsects /\ pc' = "delay" /\ after' = "transfer"
         \/ /\ request.direction = ATA_WRITE /\ i = request.numsects
            /\ pc' = "flush"
      BY DEF NextSector, LastSectorWritten, Poll, Identifying, Sent, call, polling,
             AInv, Typed
<1>2. Sent' /\ ~Identifying'
      BY <1>1 DEF Sent, Polling, Identifying
<1>3. ide_devices' = ide_devices
      BY <1>1 DEF found
<1>4. Place'
      BY <1>1, <1>2, <1>3 DEF AInv, Place, Polling
<1>5. ReadDelivers' /\ WriteStores'
      BY <1>1 DEF ReadDelivers, WriteStores
<1> QED BY <1>1, <1>2, <1>4, <1>5, CallGoesOn

(* What is read is in the buffer, and what is written is on the drive, when*)
(* the call returns.                                                       *)
LEMMA ReturnKeeps == AInv /\ (LastSectorRead \/ PollingError \/ WriteEnds) => AInv'
<1> SUFFICES ASSUME AInv, LastSectorRead \/ PollingError \/ WriteEnds PROVE AInv'
    OBVIOUS
<1>1. /\ pc \in {"sector", "transfer", "end"} /\ ~Identifying /\ Sent
      /\ UNCHANGED <<drives, selected, found, request, i, buffer>>
      /\ pc' = "idle" /\ after' = "end"
      /\ LastSectorRead \/ WriteEnds \/ answer' = "Polling error"
      BY DEF LastSectorRead, PollingError, WriteEnds, Returns, Identifying, Sent
<1>2. /\ Target \in Places /\ Polled = Target
      /\ UNCHANGED <<drive, media, failed>> /\ Target' = Target
      BY <1>1, CallHasDrive DEF AInv, Working, drives, found, Target, Device
<1>3. \A p \in Places : drive[p].hold = NoValue
  <2>1. CASE request.direction = ATA_READ
        BY <2>1 DEF AInv, Transfers, ATA_READ, ATA_WRITE
  <2>2. CASE request.direction # ATA_READ
    <3>1. pc = "end"
          BY <2>2 DEF LastSectorRead, PollingError, WriteEnds
    <3>2. Quiet(Polled)
          BY <3>1 DEF AInv, Working
    <3> QED BY <1>1, <3>1, <3>2, QuietHoldsNothing
  <2> QED BY <2>1, <2>2
<1>4. Place'
      BY <1>1, <1>2 DEF AInv, Place, Sent, Polling
<1>5. ReadDelivers'
  <2>1. SUFFICES ASSUME LastSectorRead, ~failed PROVE ReadDelivers'
    <3>1. CASE WriteEnds
      <4>1. request.direction = ATA_WRITE
            BY <3>1 DEF WriteEnds, AInv, Place
      <4> QED BY <1>1, <4>1 DEF ReadDelivers, ATA_READ, ATA_WRITE
    <3>2. CASE answer' = "Polling error"
          BY <3>2 DEF ReadDelivers
    <3>3. CASE failed
          BY <1>2, <3>3 DEF ReadDelivers
    <3> QED BY <1>1, <3>1, <3>2, <3>3
  <2>2. request.direction = ATA_READ /\ i = request.numsects
        BY <2>1 DEF LastSectorRead
  <2>3. \A k \in 0 .. request.numsects - 1 :
            buffer[k] = media[Target][request.lba + k]
        BY <1>1, <2>1, <2>2 DEF AInv, Reading
  <2> QED BY <1>1, <1>2, <2>3 DEF ReadDelivers
<1>6. WriteStores'
  <2>1. SUFFICES ASSUME WriteEnds, ~failed PROVE WriteStores'
    <3>1. CASE LastSectorRead
          BY <1>1, <3>1 DEF LastSectorRead, WriteStores, ATA_READ, ATA_WRITE
    <3>2. CASE answer' = "Polling error"
          BY <3>2 DEF WriteStores
    <3>3. CASE failed
          BY <1>2, <3>3 DEF WriteStores
    <3> QED BY <1>1, <3>1, <3>2, <3>3
  <2>2. request.direction = ATA_WRITE /\ i = request.numsects
        BY <2>1 DEF WriteEnds, AInv, Place
  <2>3. Stored = request.numsects
        BY <1>2, <1>3, <2>2 DEF Stored
  <2>4. \A k \in 0 .. request.numsects - 1 :
            media[Target][request.lba + k] = buffer[k]
        BY <1>1, <2>1, <2>2, <2>3 DEF AInv, Writing
  <2> QED BY <1>1, <1>2, <2>4 DEF WriteStores
<1>7. ~Sent' /\ ~Identifying'
      BY <1>1 DEF Sent, Polling, Identifying
<1> QED BY <1>1, <1>3, <1>4, <1>5, <1>6, <1>7, CallGoesOn

-----------------------------------------------------------------------------
(***************************************************************************)
(* The request.                                                            *)
(***************************************************************************)
(* A request is refused, or is for the first drive that was found.         *)
LEMMA RequestKeeps ==
    ASSUME AInv, NEW direction \in {ATA_READ, ATA_WRITE}, NEW lba \in Lbas,
           NEW numsects \in 0 .. MaxSectors, NEW room \in {0, MaxSectors},
           Request(direction, lba, numsects, room)
    PROVE  AInv'
<1>1. PICK r : r = [drive |-> 0, direction |-> direction, lba |-> lba,
                    numsects |-> numsects, room |-> room]
      OBVIOUS
<1>2. r \in Requests /\ r.drive = 0 /\ r.direction = direction
      /\ r.numsects = numsects
  <2>1. lba \in 0 .. UINT - 1
        BY AtaAssumption
  <2> QED BY <1>1, <2>1 DEF Requests
<1>3. /\ pc = "idle" /\ request' = r /\ i' = 0 /\ failed' = FALSE
      /\ buffer' \in [0 .. numsects - 1 ->
                        IF direction = ATA_WRITE THEN Values ELSE {NoValue}]
      /\ UNCHANGED <<kind, lba_capable, drive, media, selected, ide_devices, place,
                     polled>>
      /\ \/ pc' = "idle" /\ answer' \in {"refused", "not ATA"} /\ after' = after
         \/ /\ pc' = "delay" /\ after' = "send" /\ answer' = "none"
            /\ ~Refused(r) /\ ide_devices[1].Type = IDE_ATA
      BY <1>1 DEF Request, Poll, connected, found
<1>4. Typed'
  <2>1. /\ DOMAIN buffer' = 0 .. request'.numsects - 1
        /\ request'.direction = ATA_WRITE =>
              buffer' \in [0 .. request'.numsects - 1 -> Values]
        BY <1>2, <1>3
  <2>2. pc' \in {"idle", "delay"} /\ after' \in {"send", "transfer", "end"}
        BY <1>3 DEF AInv, Typed
  <2> QED BY <1>2, <1>3, <2>1, <2>2 DEF AInv, Typed
<1>5. ~Identifying /\ ~Identifying' /\ ~Sent /\ ~Sent'
      BY <1>3 DEF Identifying, Sent, Polling
<1>6. Devices'
      BY <1>3, <1>5 DEF AInv, Devices
<1>7. Transfers'
      BY <1>3, <1>5 DEF AInv, Transfers, Quiet
<1>8. Device' = Device /\ Target' = Target /\ Polled' = Polled
      /\ Device = ide_devices[1]
  <2>1. request.drive = 0
        BY DEF AInv, Typed, Requests
  <2>2. Device = ide_devices[1]
        BY <2>1 DEF Device
  <2>3. request'.drive = 0
        BY <1>2, <1>3
  <2>4. Device' = ide_devices'[1]
        BY <2>3 DEF Device
  <2> QED BY <1>3, <2>2, <2>4 DEF Target, Polled
<1>9. pc' = "delay" => Len(ide_devices) > 0
  <2>1. Len(ide_devices) \in Nat
        BY LenProperties DEF AInv, Devices
  <2>2. ~Refused(r) => ~(0 >= Len(ide_devices))
        BY <1>2 DEF Refused
  <2> QED BY <1>3, <2>1, <2>2
<1>10. Working'
       BY <1>3, <1>5, <1>8, <1>9 DEF AInv, Working, Quiet
<1>11. Place'
       BY <1>3, <1>5 DEF Place, Polling, Refused, BufferTooSmall
<1>12. Writing' /\ Reading'
       BY <1>5 DEF Writing, Reading
<1>13. ReadDelivers' /\ WriteStores'
       BY <1>3 DEF ReadDelivers, WriteStores
<1> QED BY <1>4, <1>6, <1>7, <1>10, <1>11, <1>12, <1>13 DEF AInv

(* A request that is not refused is sent with its own position.            *)
LEMMA RequestedPosition ==
    ASSUME AInv, ~Identifying, pc # "idle", ~Refused(request)
    PROVE  Decoded(lba_io(request.lba)) = request.lba
<1>1. request \in Requests /\ request.drive = 0
      BY DEF AInv, Typed, Requests
<1>2. /\ Len(ide_devices) \in Nat /\ Len(ide_devices) > 0
      /\ Device = ide_devices[1] /\ Device.Type = IDE_ATA
      /\ Device.Size \in {0, Capacity}
  <2>1. Device = ide_devices[1] /\ Device \in ide_device
        BY CallHasDrive, TargetIsPlace
  <2>2. Len(ide_devices) \in Nat
        BY LenProperties DEF AInv, Devices
  <2> QED BY <2>1, <2>2, CallHasDrive DEF ide_device
<1>3. PICK lba \in 0 .. UINT - 1, num \in 0 .. MaxSectors :
          lba = request.lba /\ num = request.numsects
      BY <1>1 DEF Requests
<1>4. (lba + num) % UINT <= Capacity
  <2>1. ~((request.lba + request.numsects) % UINT > ide_devices[1].Size)
        BY <1>1, <1>2 DEF Refused
  <2>2. PICK size \in Nat : size = Device.Size /\ size <= Capacity
        BY <1>2, AtaAssumption
  <2>3. ~((lba + num) % UINT > size)
        BY <1>2, <1>3, <2>1, <2>2
  <2>4. (lba + num) % UINT \in Int
    <3>1. lba + num \in Nat /\ UINT \in Nat \ {0}
          BY AtaAssumption DEF UINT
    <3> QED BY <3>1
  <2> QED BY <2>2, <2>3, <2>4, AtaAssumption
<1>5. ASSUME lba < LBA28, ~lba_capable
      PROVE  lba < ByteValues * ByteValues * Heads * SectorsPerTrack
  <2>1. PICK b \in Nat \ {0}, h \in Nat \ {0} : b = ByteValues /\ h = HeadValues
        BY AtaAssumption
  <2>2. PICK bbb \in Nat \ {0} : bbb = b * b * b
        OBVIOUS
  <2>3. LBA28 = bbb * h /\ UINT = bbb * b /\ LBA28 < UINT
        BY <2>1, <2>2, AtaAssumption DEF LBA28, UINT
  <2>4. h < b
        BY <2>3
  <2>5. PICK n \in Nat : b = h + 1 + n
    <3>1. b - h - 1 \in Nat /\ b = h + 1 + (b - h - 1)
          BY <2>4
    <3> QED BY <3>1
  <2>6. UINT = LBA28 + bbb + bbb * n /\ bbb * n \in Nat
        BY <2>3, <2>5
  <2>7. num < bbb
    <3>1. num < b
          BY <2>1, AtaAssumption
    <3>2. PICK bb \in Nat \ {0} : bb = b * b
          OBVIOUS
    <3>3. bbb >= b
      <4>1. bb >= 1 /\ bb * b = bbb
            BY <2>2, <3>2
      <4>2. PICK k \in Nat : bb = 1 + k
        <5>1. bb - 1 \in Nat /\ bb = 1 + (bb - 1)
              OBVIOUS
        <5> QED BY <5>1
      <4>3. bbb = b + k * b /\ k * b \in Nat
            BY <4>1, <4>2
      <4> QED BY <4>3
    <3> QED BY <3>1, <3>3
  <2>8. lba + num < UINT /\ lba + num \in Nat /\ UINT \in Nat \ {0}
    <3>1. PICK rest \in Nat : rest = bbb * n
          BY <2>6
    <3>2. PICK max \in Nat, low \in Nat : max = UINT /\ low = LBA28
          BY <2>3
    <3>3. lba \in Nat /\ num \in Nat
          BY <3>2
    <3>4. max = low + bbb + rest /\ lba < low
          BY <1>5, <2>6, <3>1, <3>2
    <3>5. lba + num < max
          BY <2>7, <3>3, <3>4
    <3> QED BY <3>2, <3>3, <3>5
  <2>9. (lba + num) % UINT = lba + num
        BY <2>8
  <2>10. lba <= Capacity
    <3>1. PICK max \in Nat : max = UINT
          BY <2>8
    <3>2. lba \in Nat /\ num \in Nat
          BY <3>1
    <3> QED BY <1>4, <2>9, <3>2, AtaAssumption
  <2>11. Capacity < ByteValues * ByteValues * Heads * SectorsPerTrack
         BY <1>5 DEF AInv, Typed
  <2>12. PICK reach \in Nat :
            reach = ByteValues * ByteValues * Heads * SectorsPerTrack
         BY AtaAssumption
  <2>13. PICK max \in Nat : max = UINT
         BY <2>8
  <2>14. lba \in Nat
         BY <2>13
  <2> QED BY <2>10, <2>11, <2>12, <2>14, AtaAssumption
<1>6. Decoded(lba_io(lba)) = lba
      BY <1>5, PositionIsKept
<1> QED BY <1>3, <1>6

(* The command is sent to a drive that listens.                            *)
LEMMA SendCommandKeeps == AInv /\ SendCommand => AInv'
<1> SUFFICES ASSUME AInv, SendCommand PROVE AInv'
    OBVIOUS
<1>1. pc = "send" /\ ~Identifying /\ pc # "idle"
      BY DEF SendCommand, Identifying
<1>2. PICK p \in Places : p = Target
      BY <1>1, CallHasDrive
<1>3. p[1] \in 0 .. NChannels - 1 /\ p[2] \in {0, 1} /\ p = <<p[1], p[2]>>
      /\ p[1] = Device.Channel /\ p[2] = Device.Drive
      BY <1>2 DEF Places, Target
<1>4. PICK lba \in Nat, num \in 0 .. MaxSectors :
          lba = request.lba /\ num = request.numsects
          /\ Decoded(lba_io(request.lba)) = lba
  <2>1. ~Refused(request)
        BY <1>1 DEF AInv, Place
  <2>2. request.lba \in Nat /\ request.numsects \in 0 .. MaxSectors
    <3>1. request \in Requests
          BY DEF AInv, Typed
    <3>2. request.lba \in 0 .. UINT - 1 /\ request.numsects \in 0 .. MaxSectors
          BY <3>1 DEF Requests
    <3>3. UINT \in Int
          BY AtaAssumption DEF UINT
    <3> QED BY <3>2, <3>3
  <2> QED BY <1>1, <2>1, <2>2, RequestedPosition
<1>5. PICK cmd : cmd = IF request.direction = ATA_READ THEN "READ_PIO" ELSE "WRITE_PIO"
      OBVIOUS
<1>6. PICK left \in Nat \ {0} : left = IF num = 0 THEN ByteValues ELSE num
  <2>1. ByteValues \in Nat \ {0} /\ num \in Nat
        BY AtaAssumption
  <2> QED BY <2>1
<1>7. PICK new : new = [state |-> "settling", cmd |-> cmd, addr |-> lba,
                        left |-> left, hold |-> NoValue]
      OBVIOUS
<1>8. /\ pc' = "sector" /\ selected' = [selected EXCEPT ![p[1]] = p[2]]
      /\ drive' = Commanded(<<p[1], selected'[p[1]]>>, cmd, lba, left)
      /\ UNCHANGED <<kind, lba_capable, media, failed, ide_devices, place, after,
                     polled, request, i, buffer, answer>>
      BY <1>2, <1>4, <1>5, <1>6 DEF SendCommand, SelectDrive, WriteCommand, connected,
                                    found, polling, call
<1>9. selected' \in [0 .. NChannels - 1 -> {0, 1}] /\ selected'[p[1]] = p[2]
      BY <1>3, <1>8 DEF AInv, Typed
<1>10. new \in DriveStates /\ drive' = [drive EXCEPT ![p] = new]
  <2>1. Quiet(p) /\ kind[p] # "none"
    <3>1. Quiet(Polled)
          BY <1>1 DEF AInv, Working
    <3> QED BY <1>1, <1>2, <3>1, CallHasDrive, QuietHoldsNothing DEF IDE_ATA
  <2>2. drive' = Commanded(p, cmd, lba, left)
        BY <1>3, <1>8, <1>9
  <2>3. cmd \in {"IDENTIFY", "READ_PIO", "WRITE_PIO", "CACHE_FLUSH"}
        BY <1>5
  <2>4. Typed
        BY DEF AInv
  <2> QED BY <1>7, <2>1, <2>2, <2>3, <2>4, CommandedDrive
<1>11. drive'[p] = new /\ \A q \in Places : q # p => drive'[q] = drive[q]
       BY <1>10 DEF AInv, Typed
<1>12. \A q \in Places : Quiet(q) /\ drive[q].hold = NoValue
  <2>1. Quiet(Polled)
        BY <1>1 DEF AInv, Working
  <2> QED BY <1>1, <2>1, QuietHoldsNothing
<1>13. Device' = Device /\ Target' = p /\ Polled' = p
       BY <1>2, <1>3, <1>8, <1>9 DEF Device, Target, Polled
<1>14. Typed' /\ Devices'
       BY <1>1, <1>8, <1>9, <1>10 DEF AInv, Typed, Devices, Identifying
<1>15. Transfers'
  <2>1. kind[p] # "none"
        BY <1>1, <1>2, CallHasDrive DEF IDE_ATA
  <2>2. ASSUME NEW q \in Places PROVE drive'[q].hold = NoValue
        BY <1>7, <1>11, <1>12
  <2>3. new.state = "settling" /\ new.left > 0 /\ new.hold = NoValue
        BY <1>6, <1>7
  <2> QED BY <1>8, <1>11, <2>1, <2>2, <2>3 DEF AInv, Transfers
<1>16. Working'
  <2>1. Len(ide_devices) > 0 /\ Device.Type = IDE_ATA
        BY <1>1, CallHasDrive
  <2>2. ASSUME NEW q \in Places, q # p PROVE Quiet(q)'
        BY <1>11, <1>12, <2>2 DEF Quiet
  <2> QED BY <1>8, <1>13, <2>1, <2>2 DEF Working, Identifying, Sent, Polling
<1>17. i = 0
       BY <1>1 DEF AInv, Place
<1>18. Place'
  <2>1. num \in Nat
        BY AtaAssumption
  <2>2. i' <= request'.numsects
        BY <1>4, <1>8, <1>17, <2>1
  <2>3. pc' = "sector" /\ answer' = "none"
        BY <1>1, <1>8 DEF AInv, Place
  <2> QED BY <2>2, <2>3 DEF Place, Polling
<1>19. /\ drive'[p].cmd = cmd /\ drive'[p].addr = lba /\ drive'[p].left = left
       /\ drive'[p].hold = NoValue
       BY <1>7, <1>11
<1>20. Stored' = 0
       BY <1>8, <1>13, <1>17, <1>19 DEF Stored
<1>21. Writing'
  <2>1. request.direction = ATA_WRITE => cmd = "WRITE_PIO"
        BY <1>5 DEF ATA_READ, ATA_WRITE
  <2>2. 0 < num => left = num - 0
        BY <1>6
  <2>3. lba = lba + 0
        OBVIOUS
  <2>4. \A k \in 0 .. 0 - 1 : FALSE
        OBVIOUS
  <2> QED BY <1>4, <1>8, <1>13, <1>19, <1>20, <2>1, <2>2, <2>3, <2>4 DEF Writing
<1>22. Reading'
  <2>1. request.direction = ATA_READ => cmd = "READ_PIO"
        BY <1>5
  <2>2. 0 < num => left = num - 0
        BY <1>6
  <2>3. lba = lba + 0
        OBVIOUS
  <2>4. \A k \in 0 .. 0 - 1 : FALSE
        OBVIOUS
  <2> QED BY <1>4, <1>8, <1>13, <1>17, <1>19, <2>1, <2>2, <2>3, <2>4 DEF Reading
<1>23. ReadDelivers' /\ WriteStores'
       BY <1>8 DEF ReadDelivers, WriteStores
<1> QED BY <1>14, <1>15, <1>16, <1>18, <1>21, <1>22, <1>23 DEF AInv

-----------------------------------------------------------------------------
(***************************************************************************)
(* Sectors.                                                                *)
(***************************************************************************)
(* A sector is taken from the drive into its place of the buffer.          *)
LEMMA ReadSectorKeeps == AInv /\ ReadSector => AInv'
<1> SUFFICES ASSUME AInv, ReadSector PROVE AInv'
    OBVIOUS
<1>1. /\ pc = "transfer" /\ pc' = "sector" /\ request.direction = ATA_READ
      /\ ~Identifying /\ Sent /\ ~Identifying' /\ Sent'
      BY DEF ReadSector, Identifying, Sent
<1>2. PICK p \in Places : p = Target /\ p = Polled
      BY <1>1, CallHasDrive DEF AInv, Working
<1>3. PICK d \in DriveStates : d = drive[p]
      BY DEF AInv, Typed
<1>4. /\ d.addr \in Nat /\ d.left \in Nat
      /\ d.cmd \in {"NONE", "IDENTIFY", "READ_PIO", "WRITE_PIO", "CACHE_FLUSH"}
      /\ d.state \in {"ready", "data", "error", "fault"} /\ d.hold = NoValue
  <2>1. Quiet(p) /\ d.hold = NoValue
    <3>1. Quiet(Polled)
          BY <1>1 DEF AInv, Working
    <3> QED BY <1>1, <1>3, <3>1, QuietHoldsNothing
  <2> QED BY <1>3, <2>1 DEF DriveStates, Quiet
<1>5. PICK heard \in BOOLEAN :
          heard <=> d.state = "data" /\ d.cmd = "READ_PIO"
      OBVIOUS
<1>6. PICK new : new = IF d.left = 1 THEN Idle
                       ELSE [d EXCEPT !.addr = @ + 1, !.left = @ - 1,
                                      !.state = "settling"]
      OBVIOUS
<1>7. PICK value : value = IF heard THEN media[p][d.addr] ELSE NoValue
      OBVIOUS
<1>8. /\ buffer' = [buffer EXCEPT ![i] = value] /\ i' = i + 1
      /\ drive' = IF heard THEN [drive EXCEPT ![p] = new] ELSE drive
      /\ UNCHANGED <<kind, lba_capable, media, failed, selected, ide_devices, place,
                     after, polled, request, answer>>
      BY <1>2, <1>3, <1>5, <1>6, <1>7
         DEF ReadSector, ReadInto, SectorTaken, HasData, connected, found, polling
<1>9. heard => d.left > 0
      BY <1>3, <1>5 DEF AInv, Transfers
<1>10. PICK less \in Int, further \in Nat : less = d.left - 1 /\ further = d.addr + 1
       BY <1>4
<1>11. heard =>
          /\ new \in DriveStates /\ new.hold = NoValue
          /\ \/ d.left = 1 /\ new = Idle /\ new.cmd = "NONE"
             \/ /\ less > 0 /\ new.left = less /\ new.addr = further
                /\ new.cmd = "READ_PIO" /\ new.state = "settling"
  <2>1. CASE d.left = 1
        BY <1>6, <2>1 DEF Idle, DriveStates
  <2>2. CASE heard /\ d.left # 1
    <3>1. less \in Nat /\ less > 0
          BY <1>4, <1>9, <1>10, <2>2
    <3>2. new = [d EXCEPT !.addr = further, !.left = less, !.state = "settling"]
          BY <1>6, <1>10, <2>2
    <3>3. new.addr = further /\ new.left = less
          BY <3>1, <3>2 DEF DriveStates
    <3>4. new.state = "settling" /\ new.cmd = d.cmd /\ new.hold = d.hold
          BY <3>1, <3>2 DEF DriveStates
    <3>5. new \in DriveStates
          BY <3>1, <3>2 DEF DriveStates
    <3> QED BY <1>4, <1>5, <2>2, <3>1, <3>3, <3>4, <3>5
  <2> QED BY <2>1, <2>2
<1>12. /\ drive' \in [Places -> DriveStates]
       /\ \A q \in Places : q # p \/ ~heard => drive'[q] = drive[q]
       /\ heard => drive'[p] = new
       BY <1>8, <1>11 DEF AInv, Typed
<1>13. Device' = Device /\ Target' = p /\ Polled' = p
       BY <1>2, <1>8 DEF Device, Target, Polled
<1>14. PICK num \in Nat : num = request.numsects
  <2>1. request.numsects \in 0 .. MaxSectors
        BY DEF AInv, Typed, Requests
  <2> QED BY <2>1, AtaAssumption
<1>15. i \in Nat /\ i < num
       BY <1>1, <1>14 DEF AInv, Typed, Place
<1>16. Typed'
  <2>1. request'.direction # ATA_WRITE
        BY <1>1, <1>8 DEF ATA_READ, ATA_WRITE
  <2>2. DOMAIN buffer' = 0 .. request'.numsects - 1
        BY <1>8 DEF AInv, Typed
  <2> QED BY <1>1, <1>8, <1>12, <1>15, <2>1, <2>2 DEF AInv, Typed
<1>17. Devices'
       BY <1>1, <1>8 DEF AInv, Devices, Identifying
<1>18. ASSUME NEW q \in Places PROVE drive'[q].hold = NoValue
  <2>1. drive[q].hold = NoValue
        BY <1>1 DEF AInv, Transfers, ATA_READ, ATA_WRITE
  <2> QED BY <1>11, <1>12, <2>1
<1>19. Transfers'
  <2>1. kind[p] # "none"
        BY <1>1, <1>2, CallHasDrive DEF IDE_ATA
  <2>2. ASSUME NEW q \in Places
        PROVE  /\ kind[q] = "none" => drive'[q] = Idle
               /\ drive'[q].cmd \in {"READ_PIO", "WRITE_PIO"} =>
                     /\ drive'[q].state \in {"settling", "busy", "data"}
                     /\ drive'[q].left > 0
                     /\ drive'[q].state = "data" => drive'[q].addr \in Sectors
    <3>1. CASE q = p /\ heard
          BY <1>11, <1>12, <2>1, <3>1
    <3>2. CASE q # p \/ ~heard
          BY <1>12, <3>2 DEF AInv, Transfers
    <3> QED BY <3>1, <3>2
  <2> QED BY <1>8, <1>18, <2>2 DEF Transfers
<1>20. Working'
  <2>1. Len(ide_devices) > 0 /\ Device.Type = IDE_ATA
        BY <1>1, CallHasDrive
  <2>2. ASSUME NEW q \in Places, q # p PROVE Quiet(q)'
    <3>1. Quiet(q)
          BY <1>1, <1>2, <2>2, CallHasDrive
    <3> QED BY <1>12, <2>2, <3>1 DEF Quiet
  <2> QED BY <1>1, <1>8, <1>13, <2>1, <2>2 DEF Working, Identifying
<1>21. Place'
  <2>1. i' <= request'.numsects
        BY <1>8, <1>14, <1>15
  <2>2. pc' = "sector" /\ answer' = "none"
        BY <1>1, <1>8 DEF AInv, Place
  <2> QED BY <2>1, <2>2 DEF Place, Polling
<1>22. Writing'
       BY <1>1, <1>8 DEF Writing, ATA_READ, ATA_WRITE
<1>23. Reading'
  <2>1. SUFFICES ASSUME ~failed
                 PROVE  /\ i' < num => /\ drive'[p].cmd = "READ_PIO"
                                       /\ drive'[p].addr = request.lba + i'
                                       /\ drive'[p].left = num - i'
                        /\ \A k \in 0 .. i' - 1 :
                               buffer'[k] = media[p][request.lba + k]
        BY <1>8, <1>13, <1>14 DEF Reading
  <2>2. /\ d.cmd = "READ_PIO" /\ d.addr = request.lba + i /\ d.left = num - i
        /\ \A k \in 0 .. i - 1 : buffer[k] = media[p][request.lba + k]
        BY <1>1, <1>2, <1>3, <1>14, <1>15, <2>1 DEF AInv, Reading
  <2>3. heard
    <3>1. drive[p].state \in {"settling", "busy", "data"}
          BY <1>3, <2>2 DEF AInv, Transfers
    <3> QED BY <1>3, <1>4, <1>5, <2>2, <3>1
  <2>4. ASSUME NEW k \in 0 .. i' - 1
        PROVE  buffer'[k] = media[p][request.lba + k]
    <3>1. DOMAIN buffer = 0 .. num - 1
          BY <1>14 DEF AInv, Typed
    <3>2. CASE k = i
          BY <1>7, <1>8, <1>15, <2>2, <2>3, <3>1, <3>2
    <3>3. CASE k # i
      <4>1. k \in 0 .. i - 1 /\ k \in 0 .. num - 1
            BY <1>8, <1>15, <3>3
      <4>2. buffer'[k] = buffer[k]
            BY <1>8, <3>1, <3>3, <4>1
      <4> QED BY <2>2, <4>1, <4>2
    <3> QED BY <3>2, <3>3
  <2>5. ASSUME i' < num
        PROVE  /\ drive'[p].cmd = "READ_PIO" /\ drive'[p].addr = request.lba + i'
               /\ drive'[p].left = num - i'
    <3>1. PICK lba \in Nat : lba = request.lba
      <4>1. request.lba \in 0 .. UINT - 1 /\ UINT \in Int
            BY AtaAssumption DEF AInv, Typed, Requests, UINT
      <4> QED BY <4>1
    <3>2. less = num - (i + 1) /\ further = lba + (i + 1) /\ d.left # 1
          BY <1>8, <1>10, <1>14, <1>15, <2>2, <2>5, <3>1
    <3>3. new.left = less /\ new.addr = further /\ new.cmd = "READ_PIO"
          BY <1>11, <2>3, <3>2
    <3> QED BY <1>8, <1>12, <2>3, <3>1, <3>2, <3>3
  <2> QED BY <2>4, <2>5
<1>24. ReadDelivers' /\ WriteStores'
       BY <1>1 DEF ReadDelivers, WriteStores
<1> QED BY <1>16, <1>17, <1>19, <1>20, <1>21, <1>22, <1>23, <1>24 DEF AInv

(* A sector is given to the drive out of its place in the buffer.  A drive *)
(* that had no error takes it.                                             *)
LEMMA WriteSectorKeeps == AInv /\ WriteSector => AInv'
<1> SUFFICES ASSUME AInv, WriteSector PROVE AInv'
    OBVIOUS
<1>1. /\ pc = "transfer" /\ pc' = "sector" /\ request.direction = ATA_WRITE
      /\ ~Identifying /\ Sent /\ ~Identifying' /\ Sent'
      BY DEF WriteSector, Identifying, Sent
<1>2. PICK p \in Places : p = Target /\ p = Polled
      BY <1>1, CallHasDrive DEF AInv, Working
<1>3. PICK d \in DriveStates : d = drive[p]
      BY DEF AInv, Typed
<1>4. /\ d.addr \in Nat /\ d.left \in Nat
      /\ d.state \in {"ready", "data", "error", "fault"} /\ d.hold = NoValue
  <2>1. Quiet(p) /\ d.hold = NoValue
    <3>1. Quiet(Polled)
          BY <1>1 DEF AInv, Working
    <3> QED BY <1>1, <1>3, <3>1, QuietHoldsNothing
  <2> QED BY <1>3, <2>1 DEF DriveStates, Quiet
<1>5. PICK heard \in BOOLEAN :
          heard <=> d.state = "data" /\ d.cmd = "WRITE_PIO"
      OBVIOUS
<1>6. PICK num \in Nat : num = request.numsects
  <2>1. request.numsects \in 0 .. MaxSectors
        BY DEF AInv, Typed, Requests
  <2> QED BY <2>1, AtaAssumption
<1>7. i \in Nat /\ i < num
      BY <1>1, <1>6 DEF AInv, Typed, Place
<1>8. PICK value \in Values : value = buffer[i]
  <2>1. buffer \in [0 .. num - 1 -> Values]
        BY <1>1, <1>6 DEF AInv, Typed
  <2> QED BY <1>7, <2>1
<1>9. value # NoValue
      BY AtaAssumption
<1>10. PICK new : new = [d EXCEPT !.hold = value, !.state = "settling"]
       OBVIOUS
<1>11. /\ i' = i + 1
       /\ drive' = IF heard THEN [drive EXCEPT ![p] = new] ELSE drive
       /\ UNCHANGED <<kind, lba_capable, media, failed, selected, ide_devices, place,
                      after, polled, request, buffer, answer>>
       BY <1>2, <1>3, <1>5, <1>8, <1>10
          DEF WriteSector, WriteFrom, SectorGiven, HasData, connected, found, polling,
              AInv, Typed
<1>12. /\ new \in DriveStates /\ new.hold = value /\ new.state = "settling"
       /\ new.cmd = d.cmd /\ new.addr = d.addr /\ new.left = d.left
       BY <1>10 DEF DriveStates
<1>13. /\ drive' \in [Places -> DriveStates]
       /\ \A q \in Places : q # p \/ ~heard => drive'[q] = drive[q]
       /\ heard => drive'[p] = new
       BY <1>11, <1>12 DEF AInv, Typed
<1>14. Device' = Device /\ Target' = p /\ Polled' = p
       BY <1>2, <1>11 DEF Device, Target, Polled
<1>15. Typed'
       BY <1>1, <1>7, <1>11, <1>13 DEF AInv, Typed
<1>16. Devices'
       BY <1>1, <1>11 DEF AInv, Devices, Identifying
<1>17. Transfers'
  <2>1. kind[p] # "none"
        BY <1>1, <1>2, CallHasDrive DEF IDE_ATA
  <2>2. heard => d.left > 0 /\ d.addr \in Sectors
        BY <1>3, <1>5 DEF AInv, Transfers
  <2>3. i' > 0
        BY <1>7, <1>11
  <2>4. ASSUME NEW q \in Places
        PROVE  /\ kind[q] = "none" => drive'[q] = Idle
               /\ drive'[q].cmd \in {"READ_PIO", "WRITE_PIO"} =>
                     /\ drive'[q].state \in {"settling", "busy", "data"}
                     /\ drive'[q].left > 0
                     /\ drive'[q].state = "data" => drive'[q].addr \in Sectors
               /\ drive'[q].hold # NoValue =>
                     /\ drive'[q].cmd = "WRITE_PIO" /\ drive'[q].addr \in Sectors
                     /\ drive'[q].state \in {"settling", "busy"}
    <3>1. CASE q = p /\ heard
          BY <1>5, <1>12, <1>13, <2>1, <2>2, <3>1
    <3>2. CASE q # p \/ ~heard
          BY <1>13, <3>2 DEF AInv, Transfers, Quiet
    <3> QED BY <3>1, <3>2
  <2> QED BY <1>1, <1>11, <2>3, <2>4 DEF Transfers, Quiet
<1>18. Working'
  <2>1. Len(ide_devices) > 0 /\ Device.Type = IDE_ATA
        BY <1>1, CallHasDrive
  <2>2. ASSUME NEW q \in Places, q # p PROVE Quiet(q)'
    <3>1. Quiet(q)
          BY <1>1, <1>2, <2>2, CallHasDrive
    <3> QED BY <1>13, <2>2, <3>1 DEF Quiet
  <2> QED BY <1>1, <1>11, <1>14, <2>1, <2>2 DEF Working, Identifying
<1>19. Place'
  <2>1. i' <= request'.numsects
        BY <1>6, <1>7, <1>11
  <2>2. pc' = "sector" /\ answer' = "none"
        BY <1>1, <1>11 DEF AInv, Place
  <2> QED BY <2>1, <2>2 DEF Place, Polling
<1>20. Stored = i
       BY <1>2, <1>3, <1>4 DEF Stored
<1>21. d.cmd = "WRITE_PIO" => heard
  <2>1. d.cmd = "WRITE_PIO" => d.state \in {"settling", "busy", "data"}
        BY <1>3 DEF AInv, Transfers
  <2> QED BY <1>4, <1>5, <2>1
<1>22. Stored' = IF heard THEN i ELSE i + 1
  <2>1. CASE heard
    <3>1. drive'[p].hold # NoValue
          BY <1>9, <1>12, <1>13, <2>1
    <3>2. Stored' = i' - 1
          BY <1>14, <3>1 DEF Stored
    <3> QED BY <1>7, <1>11, <2>1, <3>2
  <2>2. CASE ~heard
    <3>1. drive'[p].hold = NoValue
          BY <1>3, <1>4, <1>13, <2>2
    <3> QED BY <1>11, <1>14, <2>2, <3>1 DEF Stored
  <2> QED BY <2>1, <2>2
<1>23. Writing'
  <2>1. d.cmd = "WRITE_PIO" => d.addr = request.lba + i
        BY <1>1, <1>2, <1>3, <1>20 DEF AInv, Writing
  <2>2. ~failed => /\ heard /\ d.left = num - i
                   /\ \A k \in 0 .. i - 1 : media[p][request.lba + k] = buffer[k]
        BY <1>1, <1>2, <1>3, <1>6, <1>7, <1>20, <1>21 DEF AInv, Writing
  <2>3. i' - 1 = i
        BY <1>7, <1>11
  <2>4. CASE heard
        BY <1>5, <1>6, <1>8, <1>11, <1>12, <1>13, <1>14, <1>22, <2>1, <2>2, <2>3, <2>4
           DEF Writing
  <2>5. CASE ~heard
    <3>1. drive'[p] = d /\ d.cmd # "WRITE_PIO" /\ d.hold = NoValue /\ failed'
          BY <1>3, <1>4, <1>11, <1>13, <1>21, <2>2, <2>5
    <3> QED BY <1>14, <3>1 DEF Writing
  <2> QED BY <2>4, <2>5
<1>24. Reading'
       BY <1>1, <1>11 DEF Reading, ATA_READ, ATA_WRITE
<1>25. ReadDelivers' /\ WriteStores'
       BY <1>1 DEF ReadDelivers, WriteStores
<1> QED BY <1>15, <1>16, <1>17, <1>18, <1>19, <1>23, <1>24, <1>25 DEF AInv

(* CACHE_FLUSH is not heard by a drive that is busy with the last sector.  *)
(* One that hears it holds nothing back.                                   *)
LEMMA CacheFlushKeeps == AInv /\ CacheFlush => AInv'
<1> SUFFICES ASSUME AInv, CacheFlush PROVE AInv'
    OBVIOUS
<1>1. /\ pc = "flush" /\ pc' = "delay" /\ after' = "end"
      /\ ~Identifying /\ Sent /\ ~Identifying' /\ Sent'
      BY DEF CacheFlush, FlushAwaited, Poll, Identifying, Sent, Polling
<1>2. PICK p \in Places : p = Target /\ p = Polled
      BY <1>1, CallHasDrive DEF AInv, Working
<1>3. PICK new : new = [state |-> "settling", cmd |-> "CACHE_FLUSH", addr |-> 0,
                        left |-> 0, hold |-> NoValue]
      OBVIOUS
<1>4. /\ drive' = Commanded(p, "CACHE_FLUSH", 0, 0)
      /\ UNCHANGED <<kind, lba_capable, media, failed, selected, ide_devices, place,
                     polled, request, i, buffer, answer>>
  <2>1. selected' = selected
        BY DEF CacheFlush
  <2>2. p = <<Target[1], selected'[Target[1]]>>
        BY <1>2, <2>1 DEF Target, Polled
  <2> QED BY <2>1, <2>2 DEF CacheFlush, WriteCommand, connected, found, call
<1>5. PICK heard \in BOOLEAN : heard <=> Quiet(p)
      OBVIOUS
<1>6. new \in DriveStates /\ drive' = IF heard THEN [drive EXCEPT ![p] = new] ELSE drive
  <2>1. kind[p] # "none" /\ Typed
        BY <1>1, <1>2, CallHasDrive DEF IDE_ATA, AInv
  <2> QED BY <1>3, <1>4, <1>5, <2>1, CommandedDrive
<1>7. /\ drive' \in [Places -> DriveStates]
      /\ \A q \in Places : q # p \/ ~heard => drive'[q] = drive[q]
      /\ heard => drive'[p] = new
      BY <1>6 DEF AInv, Typed
<1>8. Device' = Device /\ Target' = p /\ Polled' = p
      BY <1>2, <1>4 DEF Device, Target, Polled
<1>9. request.direction = ATA_WRITE /\ i = request.numsects /\ answer = "none"
      BY <1>1 DEF AInv, Place
<1>10. Typed' /\ Devices'
       BY <1>1, <1>4, <1>7 DEF AInv, Typed, Devices, Identifying
<1>11. Transfers'
  <2>1. kind[p] # "none"
        BY <1>1, <1>2, CallHasDrive DEF IDE_ATA
  <2>2. ASSUME NEW q \in Places
        PROVE  /\ kind[q] = "none" => drive'[q] = Idle
               /\ drive'[q].cmd \in {"READ_PIO", "WRITE_PIO"} =>
                     /\ drive'[q].state \in {"settling", "busy", "data"}
                     /\ drive'[q].left > 0
                     /\ drive'[q].state = "data" => drive'[q].addr \in Sectors
               /\ drive'[q].hold # NoValue =>
                     /\ drive'[q].cmd = "WRITE_PIO" /\ drive'[q].addr \in Sectors
                     /\ drive'[q].state \in {"settling", "busy"} /\ i > 0
    <3>1. CASE q = p /\ heard
          BY <1>3, <1>7, <2>1, <3>1
    <3>2. CASE q # p \/ ~heard
      <4>1. drive'[q] = drive[q]
            BY <1>7, <3>2
      <4> QED BY <4>1 DEF AInv, Transfers, Quiet
    <3> QED BY <3>1, <3>2
  <2> QED BY <1>1, <1>4, <1>9, <2>2 DEF Transfers, Quiet
<1>12. Working'
  <2>1. Len(ide_devices) > 0 /\ Device.Type = IDE_ATA
        BY <1>1, CallHasDrive
  <2>2. ASSUME NEW q \in Places, q # p PROVE Quiet(q)'
    <3>1. Quiet(q)
          BY <1>1, <1>2, <2>2, CallHasDrive
    <3> QED BY <1>7, <2>2, <3>1 DEF Quiet
  <2> QED BY <1>1, <1>4, <1>8, <2>1, <2>2 DEF Working, Identifying
<1>13. Place'
  <2>1. i' <= request'.numsects
        BY <1>1, <1>4 DEF AInv, Place
  <2> QED BY <1>1, <1>4, <1>9, <2>1 DEF Place, Polling
<1>14. Writing'
  <2>1. CASE heard
    <3>1. drive[p].hold = NoValue
          BY <1>1, <1>2, <1>5, <2>1, QuietHoldsNothing
    <3>2. /\ drive'[p].hold = NoValue /\ drive'[p].cmd = "CACHE_FLUSH"
          /\ Stored = i /\ Stored' = i
          BY <1>2, <1>3, <1>4, <1>7, <1>8, <2>1, <3>1 DEF Stored
    <3>3. ~failed => \A k \in 0 .. i - 1 : media[p][request.lba + k] = buffer[k]
          BY <1>1, <1>2, <1>9, <3>2 DEF AInv, Writing
    <3>4. ~(i < request.numsects)
      <4>1. i \in Nat
            BY DEF AInv, Typed
      <4> QED BY <1>9, <4>1
    <3> QED BY <1>4, <1>8, <3>2, <3>3, <3>4 DEF Writing
  <2>2. CASE ~heard
    <3>1. drive'[p] = drive[p]
          BY <1>7, <2>2
    <3>2. Stored' = Stored
          BY <1>2, <1>4, <1>8, <3>1 DEF Stored
    <3> QED BY <1>1, <1>2, <1>4, <1>8, <3>1, <3>2 DEF AInv, Writing
  <2> QED BY <2>1, <2>2
<1>15. Reading'
       BY <1>4, <1>9 DEF Reading, ATA_READ, ATA_WRITE
<1>16. ReadDelivers' /\ WriteStores'
       BY <1>1 DEF ReadDelivers, WriteStores
<1> QED BY <1>10, <1>11, <1>12, <1>13, <1>14, <1>15, <1>16 DEF AInv

-----------------------------------------------------------------------------
(***************************************************************************)
(* Steps of a drive.                                                       *)
(***************************************************************************)
(* A drive that is at work and comes to the state new, whatever that is.   *)
LEMMA DriveChanges ==
    ASSUME AInv, NEW p \in Places, ~Quiet(p), NEW new \in DriveStates,
           drive' = [drive EXCEPT ![p] = new],
           UNCHANGED <<connected, selected, found, pc, polling, call>>,
           media' \in [Places -> [Sectors -> Values]],
           new.state # "settling",
           new.cmd \in {"READ_PIO", "WRITE_PIO"} =>
              /\ new.state \in {"busy", "data"} /\ new.left > 0
              /\ new.state = "data" => new.addr \in Sectors,
           new.hold # NoValue =>
              /\ new.state = "busy" /\ drive[p].hold = new.hold
              /\ drive[p].cmd = new.cmd /\ drive[p].addr = new.addr
    PROVE  /\ Typed' /\ Devices' /\ Transfers' /\ Working' /\ Place'
           /\ (Identifying' <=> Identifying) /\ (Sent' <=> Sent)
           /\ Device' = Device /\ Target' = Target
           /\ drive'[p] = new
           /\ Sent => p = Target
<1>1. UNCHANGED <<kind, lba_capable, selected, ide_devices, place, pc, after, polled,
                  request, i, buffer, answer>>
      BY DEF connected, found, polling, call
<1>2. /\ drive' \in [Places -> DriveStates] /\ drive'[p] = new
      /\ \A q \in Places : q # p => drive'[q] = drive[q]
      BY DEF AInv, Typed
<1>3. (Identifying' <=> Identifying) /\ (Sent' <=> Sent) /\ (Polling' <=> Polling)
      BY <1>1 DEF Identifying, Sent, Polling
<1>4. Device' = Device /\ Target' = Target /\ Polled' = Polled
      BY <1>1 DEF Device, Target, Polled
<1>5. Typed'
      BY <1>1, <1>2 DEF AInv, Typed
<1>6. Devices'
      BY <1>1, <1>3 DEF AInv, Devices
<1>7. Transfers'
  <2>1. kind[p] # "none"
        BY DEF AInv, Transfers, Idle, Quiet
  <2>2. ASSUME NEW q \in Places
        PROVE  /\ kind[q] = "none" => drive'[q] = Idle
               /\ drive'[q].cmd \in {"READ_PIO", "WRITE_PIO"} =>
                     /\ drive'[q].state \in {"settling", "busy", "data"}
                     /\ drive'[q].left > 0
                     /\ drive'[q].state = "data" => drive'[q].addr \in Sectors
               /\ drive'[q].hold # NoValue =>
                     /\ drive'[q].cmd = "WRITE_PIO" /\ drive'[q].addr \in Sectors
                     /\ drive'[q].state \in {"settling", "busy"}
                     /\ Sent /\ request.direction = ATA_WRITE /\ i > 0
    <3>1. CASE q = p
          BY <1>2, <2>1, <3>1 DEF AInv, Transfers
    <3>2. CASE q # p
      <4>1. drive'[q] = drive[q]
            BY <1>2, <3>2
      <4> QED BY <4>1 DEF AInv, Transfers, Quiet
    <3> QED BY <3>1, <3>2
  <2> QED BY <1>1, <1>3, <2>2 DEF Transfers, Quiet
<1>8. \A q \in Places : Quiet(q) => Quiet(q)'
      BY <1>2 DEF Quiet
<1>9. Sent => ~Identifying /\ pc # "idle" /\ p = Target
  <2>1. Sent => ~Identifying /\ pc # "idle"
        BY DEF Sent, Identifying, Polling
  <2> QED BY <2>1, CallHasDrive
<1>10. Working'
  <2>1. pc \in {"test", "status", "send", "transfer", "end"} => Polled \in Places
        BY CallHasDrive DEF Identifying
  <2>2. pc \in {"test", "status"} => drive'[Polled].state # "settling"
        BY <1>2, <2>1 DEF AInv, Working
  <2>3. pc \in {"send", "transfer", "end"} => Quiet(Polled)'
        BY <1>4, <1>8, <2>1 DEF AInv, Working, Quiet
  <2> QED BY <1>1, <1>3, <1>4, <1>8, <2>2, <2>3 DEF AInv, Working
<1>11. Place'
       BY <1>1, <1>3 DEF AInv, Place, Polling, Refused, BufferTooSmall
<1> QED BY <1>2, <1>3, <1>4, <1>5, <1>6, <1>7, <1>9, <1>10, <1>11

(* What every step of a drive leaves alone.                                *)
LEMMA DriverWaits ==
    ASSUME NEW p, DriveSteps(p)
    PROVE  UNCHANGED <<connected, selected, found, pc, polling, call>>
BY DEF DriveSteps, DriveSettles, DriveAnswers, DriveGoesOn, DriveFails

(* A drive shows that it is busy.                                          *)
LEMMA DriveSettlesKeeps ==
    ASSUME AInv, NEW p \in Places, DriveSettles(p),
           UNCHANGED <<connected, selected, found, pc, polling, call>>
    PROVE  AInv'
<1>1. PICK d \in DriveStates : d = drive[p]
      BY DEF AInv, Typed
<1>2. PICK new : new = [d EXCEPT !.state = "busy"]
      OBVIOUS
<1>3. /\ new \in DriveStates /\ new.state = "busy" /\ new.cmd = d.cmd
      /\ new.addr = d.addr /\ new.left = d.left /\ new.hold = d.hold
      BY <1>2 DEF DriveStates
<1>4. /\ drive' = [drive EXCEPT ![p] = new] /\ d.state = "settling"
      /\ UNCHANGED <<media, failed>>
      BY <1>1, <1>2 DEF DriveSettles, Settled, AInv, Typed
<1>5. d.cmd \in {"READ_PIO", "WRITE_PIO"} => d.left > 0
      BY <1>1 DEF AInv, Transfers
<1>6. /\ Typed' /\ Devices' /\ Transfers' /\ Working' /\ Place'
      /\ (Sent' <=> Sent) /\ Device' = Device /\ Target' = Target
      /\ drive'[p] = new /\ (Sent => p = Target)
  <2>1. ~Quiet(p) /\ media' \in [Places -> [Sectors -> Values]]
        BY <1>1, <1>4 DEF Quiet, AInv, Typed
  <2> QED BY <1>1, <1>3, <1>4, <1>5, <2>1, DriveChanges
<1>7. UNCHANGED <<pc, request, i, buffer, answer>>
      BY DEF call
<1>8. Sent => Stored' = Stored
      BY <1>1, <1>3, <1>6, <1>7 DEF Stored
<1>9. Writing' /\ Reading'
      BY <1>1, <1>3, <1>4, <1>6, <1>7, <1>8 DEF AInv, Writing, Reading
<1>10. ReadDelivers' /\ WriteStores'
       BY <1>4, <1>6, <1>7 DEF AInv, ReadDelivers, WriteStores
<1> QED BY <1>6, <1>9, <1>10 DEF AInv

(* A drive is in error: nothing is promised of the call any more.          *)
LEMMA DriveFailsKeeps ==
    ASSUME AInv, NEW p \in Places, DriveFails(p),
           UNCHANGED <<connected, selected, found, pc, polling, call>>
    PROVE  AInv'
<1>1. PICK end \in {"error", "fault"} :
          drive' = [drive EXCEPT ![p] = [Idle EXCEPT !.state = end]]
      BY DEF DriveFails
<1>2. PICK new : new = [Idle EXCEPT !.state = end]
      OBVIOUS
<1>3. /\ new \in DriveStates /\ new.state = end /\ new.cmd = "NONE"
      /\ new.hold = NoValue
      BY <1>2 DEF DriveStates, Idle
<1>4. ~Quiet(p) /\ media' = media /\ failed'
      BY DEF DriveFails, Quiet
<1>5. /\ Typed' /\ Devices' /\ Transfers' /\ Working' /\ Place'
      /\ (Sent' <=> Sent) /\ Target' = Target
      /\ drive'[p] = new /\ (Sent => p = Target)
  <2>1. media' \in [Places -> [Sectors -> Values]]
        BY <1>4 DEF AInv, Typed
  <2> QED BY <1>1, <1>2, <1>3, <1>4, <2>1, DriveChanges
<1>6. Writing' /\ Reading'
      BY <1>3, <1>4, <1>5 DEF Writing, Reading
<1>7. ReadDelivers' /\ WriteStores'
      BY <1>4 DEF ReadDelivers, WriteStores
<1> QED BY <1>5, <1>6, <1>7 DEF AInv

(* A drive that goes on stores the sector it holds, and comes to a state   *)
(* in which the rest of the command is left to do.                         *)
LEMMA DriveGoesOnTo ==
    ASSUME AInv, NEW p \in Places, DriveGoesOn(p)
    PROVE  \E d \in DriveStates, new \in DriveStates, stores \in BOOLEAN,
              next \in Nat, left \in Nat :
              /\ d = drive[p] /\ ~Quiet(p)
              /\ drive' = [drive EXCEPT ![p] = new] /\ UNCHANGED failed
              /\ stores <=> d.hold # NoValue
              /\ stores => /\ next = d.addr + 1 /\ left = d.left - 1
                           /\ d.addr \in Sectors /\ d.hold \in Values
                           /\ media' = [media EXCEPT ![p][d.addr] = d.hold]
              /\ ~stores => next = d.addr /\ left = d.left /\ media' = media
              /\ new.state # "settling" /\ new.hold = NoValue
              /\ new.cmd \in {"READ_PIO", "WRITE_PIO"} =>
                    /\ new.cmd = d.cmd /\ new.left = left /\ new.addr = next
                    /\ new.state = "data" /\ left > 0 /\ next \in Sectors
              /\ d.cmd \in {"READ_PIO", "WRITE_PIO"} /\ left > 0 => new.cmd = d.cmd
<1>1. PICK d \in DriveStates : d = drive[p]
      BY DEF AInv, Typed
<1>2. /\ d.addr \in Nat /\ d.left \in Nat /\ d.hold \in Values \cup {NoValue}
      /\ d.cmd \in {"NONE", "IDENTIFY", "READ_PIO", "WRITE_PIO", "CACHE_FLUSH"}
      BY DEF DriveStates
<1>3. PICK stores \in BOOLEAN : stores <=> d.hold # NoValue
      OBVIOUS
<1>4. stores => d.left > 0 /\ d.addr \in Sectors /\ d.hold \in Values
      BY <1>1, <1>2, <1>3 DEF AInv, Transfers
<1>5. PICK next \in Nat : next = IF stores THEN d.addr + 1 ELSE d.addr
      BY <1>2
<1>6. PICK left \in Nat : left = IF stores THEN d.left - 1 ELSE d.left
  <2>1. stores => d.left - 1 \in Nat
        BY <1>2, <1>4
  <2> QED BY <1>2, <2>1
<1>7. PICK more \in BOOLEAN : more <=> d.cmd \in {"READ_PIO", "WRITE_PIO"} /\ left > 0
      OBVIOUS
<1>8. PICK new : new = IF more \/ d.cmd = "IDENTIFY"
                       THEN [d EXCEPT !.state = "data", !.addr = next, !.left = left,
                                      !.hold = NoValue]
                       ELSE Idle
      OBVIOUS
<1>9. /\ d.state = "busy" /\ (more => next \in Sectors) /\ UNCHANGED failed
      /\ media' = IF stores THEN [media EXCEPT ![p][d.addr] = d.hold] ELSE media
      /\ drive' = [drive EXCEPT ![p] = new]
      BY <1>1, <1>3, <1>5, <1>6, <1>7, <1>8 DEF DriveGoesOn
<1>10. ~Quiet(p)
       BY <1>1, <1>9 DEF Quiet
<1>11. /\ new \in DriveStates /\ new.hold = NoValue
       /\ \/ /\ more \/ d.cmd = "IDENTIFY"
             /\ new.state = "data" /\ new.cmd = d.cmd /\ new.addr = next
             /\ new.left = left
          \/ ~more /\ new.state = "ready" /\ new.cmd = "NONE"
  <2>1. CASE more \/ d.cmd = "IDENTIFY"
        BY <1>8, <2>1 DEF DriveStates
  <2>2. CASE ~(more \/ d.cmd = "IDENTIFY")
        BY <1>8, <2>2 DEF DriveStates, Idle
  <2> QED BY <2>1, <2>2
<1>12. /\ stores => /\ next = d.addr + 1 /\ left = d.left - 1
                    /\ media' = [media EXCEPT ![p][d.addr] = d.hold]
       /\ ~stores => next = d.addr /\ left = d.left /\ media' = media
       BY <1>5, <1>6, <1>9
<1>13. new.state # "settling"
       BY <1>11
<1>14. new.cmd \in {"READ_PIO", "WRITE_PIO"} =>
          /\ new.cmd = d.cmd /\ new.left = left /\ new.addr = next
          /\ new.state = "data" /\ left > 0 /\ next \in Sectors
       BY <1>7, <1>9, <1>11
<1>15. d.cmd \in {"READ_PIO", "WRITE_PIO"} /\ left > 0 => new.cmd = d.cmd
       BY <1>7, <1>11
<1> QED BY <1>1, <1>3, <1>4, <1>9, <1>10, <1>11, <1>12, <1>13, <1>14, <1>15

(* A drive that stores a sector stores the one that it was given last, in  *)
(* the place that the request means.                                       *)
LEMMA StoresAsAsked ==
    ASSUME AInv, NEW p \in Places, ~Quiet(p), drive[p].hold # NoValue
    PROVE  /\ Sent /\ pc # "idle" /\ ~Identifying /\ request.direction = ATA_WRITE
           /\ p = Target /\ i > 0 /\ Stored = i - 1
           /\ drive[p].addr = request.lba + (i - 1) /\ drive[p].hold = buffer[i - 1]
           /\ drive[p].addr \in Sectors
<1>1. /\ Sent /\ request.direction = ATA_WRITE /\ i > 0
      /\ drive[p].cmd = "WRITE_PIO" /\ drive[p].addr \in Sectors
      BY DEF AInv, Transfers
<1>2. pc # "idle" /\ ~Identifying
      BY <1>1 DEF Sent, Polling, Identifying
<1>3. p = Target
      BY <1>2, CallHasDrive
<1>4. Stored = i - 1
      BY <1>3 DEF Stored
<1>5. drive[p].addr = request.lba + (i - 1) /\ drive[p].hold = buffer[i - 1]
      BY <1>1, <1>3, <1>4 DEF AInv, Writing
<1> QED BY <1>1, <1>2, <1>3, <1>4, <1>5

(* A drive goes on with the command.                                       *)
LEMMA DriveGoesOnKeeps ==
    ASSUME AInv, NEW p \in Places, DriveGoesOn(p),
           UNCHANGED <<connected, selected, found, pc, polling, call>>
    PROVE  AInv'
<1>1. PICK d \in DriveStates, new \in DriveStates, stores \in BOOLEAN,
           next \in Nat, left \in Nat :
         /\ d = drive[p] /\ ~Quiet(p)
         /\ drive' = [drive EXCEPT ![p] = new] /\ UNCHANGED failed
         /\ stores <=> d.hold # NoValue
         /\ stores => /\ next = d.addr + 1 /\ left = d.left - 1
                      /\ d.addr \in Sectors /\ d.hold \in Values
                      /\ media' = [media EXCEPT ![p][d.addr] = d.hold]
         /\ ~stores => next = d.addr /\ left = d.left /\ media' = media
         /\ new.state # "settling" /\ new.hold = NoValue
         /\ new.cmd \in {"READ_PIO", "WRITE_PIO"} =>
               /\ new.cmd = d.cmd /\ new.left = left /\ new.addr = next
               /\ new.state = "data" /\ left > 0 /\ next \in Sectors
         /\ d.cmd \in {"READ_PIO", "WRITE_PIO"} /\ left > 0 => new.cmd = d.cmd
      BY DriveGoesOnTo
<1>2. d.addr \in Nat /\ d.left \in Nat
      BY DEF DriveStates
<1>3. media' \in [Places -> [Sectors -> Values]]
  <2>1. media \in [Places -> [Sectors -> Values]]
        BY DEF AInv, Typed
  <2>2. CASE stores
    <3>1. PICK f \in [Sectors -> Values] : f = [media[p] EXCEPT ![d.addr] = d.hold]
          BY <1>1, <2>1, <2>2
    <3>2. media' = [media EXCEPT ![p] = f]
          BY <1>1, <2>2, <3>1
    <3> QED BY <2>1, <3>2
  <2>3. CASE ~stores
        BY <1>1, <2>1, <2>3
  <2> QED BY <2>2, <2>3
<1>4. /\ Typed' /\ Devices' /\ Transfers' /\ Working' /\ Place'
      /\ (Sent' <=> Sent) /\ Device' = Device /\ Target' = Target
      /\ drive'[p] = new /\ (Sent => p = Target)
      BY <1>1, <1>3, DriveChanges
<1>5. UNCHANGED <<pc, request, i, buffer, answer>>
      BY DEF call
<1>6. PICK lba \in Nat, num \in Nat : lba = request.lba /\ num = request.numsects
  <2>1. request.lba \in 0 .. UINT - 1 /\ UINT \in Int
        /\ request.numsects \in 0 .. MaxSectors /\ MaxSectors \in Int
        BY AtaAssumption DEF AInv, Typed, Requests, UINT
  <2> QED BY <2>1
<1>7. i \in Nat
      BY DEF AInv, Typed
<1>8. stores => /\ Sent /\ pc # "idle" /\ request.direction = ATA_WRITE /\ i > 0
                /\ d.addr = lba + (i - 1) /\ d.hold = buffer[i - 1]
      BY <1>1, <1>6, StoresAsAsked
<1>9. Sent => Stored = (IF stores THEN i - 1 ELSE i) /\ Stored' = i
      BY <1>1, <1>4, <1>5 DEF Stored
<1>10. Writing'
  <2>1. SUFFICES ASSUME Sent, request.direction = ATA_WRITE
                 PROVE  /\ new.cmd = "WRITE_PIO" => new.addr = lba + i
                        /\ ~failed =>
                             /\ i < num => new.cmd = "WRITE_PIO" /\ new.left = num - i
                             /\ \A k \in 0 .. i - 1 :
                                    media'[p][lba + k] = buffer[k]
        BY <1>1, <1>4, <1>5, <1>6, <1>9 DEF Writing
  <2>2. PICK done \in Nat : done = IF stores THEN i - 1 ELSE i
        BY <1>7, <1>8
  <2>3. /\ d.cmd = "WRITE_PIO" => d.addr = lba + done
        /\ ~failed => /\ done < num => d.cmd = "WRITE_PIO" /\ d.left = num - done
                      /\ \A k \in 0 .. done - 1 : media[p][lba + k] = buffer[k]
        BY <1>1, <1>4, <1>6, <1>9, <2>1, <2>2 DEF AInv, Writing
  <2>4. new.cmd = "WRITE_PIO" => new.addr = lba + i
    <3>1. SUFFICES ASSUME new.cmd = "WRITE_PIO" PROVE next = lba + i
          BY <1>1
    <3>2. d.addr = lba + done
          BY <1>1, <2>3, <3>1
    <3> QED BY <1>1, <1>7, <2>2, <3>2
  <2>5. ASSUME ~failed, i < num
        PROVE  new.cmd = "WRITE_PIO" /\ new.left = num - i
    <3>1. d.cmd = "WRITE_PIO" /\ d.left = num - done
          BY <1>7, <2>2, <2>3, <2>5
    <3>2. left = num - i /\ left > 0
          BY <1>1, <1>7, <2>2, <2>5, <3>1
    <3> QED BY <1>1, <3>1, <3>2
  <2>6. ASSUME ~failed, NEW k \in 0 .. i - 1
        PROVE  media'[p][lba + k] = buffer[k]
    <3>1. CASE ~stores
          BY <1>1, <2>2, <2>3, <2>6, <3>1
    <3>2. CASE stores /\ k = i - 1
      <4>1. media'[p][d.addr] = d.hold
            BY <1>1, <3>2 DEF AInv, Typed
      <4> QED BY <1>8, <3>2, <4>1
    <3>3. CASE stores /\ k # i - 1
      <4>1. k \in 0 .. done - 1 /\ lba + k # d.addr
            BY <1>7, <1>8, <2>2, <3>3
      <4>2. media'[p][lba + k] = media[p][lba + k]
        <5>1. media[p] \in [Sectors -> Values]
              BY DEF AInv, Typed
        <5>2. media'[p] = [media[p] EXCEPT ![d.addr] = d.hold]
              BY <1>1, <3>3 DEF AInv, Typed
        <5> QED BY <4>1, <5>1, <5>2
      <4> QED BY <2>3, <2>6, <4>1, <4>2
    <3> QED BY <3>1, <3>2, <3>3
  <2> QED BY <2>4, <2>5, <2>6
<1>11. Reading'
  <2>1. SUFFICES ASSUME Sent, request.direction = ATA_READ, ~failed
                 PROVE  /\ i < num => /\ new.cmd = "READ_PIO" /\ new.addr = lba + i
                                      /\ new.left = num - i
                        /\ \A k \in 0 .. i - 1 : buffer[k] = media[p][lba + k]
    <3>1. ~stores \/ ~(request.direction = ATA_READ)
          BY <1>8 DEF ATA_READ, ATA_WRITE
    <3> QED BY <1>1, <1>4, <1>5, <1>6, <2>1, <3>1 DEF Reading
  <2>2. ~stores
        BY <1>8, <2>1 DEF ATA_READ, ATA_WRITE
  <2>3. /\ i < num => d.cmd = "READ_PIO" /\ d.addr = lba + i /\ d.left = num - i
        /\ \A k \in 0 .. i - 1 : buffer[k] = media[p][lba + k]
        BY <1>1, <1>4, <1>6, <2>1 DEF AInv, Reading
  <2>4. ASSUME i < num
        PROVE  new.cmd = "READ_PIO" /\ new.addr = lba + i /\ new.left = num - i
    <3>1. left = num - i /\ left > 0 /\ next = lba + i
          BY <1>1, <1>7, <2>2, <2>3, <2>4
    <3> QED BY <1>1, <2>3, <2>4, <3>1
  <2> QED BY <2>3, <2>4
<1>12. ReadDelivers' /\ WriteStores'
  <2>1. CASE pc = "idle"
        BY <1>1, <1>4, <1>5, <1>8, <2>1 DEF AInv, ReadDelivers, WriteStores
  <2>2. CASE pc # "idle"
        BY <1>5, <2>2 DEF ReadDelivers, WriteStores
  <2> QED BY <2>1, <2>2
<1> QED BY <1>4, <1>10, <1>11, <1>12 DEF AInv

-----------------------------------------------------------------------------
(***************************************************************************)
(* The theorems.                                                           *)
(***************************************************************************)
(* Nothing happens.                                                        *)
LEMMA StutterKeeps == AInv /\ UNCHANGED vars => AInv'
<1> SUFFICES ASSUME AInv, UNCHANGED vars PROVE AInv'
    OBVIOUS
<1>1. UNCHANGED <<kind, lba_capable, drive, media, failed, selected, ide_devices,
                  place, pc, after, polled, request, i, buffer, answer>>
      BY DEF vars, drives, connected, found, polling, call
<1>2. (Identifying' <=> Identifying) /\ (Sent' <=> Sent) /\ (Polling' <=> Polling)
      BY <1>1 DEF Identifying, Sent, Polling
<1>3. Device' = Device /\ Target' = Target /\ Polled' = Polled /\ Stored' = Stored
      BY <1>1 DEF Device, Target, Polled, Stored
<1>4. Typed' /\ Devices'
      BY <1>1, <1>2 DEF AInv, Typed, Devices
<1>5. Transfers' /\ Working'
      BY <1>1, <1>2, <1>3 DEF AInv, Transfers, Working, Quiet
<1>6. Place'
      BY <1>1, <1>2 DEF AInv, Place, Refused, BufferTooSmall
<1>7. Writing' /\ Reading'
      BY <1>1, <1>2, <1>3 DEF AInv, Writing, Reading
<1>8. ReadDelivers' /\ WriteStores'
      BY <1>1, <1>3 DEF AInv, ReadDelivers, WriteStores
<1> QED BY <1>4, <1>5, <1>6, <1>7, <1>8 DEF AInv

(* Every step keeps the invariant.                                         *)
LEMMA NextKeepsAInv == AInv /\ [Next]_vars => AInv'
<1> SUFFICES ASSUME AInv, [Next]_vars PROVE AInv'
    OBVIOUS
<1>1. CASE Driver
  <2>1. CASE ATAIdentify
        BY <2>1, ATAIdentifyKeeps
  <2>2. CASE FirstStatus
        BY <2>2, FirstStatusKeeps
  <2>3. CASE IdentificationAwaited
        BY <2>3, StutterKeeps DEF IdentificationAwaited
  <2>4. CASE ReadIdentification
        BY <2>4, ReadIdentificationKeeps
  <2>5. CASE Delay
        BY <2>5, DelayKeeps
  <2>6. CASE TestBusy \/ ReadStatus
        BY <2>6, PollingKeeps
  <2>7. CASE SendCommand
        BY <2>7, SendCommandKeeps
  <2>8. CASE NextSector \/ LastSectorWritten
        BY <2>8, LoopKeeps
  <2>9. CASE LastSectorRead \/ PollingError \/ WriteEnds
        BY <2>9, ReturnKeeps
  <2>10. CASE ReadSector
         BY <2>10, ReadSectorKeeps
  <2>11. CASE WriteSector
         BY <2>11, WriteSectorKeeps
  <2>12. CASE CacheFlush
         BY <2>12, CacheFlushKeeps
  <2> QED BY <1>1, <2>1, <2>2, <2>3, <2>4, <2>5, <2>6, <2>7, <2>8, <2>9, <2>10,
             <2>11, <2>12 DEF Driver
<1>2. ASSUME NEW p \in Places, DriveSteps(p) PROVE AInv'
  <2>1. UNCHANGED <<connected, selected, found, pc, polling, call>>
        BY <1>2, DriverWaits
  <2>2. CASE DriveSettles(p)
        BY <2>1, <2>2, DriveSettlesKeeps
  <2>3. CASE DriveGoesOn(p)
        BY <2>1, <2>3, DriveGoesOnKeeps
  <2>4. CASE DriveFails(p)
        BY <2>1, <2>4, DriveFailsKeeps
  <2> QED BY <1>2, <2>2, <2>3, <2>4 DEF DriveSteps, DriveAnswers
<1>3. ASSUME NEW direction \in {ATA_READ, ATA_WRITE}, NEW lba \in Lbas,
             NEW numsects \in 0 .. MaxSectors, NEW room \in {0, MaxSectors},
             Request(direction, lba, numsects, room)
      PROVE  AInv'
      BY <1>3, RequestKeeps
<1>4. CASE UNCHANGED vars
      BY <1>4, StutterKeeps
<1> QED BY <1>1, <1>2, <1>3, <1>4 DEF Next

(* The invariant holds in every state.                                     *)
LEMMA SpecAInv == Spec => []AInv
BY InitAInv, NextKeepsAInv, PTL DEF Spec

(* What ide_initialize has found is what is there.                         *)
LEMMA FoundAreDrives == AInv => DevicesAreDrives
<1> SUFFICES ASSUME AInv PROVE DevicesAreDrives
    OBVIOUS
<1>1. ide_devices \in Seq(ide_device) /\ place \in Int
      BY AtaAssumption DEF AInv, Devices, Typed
<1>2. ASSUME NEW k \in DOMAIN ide_devices
      PROVE  \E p \in Places :
               /\ p = <<ide_devices[k].Channel, ide_devices[k].Drive>>
               /\ ide_devices[k].Type = kind[p] /\ kind[p] # "none"
               /\ 2 * p[1] + p[2] = Order(ide_devices[k])
               /\ 2 * p[1] + p[2] < place
  <2>1. PICK d \in ide_device : d = ide_devices[k]
        BY <1>1, ElementOfSeq, LenProperties
  <2>2. PICK p \in Places : p = <<d.Channel, d.Drive>>
        BY DEF ide_device, Places
  <2>3. kind[p] = d.Type /\ d.Type # "none" /\ Order(d) < place
        BY <2>1, <2>2 DEF AInv, Devices
  <2>4. 2 * p[1] + p[2] = Order(d)
        BY <2>2 DEF Order
  <2> QED BY <2>1, <2>2, <2>3, <2>4
<1>3. ASSUME NEW p \in Places, 2 * p[1] + p[2] < place, kind[p] # "none"
      PROVE  \E k \in DOMAIN ide_devices :
               /\ p = <<ide_devices[k].Channel, ide_devices[k].Drive>>
               /\ ide_devices[k].Type = kind[p]
  <2>1. PICK n \in Nat : n = 2 * p[1] + p[2] /\ n \in 0 .. place - 1
        /\ PlaceAt(n) = p
    <3>1. 2 * p[1] + p[2] \in 0 .. 2 * NChannels - 1
          BY NumberOfPlace
    <3> QED BY <1>1, <1>3, <3>1, NumberOfPlace, AtaAssumption
  <2>2. PICK k \in DOMAIN ide_devices : Order(ide_devices[k]) = n
        BY <1>3, <2>1 DEF AInv, Devices
  <2>3. PICK q \in Places :
           /\ q = <<ide_devices[k].Channel, ide_devices[k].Drive>>
           /\ ide_devices[k].Type = kind[q]
           /\ 2 * q[1] + q[2] = Order(ide_devices[k])
        BY <1>2
  <2>4. q = p
        BY <2>1, <2>2, <2>3, NumberOfPlace
  <2> QED BY <2>3, <2>4
<1>4. PICK earlier :
          earlier = {p \in Places : 2 * p[1] + p[2] < place /\ kind[p] # "none"}
      OBVIOUS
<1>5. {<<ide_devices[k].Channel, ide_devices[k].Drive, ide_devices[k].Type>> :
         k \in DOMAIN ide_devices} = {<<p[1], p[2], kind[p]>> : p \in earlier}
  <2>1. ASSUME NEW k \in DOMAIN ide_devices
        PROVE  \E p \in earlier :
                 <<ide_devices[k].Channel, ide_devices[k].Drive, ide_devices[k].Type>>
                   = <<p[1], p[2], kind[p]>>
    <3>1. PICK p \in Places :
               /\ p = <<ide_devices[k].Channel, ide_devices[k].Drive>>
               /\ ide_devices[k].Type = kind[p] /\ kind[p] # "none"
               /\ 2 * p[1] + p[2] < place
          BY <1>2
    <3>2. p \in earlier
          BY <1>4, <3>1
    <3>3. p[1] = ide_devices[k].Channel /\ p[2] = ide_devices[k].Drive
          BY <3>1
    <3> QED BY <3>1, <3>2, <3>3
  <2>2. ASSUME NEW p \in earlier
        PROVE  \E k \in DOMAIN ide_devices :
                 <<p[1], p[2], kind[p]>> =
                   <<ide_devices[k].Channel, ide_devices[k].Drive, ide_devices[k].Type>>
    <3>1. PICK k \in DOMAIN ide_devices :
               /\ p = <<ide_devices[k].Channel, ide_devices[k].Drive>>
               /\ ide_devices[k].Type = kind[p]
          BY <1>3, <1>4
    <3>2. p[1] = ide_devices[k].Channel /\ p[2] = ide_devices[k].Drive
          BY <3>1
    <3> QED BY <3>1, <3>2
  <2> DEFINE Of(k) == <<ide_devices[k].Channel, ide_devices[k].Drive,
                        ide_devices[k].Type>>
             With(p) == <<p[1], p[2], kind[p]>>
  <2>3. (\A k \in DOMAIN ide_devices : \E p \in earlier : Of(k) = With(p))
        /\ \A p \in earlier : \E k \in DOMAIN ide_devices : With(p) = Of(k)
        BY <2>1, <2>2
  <2> HIDE DEF Of, With
  <2>4. {Of(k) : k \in DOMAIN ide_devices} = {With(p) : p \in earlier}
        BY <2>3
  <2> QED BY <2>4 DEF Of, With
<1>6. \A k \in 2 .. Len(ide_devices) :
          Order(ide_devices[k - 1]) < Order(ide_devices[k])
      BY DEF AInv, Devices
<1> QED BY <1>4, <1>5, <1>6 DEF DevicesAreDrives, Order

(* The drives that ide_initialize finds are those that are there, in the   *)
(* order of their places, for any number of channels.                      *)
THEOREM DrivesAreFound == Spec => []DevicesAreDrives
BY SpecAInv, FoundAreDrives, PTL

(* No data word is moved while the drive is busy or about to be, whatever  *)
(* PoollingUntilReady makes of its missing return statement.               *)
THEOREM TransfersWait == Spec => []NoTransferWhileBusy
<1>1. AInv => NoTransferWhileBusy
      BY DEF AInv, Working, Quiet, NoTransferWhileBusy
<1> QED BY <1>1, SpecAInv, PTL

(* A read that comes back with ERROR_SUCCESS of a drive without an error   *)
(* has the sectors asked for in the buffer: the address that reaches the   *)
(* drive as LBA48, LBA28 or CHS is the one asked for, and every sector is  *)
(* taken at its own turn.                                                  *)
THEOREM ReadsAreDelivered == Spec => []ReadDelivers
<1>1. AInv => ReadDelivers
      BY DEF AInv
<1> QED BY <1>1, SpecAInv, PTL

(* A write that comes back from a drive without an error has stored every  *)
(* sector of the buffer, although the answer of the polling is ignored.    *)
THEOREM WritesAreStored == Spec => []WriteStores
<1>1. AInv => WriteStores
      BY DEF AInv
<1> QED BY <1>1, SpecAInv, PTL

(* A sector that changes lies in the range of the write that goes on, and  *)
(* gets what the buffer holds for it.                                      *)
THEOREM NothingElseIsWritten == Spec => OnlyAskedIsWritten
<1> DEFINE Changes ==
        \A p \in Places, s \in Sectors : media'[p][s] # media[p][s] =>
            /\ pc # "idle" /\ request.direction = ATA_WRITE
            /\ p = Target
            /\ s - request.lba \in 0 .. i - 1
            /\ media'[p][s] = buffer[s - request.lba]
<1>1. AInv /\ [Next]_vars => [Changes]_vars
  <2> SUFFICES ASSUME AInv, [Next]_vars, NEW p \in Places, NEW s \in Sectors,
                      media'[p][s] # media[p][s]
               PROVE  /\ pc # "idle" /\ request.direction = ATA_WRITE
                      /\ p = Target
                      /\ s - request.lba \in 0 .. i - 1
                      /\ media'[p][s] = buffer[s - request.lba]
      OBVIOUS
  <2>1. PICK q \in Places : DriveGoesOn(q)
    <3>1. media' # media
          OBVIOUS
    <3>2. CASE Driver
          BY <3>1, <3>2 DEF Driver, ATAIdentify, FirstStatus, IdentificationAwaited,
               ReadIdentification, Delay, TestBusy, ReadStatus, SendCommand, NextSector,
               LastSectorRead, PollingError, ReadSector, WriteSector, LastSectorWritten,
               CacheFlush, WriteEnds, Returns, WriteCommand, drives, vars
    <3>3. ASSUME NEW direction, NEW lba, NEW numsects, NEW room,
                 Request(direction, lba, numsects, room)
          PROVE  FALSE
          BY <3>1, <3>3 DEF Request
    <3>4. ASSUME NEW q \in Places, DriveSteps(q) PROVE DriveGoesOn(q)
          BY <3>1, <3>4 DEF DriveSteps, DriveSettles, DriveAnswers, DriveFails
    <3>5. ~UNCHANGED vars
          BY <3>1 DEF vars, drives
    <3> QED BY <3>2, <3>3, <3>4, <3>5 DEF Next
  <2>2. PICK d \in DriveStates :
          /\ d = drive[q] /\ ~Quiet(q)
          /\ d.hold # NoValue /\ media' = [media EXCEPT ![q][d.addr] = d.hold]
    <3>1. media' # media
          OBVIOUS
    <3>2. PICK d \in DriveStates, stores \in BOOLEAN :
             /\ d = drive[q] /\ ~Quiet(q)
             /\ stores <=> d.hold # NoValue
             /\ stores => media' = [media EXCEPT ![q][d.addr] = d.hold]
             /\ ~stores => media' = media
          BY <2>1, DriveGoesOnTo
    <3> QED BY <3>1, <3>2
  <2>3. /\ pc # "idle" /\ request.direction = ATA_WRITE /\ q = Target /\ i > 0
        /\ d.addr = request.lba + (i - 1) /\ d.hold = buffer[i - 1]
        BY <2>2, StoresAsAsked
  <2>4. p = q /\ s = d.addr
    <3>1. media \in [Places -> [Sectors -> Values]]
          BY DEF AInv, Typed
    <3> QED BY <2>2, <3>1
  <2>5. media'[p][s] = d.hold
        BY <2>2, <2>4 DEF AInv, Typed
  <2>6. s - request.lba = i - 1 /\ i \in Nat
    <3>1. request.lba \in 0 .. UINT - 1 /\ UINT \in Int /\ i \in Nat
          BY AtaAssumption DEF AInv, Typed, Requests, UINT
    <3> QED BY <2>3, <2>4, <3>1
  <2> QED BY <2>3, <2>4, <2>5, <2>6
<1>2. Spec => [][Changes]_vars
      BY <1>1, SpecAInv, PTL DEF Spec
<1> QED BY <1>2 DEF OnlyAskedIsWritten
=============================================================================
