---------------------------- MODULE OtaDownload ----------------------------
(***************************************************************************)
(* The download of a firmware package (otaUpdate.c): TCP hands the package *)
(* over in chains of pbufs of any length, RecvImageBytesCallback takes     *)
(* them apart into the AM and the SSM record and writes them to the slot   *)
(* that is not loaded, through a RAM buffer; at the end both records' CRCs *)
(* are compared.  A byte is a pair of the package and its place there.     *)
(* Which slot it is and the image registry are FwImages' subject.          *)
(***************************************************************************)
EXTENDS Integers, Sequences

CONSTANTS
    HeaderLen,  \* RECORD_HEADER_LEN: type and length, 5 in the code
    AmLen,      \* bytes of the AM record
    SsmLen,     \* bytes of the SSM record
    FirstMin,   \* bytes of the first packet that are parsed, up to the version
                \* (a first packet with fewer is not modelled)
    BufferMax,  \* MAX_CHARS_FROM_OTA_TO_STORE_IN_RAM
    PageSize,   \* PAGE_DATA_SIZE, the longest packet accepted
    LongPacket, \* bound: the longest packet TCP delivers
    StaleMax,   \* bound: bytes of refused packages tempBufferIdx still counts
                \* when a download begins
    NumDownloads    \* bound: downloads begun

\* A packet is shorter than the AM record and than the buffer, which in the
\* code is 40 pages long.
ASSUME OtaAssumption ==
    /\ {HeaderLen, AmLen, SsmLen, FirstMin, BufferMax, PageSize, LongPacket,
     NumDownloads}
          \subseteq Nat \ {0}
    /\ StaleMax \in Nat /\ StaleMax + PageSize <= BufferMax + HeaderLen
    /\ HeaderLen < FirstMin /\ FirstMin <= PageSize
    /\ PageSize < HeaderLen + AmLen /\ PageSize < BufferMax

VARIABLES
    file,     \* the package under way
    sent,     \* bytes of it that TCP has delivered
    ram,      \* the static variables of otaUpdate.c
    flash,    \* the AM and the SSM half of the slot
    verdict,  \* the event posted: "none" yet, "complete", "fail"; or "idle"
    begun,    \* history: downloads begun
    odd       \* history: how this download differs from what the code expects

vars == <<file, sent, ram, flash, verdict, begun, odd>>

\* "split": the SSM record's header came in two packets; "pbufs": a packet had
\* more than three; "long": one was longer than a page; "again": it is not the
\* first download since the reset.
Oddities == {"split", "pbufs", "long", "again"}

\* "damaged": a CRC is wrong; "foreign": the first record is neither AM_IMAGE
\* nor SSM_IMAGE; "lone": the second one is not SSM_IMAGE.
Files == {"good", "damaged", "foreign", "lone"}
AmEnd == HeaderLen + AmLen
FileSize == AmEnd + HeaderLen + SsmLen

Bytes(f, first, last) ==
    [i \in 1 .. (IF last < first THEN 0 ELSE last - first + 1)
        |-> <<f, first + i - 1>>]
Junk == <<"none", 0>>
Upto(n, limit) == IF n < limit THEN n ELSE limit
First(s, n) == SubSeq(s, 1, Upto(n, Len(s)))

RamAtReset ==
    [downloadState |-> "FIRST_PACKET", totalIncomingBytes |-> 0,
     buffer |-> <<>>, half |-> "am", offset |-> 0, stale |-> 0,
     typeIsSsm |-> FALSE, ssmLengthRead |-> TRUE, crcFresh |-> TRUE]

Init ==
    /\ file \in Files
    /\ sent = 0
    /\ ram = RamAtReset
    /\ flash = [am |-> <<>>, ssm |-> <<>>]
    /\ verdict = "idle"
    /\ begun = 0 /\ odd = {}

\* FLASH_write at nextAddrToStoreImage
Stored(contents, r, bytes) ==
    [contents EXCEPT ![r.half] =
        SubSeq(@, 1, r.offset) \o bytes
            \o SubSeq(@, r.offset + Len(bytes) + 1, Len(@))]

-----------------------------------------------------------------------------
\* OTA_initDownload.  Nothing but the addresses is set: after a download that
\* failed, state, counts and CRC are as it left them.
OTA_initDownload ==
    /\ verdict \in {"idle", "fail"} /\ ram.stale <= StaleMax
    /\ begun < NumDownloads /\ begun' = begun + 1
    /\ file' \in Files
    /\ sent' = 0
    /\ ram' = [ram EXCEPT !.half = "am", !.offset = 0]
    /\ verdict' = "none"
    /\ odd' = IF ram = RamAtReset THEN {} ELSE {"again"}
    /\ UNCHANGED flash

\* The AM goes to standby or is reset: the connection and the RAM are gone.
PowerDown ==
    /\ verdict' = "idle"
    /\ ram' = RamAtReset
    /\ UNCHANGED <<file, sent, flash, begun, odd>>

\* Not in the package format: FW_DOWNLOAD_FAIL, and the connection is closed.
Bail(r, contents) ==
    /\ ram' = r
    /\ flash' = contents
    /\ verdict' = "fail"

\* The CRC of the first bytes of each half, over the record lengths read.
CrcsHold(r, contents) ==
    \E f \in Files \ {"damaged"} :
        /\ r.crcFresh /\ r.ssmLengthRead
        /\ First(contents.am, AmLen) = Bytes(f, HeaderLen + 1, AmEnd)
        /\ First(contents.ssm, SsmLen)
              = Bytes(f, AmEnd + HeaderLen + 1, FileSize)

\* Mutant of GoesOn: the last bytes are left in the buffer.
GoesOnUnwritten(r, contents, len) ==
    LET total == r.totalIncomingBytes + len
        holds == CrcsHold(r, contents)
    IN  IF total < FileSize
        THEN /\ ram' = [r EXCEPT !.totalIncomingBytes = total]
             /\ flash' = contents
             /\ UNCHANGED verdict
        ELSE /\ ram' = [r EXCEPT !.totalIncomingBytes = 0, !.buffer = <<>>,
                                 !.crcFresh = FALSE]
             /\ flash' = IF holds THEN contents
                         ELSE [contents EXCEPT !.am = <<>>]
             /\ verdict' = IF holds THEN "complete" ELSE "fail"

\* Mutant of GoesOn: the count is not cleared after the last packet.
GoesOnUncleared(r, contents, len) ==
    LET total == r.totalIncomingBytes + len
        all == Stored(contents, r, r.buffer)
        holds == CrcsHold(r, all)
    IN  /\ ram' = [r EXCEPT !.totalIncomingBytes = total]
        /\ flash' = IF total < FileSize THEN contents ELSE all
        /\ verdict' = IF total < FileSize THEN verdict
                      ELSE IF holds THEN "complete" ELSE "fail"

\* The end of RecvImageBytesCallback: after the last byte the buffer is written
\* and downloadFinishedUpdateRegistry checks the CRCs.  crc is left as the SSM
\* record's CRC left it; if they do not hold the AM half's start is overwritten.
GoesOn(r, contents, len) ==
    LET total == r.totalIncomingBytes + len
        all == Stored(contents, r, r.buffer)
        holds == CrcsHold(r, all)
    IN  IF total < FileSize
        THEN /\ ram' = [r EXCEPT !.totalIncomingBytes = total]
             /\ flash' = contents
             /\ UNCHANGED verdict
        ELSE /\ ram' = [r EXCEPT !.totalIncomingBytes = 0, !.buffer = <<>>,
                                 !.crcFresh = FALSE]
             /\ flash' = IF holds THEN all ELSE [all EXCEPT !.am = <<>>]
             /\ verdict' = IF holds THEN "complete" ELSE "fail"

\* Mutant of Full: the packet at hand is not counted.
FullWithoutPacket(len) == Len(ram.buffer) >= BufferMax
Full(len) == len + Len(ram.buffer) >= BufferMax

\* Before a packet is looked at, a buffer it might not fit in is written.
FlashBefore(len) == IF Full(len) THEN Stored(flash, ram, ram.buffer) ELSE flash
RamBefore(len) ==
    IF Full(len)
    THEN [ram EXCEPT !.offset = @ + Len(ram.buffer), !.buffer = <<>>] ELSE ram

SplitsHeader(n) == AmEnd < n /\ n < AmEnd + HeaderLen

\* A packet of len bytes, of which kept are in the first three pbufs.
Packet(len, kept) ==
    /\ verdict = "none"
    /\ kept <= len /\ len <= PageSize /\ sent + len <= FileSize
    /\ sent' = sent + len
    /\ odd' = odd \cup (IF kept < len THEN {"pbufs"} ELSE {})
                   \cup (IF SplitsHeader(sent + len) THEN {"split"} ELSE {})
    /\ UNCHANGED <<file, begun>>
Content(kept) == Bytes(file, sent + 1, sent + kept)

JunkBytes(n) == [i \in 1 .. n |-> Junk]

\* tempBufferIdx is not cleared when a package is refused here: the next one is
\* taken to be that much longer.
FirstPacket(len, kept) ==
    /\ Packet(len, kept)
    /\ ram.downloadState = "FIRST_PACKET"
    /\ kept >= FirstMin
    /\ IF file = "foreign"
       THEN Bail([RamBefore(len) EXCEPT !.stale = @ + kept], FlashBefore(len))
       ELSE GoesOn([RamBefore(len) EXCEPT
                      !.downloadState = "DOWNLOADING_AM_RECORD",
                      !.buffer = @ \o SubSeq(Content(kept), HeaderLen + 1, kept)
                                  \o JunkBytes(ram.stale),
                      !.stale = 0],
                   FlashBefore(len), len)

Crosses(len) == ram.totalIncomingBytes + len > AmEnd

\* Inside a record the bytes go to the buffer.
Inside(len, kept) ==
    /\ Packet(len, kept)
    /\ \/ ram.downloadState = "DOWNLOADING_AM_RECORD" /\ ~Crosses(len)
       \/ ram.downloadState = "DOWNLOADING_SSM_RECORD"
    /\ GoesOn([RamBefore(len) EXCEPT !.buffer = @ \o Content(kept)],
              FlashBefore(len), len)

\* What a byte looks like where the SSM record's type is expected: its type is
\* there; or the package's first byte; or any byte at all.
LooksLikeSsm(byte) ==
    IF byte = <<file, AmEnd + 1>> THEN {file # "lone"}
    ELSE IF byte = <<file, 1>> THEN {FALSE}
    ELSE BOOLEAN

\* The AM record ends in the packet, by the count of bytes, which after a
\* refused package is ahead: tempBufferForAmSsmCrossover holds the packet (of
\* such a later download, as if it came in one pbuf).
CrossOver(len, kept) ==
    LET amBytesInPacket == AmEnd - ram.totalIncomingBytes
        ssmBytesInPacket == len - amBytesInPacket
        temp == Content(kept) \o JunkBytes(len - kept)
        before == RamBefore(len)
        written == Stored(FlashBefore(len), before,
                          before.buffer \o SubSeq(temp, 1, amBytesInPacket))
        r == [before EXCEPT !.buffer = <<>>]
    IN  /\ Packet(len, kept)
        /\ ram.downloadState = "DOWNLOADING_AM_RECORD" /\ Crosses(len)
        /\ \E isSsm \in LooksLikeSsm(temp[amBytesInPacket + 1]) :
              IF ssmBytesInPacket < HeaderLen
              THEN GoesOn([r EXCEPT !.downloadState = "WAITING_ON_SSM_HEADER",
                                    !.typeIsSsm = isSsm],
                          written, len)
              ELSE IF ~isSsm THEN Bail(r, written)
              ELSE GoesOn([r EXCEPT
                             !.downloadState = "DOWNLOADING_SSM_RECORD",
                             !.half = "ssm", !.offset = 0,
                             !.buffer = SubSeq(temp,
                                            amBytesInPacket + HeaderLen + 1, len),
                             !.ssmLengthRead =
                                \A i \in 1 .. HeaderLen :
                                    temp[amBytesInPacket + i]
                                        = <<file, AmEnd + i>>],
                          written, len)

\* The rest of the SSM header: it is looked for in the second pbuf, and none of
\* it is skipped, for ssmBytesInPacket has been raised to RECORD_HEADER_LEN.
\* The type is that of the packet before, or of the refused package before.
RestOfHeader(len, kept) ==
    /\ Packet(len, kept)
    /\ ram.downloadState = "WAITING_ON_SSM_HEADER"
    /\ IF ~ram.typeIsSsm THEN Bail(RamBefore(len), FlashBefore(len))
       ELSE GoesOn([RamBefore(len) EXCEPT
                      !.downloadState = "DOWNLOADING_SSM_RECORD",
                      !.half = "ssm", !.offset = 0,
                      !.buffer = @ \o Content(kept),
                      !.ssmLengthRead = FALSE],
                   FlashBefore(len), len)

\* A packet longer than a page is dropped.
TooLong(len) ==
    /\ verdict = "none"
    /\ len > PageSize /\ sent + len <= FileSize
    /\ sent' = sent + len
    /\ odd' = odd \cup {"long"}
    /\ UNCHANGED <<file, ram, flash, verdict, begun>>

RecvImageBytesCallback(len, kept) ==
    \/ FirstPacket(len, kept) \/ Inside(len, kept)
    \/ CrossOver(len, kept) \/ RestOfHeader(len, kept)

\* Bound: one packet of a download is not taken in whole, by one byte.
Next ==
    \/ OTA_initDownload \/ PowerDown
    \/ \E len \in 1 .. LongPacket :
          \/ RecvImageBytesCallback(len, len)
          \/ odd = {} /\ RecvImageBytesCallback(len, len - 1)
          \/ odd = {} /\ TooLong(len)

Spec == Init /\ [][Next]_vars

-----------------------------------------------------------------------------
\* Types; between packets less than the whole package is counted.
TypeOK ==
    /\ file \in Files /\ sent \in 0 .. FileSize
    /\ ram.downloadState \in {"FIRST_PACKET", "DOWNLOADING_AM_RECORD",
                             "WAITING_ON_SSM_HEADER", "DOWNLOADING_SSM_RECORD"}
    /\ ram.totalIncomingBytes \in 0 .. FileSize - 1
    /\ ram.half \in {"am", "ssm"} /\ ram.offset \in Nat
    /\ ram.stale \in Nat /\ ram.typeIsSsm \in BOOLEAN
    /\ ram.ssmLengthRead \in BOOLEAN /\ ram.crcFresh \in BOOLEAN
    /\ verdict \in {"idle", "none", "complete", "fail"}
    /\ begun \in 0 .. NumDownloads /\ odd \subseteq Oddities

\* nextFlashWriteBuffer never holds more than MAX_CHARS_FROM_OTA_TO_STORE_IN_RAM
\* bytes, whatever the lengths of the packets (otaUpdate.c:405).
BufferFits == Len(ram.buffer) <= BufferMax

\* What of the package is in the slot or on its way there.
Copied(half, len) ==
    IF verdict = "complete" THEN First(flash[half], len)
    ELSE IF verdict # "none" \/ odd # {} THEN <<>>
    ELSE IF ram.half = half THEN First(flash[half], ram.offset) \o ram.buffer
    ELSE IF half = "am" THEN First(flash.am, len) ELSE <<>>

Copy == INSTANCE OtaCopy WITH
    taken <- sent, whole <- odd = {},
    am <- Copied("am", AmLen), ssm <- Copied("ssm", SsmLen)

\* The callback implements the copy: as long as the packets are such as it was
\* written for, each byte of the two records is in its place in the slot or the
\* buffer, wherever the packets begin and end; and whatever the packets were, a
\* package is only reported as complete if the slot holds all of a good one.
CopiesFile == Copy!Spec
=============================================================================
