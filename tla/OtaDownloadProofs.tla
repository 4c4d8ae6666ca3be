-------------------------- MODULE OtaDownloadProofs --------------------------
(***************************************************************************)
(* Proofs about OtaDownload, for records, headers, buffers, pages and      *)
(* packets of any length and any number of downloads: the RAM buffer never *)
(* overflows, and the callback implements OtaCopy.                         *)
(*                                                                         *)
(* The argument is about places: what the slot's half and the buffer hold  *)
(* together is an unbroken run of the package, and a packet continues it   *)
(* whether or not the buffer is written to flash first.                    *)
(***************************************************************************)
EXTENDS OtaDownload, SequenceTheorems, TLAPS

-----------------------------------------------------------------------------
(* Values.                                                                 *)

Byte == (Files \cup {"none"}) \X Nat

DownloadStates == {"FIRST_PACKET", "DOWNLOADING_AM_RECORD",
                   "WAITING_ON_SSM_HEADER", "DOWNLOADING_SSM_RECORD"}
Ram == [downloadState : DownloadStates, totalIncomingBytes : Nat,
        buffer : Seq(Byte), half : {"am", "ssm"}, offset : Nat,
        stale : Nat, typeIsSsm : BOOLEAN,
        ssmLengthRead : BOOLEAN, crcFresh : BOOLEAN]
Flash == [am : Seq(Byte), ssm : Seq(Byte)]

(* A function on 1 .. n is a sequence of that length.                      *)
LEMMA SeqOfFunction ==
    ASSUME NEW S, NEW n \in Nat, NEW s \in [1 .. n -> S]
    PROVE  s \in Seq(S) /\ Len(s) = n
<1>1. s \in Seq(S)
  BY SeqDef
<1>2. Len(s) \in Nat /\ DOMAIN s = 1 .. Len(s)
  BY <1>1, LenProperties
<1>3. 1 .. n = 1 .. Len(s)
  BY <1>2
<1>4. Len(s) = n
  <2>1. CASE n = 0
    BY <1>2, <1>3, <2>1
  <2>2. CASE n > 0
    <3>1. n \in 1 .. Len(s)
      BY <1>3, <2>2
    <3>2. Len(s) \in 1 .. n
      BY <1>2, <1>3, <3>1
    <3> QED
      BY <1>2, <3>1, <3>2
  <2> QED
    BY <2>1, <2>2
<1> QED
  BY <1>1, <1>4

(* What a run of bytes of the package is, place by place.                  *)
LEMMA BytesAre ==
    ASSUME NEW f \in Files, NEW first \in Nat, NEW last \in Int
    PROVE  /\ Bytes(f, first, last) \in Seq(Byte)
           /\ Len(Bytes(f, first, last))
                 = IF last < first THEN 0 ELSE last - first + 1
           /\ \A i \in 1 .. Len(Bytes(f, first, last)) :
                 Bytes(f, first, last)[i] = <<f, first + i - 1>>
<1> DEFINE n == IF last < first THEN 0 ELSE last - first + 1
           s == [i \in 1 .. n |-> <<f, first + i - 1>>]
<1>1. n \in Nat
  OBVIOUS
<1>2. \A i \in 1 .. n : first + i - 1 \in Nat
  BY <1>1
<1>3. s \in [1 .. n -> Byte]
  BY <1>2 DEF Byte
<1>4. s \in Seq(Byte) /\ Len(s) = n
  <2> HIDE DEF n, s
  <2> QED
    BY <1>1, <1>3, SeqOfFunction
<1>5. \A i \in 1 .. n : s[i] = <<f, first + i - 1>>
  OBVIOUS
<1>6. Bytes(f, first, last) = s
  BY DEF Bytes
<1> HIDE DEF s
<1> QED
  BY <1>4, <1>5, <1>6

(* Bytes that are not the package's.                                       *)
LEMMA JunkIsBytes ==
    ASSUME NEW n \in Nat
    PROVE  /\ JunkBytes(n) \in Seq(Byte) /\ Len(JunkBytes(n)) = n
           /\ \A i \in 1 .. n : JunkBytes(n)[i] = Junk
<1>1. [i \in 1 .. n |-> Junk] \in [1 .. n -> Byte]
  BY DEF Junk, Byte
<1> DEFINE s == [i \in 1 .. n |-> Junk]
<1>2. s \in [1 .. n -> Byte]
  BY <1>1
<1> HIDE DEF s
<1>3. s \in Seq(Byte) /\ Len(s) = n
  BY <1>2, SeqOfFunction
<1>4. s = JunkBytes(n) /\ \A i \in 1 .. n : s[i] = Junk
  BY DEF s, JunkBytes
<1> QED
  BY <1>3, <1>4

(* SubSeq, for the ranges that occur here.                                 *)
LEMMA PartOf ==
    ASSUME NEW S, NEW s \in Seq(S), NEW m \in Nat \ {0}, NEW n \in Nat,
           n <= Len(s)
    PROVE  /\ SubSeq(s, m, n) \in Seq(S)
           /\ Len(SubSeq(s, m, n)) = IF m <= n THEN n - m + 1 ELSE 0
           /\ \A i \in 1 .. Len(SubSeq(s, m, n)) :
                 SubSeq(s, m, n)[i] = s[m + i - 1]
  OBVIOUS

(* Concatenation, with the indexes in range.                               *)
LEMMA JoinIs ==
    ASSUME NEW S, NEW s \in Seq(S), NEW t \in Seq(S)
    PROVE  /\ s \o t \in Seq(S)
           /\ Len(s \o t) = Len(s) + Len(t)
           /\ \A i \in 1 .. Len(s) : (s \o t)[i] = s[i]
           /\ \A i \in 1 .. Len(t) : (s \o t)[Len(s) + i] = t[i]
  OBVIOUS

(* A write replaces the bytes it is meant to, keeps those before them, and *)
(* leaves the other half alone.                                            *)
LEMMA StoredIs ==
    ASSUME NEW c \in Flash, NEW r \in Ram, NEW bytes \in Seq(Byte),
           r.offset <= Len(c[r.half])
    PROVE  LET new == Stored(c, r, bytes)
           IN  /\ new \in Flash
               /\ r.offset + Len(bytes) <= Len(new[r.half])
               /\ \A i \in 1 .. r.offset : new[r.half][i] = c[r.half][i]
               /\ \A i \in 1 .. Len(bytes) : new[r.half][r.offset + i] = bytes[i]
               /\ \A h \in {"am", "ssm"} \ {r.half} : new[h] = c[h]
<1> DEFINE old == c[r.half]
           a == SubSeq(old, 1, r.offset)
           z == SubSeq(old, r.offset + Len(bytes) + 1, Len(old))
<1>1. /\ old \in Seq(Byte) /\ Len(old) \in Nat /\ Len(bytes) \in Nat
      /\ r.offset \in Nat /\ r.half \in {"am", "ssm"}
  BY LenProperties DEF Flash, Ram
<1>2. /\ a \in Seq(Byte) /\ Len(a) = r.offset
      /\ \A i \in 1 .. r.offset : a[i] = old[i]
  <2> HIDE DEF old
  <2> QED
    BY <1>1, PartOf DEF old
<1>3. z \in Seq(Byte) /\ Len(z) \in Nat
  <2> HIDE DEF old
  <2> QED
    BY <1>1, PartOf, LenProperties DEF old
<1> HIDE DEF old, a, z
<1> DEFINE ab == a \o bytes
<1>4. /\ ab \in Seq(Byte) /\ Len(ab) = r.offset + Len(bytes)
      /\ \A i \in 1 .. r.offset : ab[i] = a[i]
      /\ \A i \in 1 .. Len(bytes) : ab[r.offset + i] = bytes[i]
  <2>1. /\ ab \in Seq(Byte)
        /\ Len(ab) = Len(a) + Len(bytes)
        /\ \A i \in 1 .. Len(a) : ab[i] = a[i]
        /\ \A i \in 1 .. Len(bytes) : ab[Len(a) + i] = bytes[i]
    <3>1. a \in Seq(Byte)
      BY <1>2
    <3> QED
      BY <3>1, JoinIs, SMT
  <2> HIDE DEF ab
  <2> QED
    BY <1>2, <2>1
<1> HIDE DEF ab
<1> DEFINE new == ab \o z
<1>5. /\ new \in Seq(Byte) /\ Len(new) = r.offset + Len(bytes) + Len(z)
      /\ \A i \in 1 .. r.offset + Len(bytes) : new[i] = ab[i]
  <2>1. /\ new \in Seq(Byte)
        /\ Len(new) = Len(ab) + Len(z)
        /\ \A i \in 1 .. Len(ab) : new[i] = ab[i]
    <3>1. ab \in Seq(Byte) /\ z \in Seq(Byte)
      BY <1>3, <1>4
    <3> QED
      BY <3>1, JoinIs, SMT
  <2> HIDE DEF new
  <2> QED
    BY <1>4, <2>1
<1>6. \A i \in 1 .. r.offset : i \in 1 .. r.offset + Len(bytes)
  BY <1>1
<1>7. \A i \in 1 .. Len(bytes) : r.offset + i \in 1 .. r.offset + Len(bytes)
  BY <1>1
<1> HIDE DEF new
<1>8. Stored(c, r, bytes) = [c EXCEPT ![r.half] = new]
  BY DEF Stored, new, ab, a, z, old
<1>9. /\ Stored(c, r, bytes) \in Flash
      /\ Stored(c, r, bytes)[r.half] = new
      /\ \A h \in {"am", "ssm"} \ {r.half} : Stored(c, r, bytes)[h] = c[h]
  BY <1>1, <1>5, <1>8 DEF Flash
<1>10. \A i \in 1 .. r.offset : new[i] = old[i]
  BY <1>2, <1>4, <1>5, <1>6, Zenon
<1>11. \A i \in 1 .. Len(bytes) : new[r.offset + i] = bytes[i]
  BY <1>4, <1>5, <1>7, Zenon
<1>12. r.offset + Len(bytes) <= Len(new)
  BY <1>1, <1>3, <1>5
<1> QED
  BY <1>9, <1>10, <1>11, <1>12 DEF old

-----------------------------------------------------------------------------
(* The invariant.  The state of a download is named by the package f, the  *)
(* slot c, the RAM r, the bytes counted t, those delivered n, and odd o.   *)

(* The bytes of the package after place p lie in the half up to the offset *)
(* and go on in the buffer.                                                *)
Laid(f, c, r, p) ==
    /\ \A i \in 1 .. r.offset : c[r.half][i] = <<f, p + i>>
    /\ \A i \in 1 .. Len(r.buffer) : r.buffer[i] = <<f, p + r.offset + i>>

AmLaid(f, c) ==
    /\ AmLen <= Len(c.am)
    /\ \A i \in 1 .. AmLen : c.am[i] = <<f, HeaderLen + i>>

(* The AM half begins, or will begin, with a byte of this package.         *)
BeginsHere(f, c, r) ==
    IF r.offset = 0 THEN 1 <= Len(r.buffer) /\ r.buffer[1][1] = f
                    ELSE 1 <= Len(c.am) /\ c.am[1][1] = f

(* The count is that of this package, unless it was ahead from the start.  *)
InAm(f, c, r, t, n) ==
    /\ 0 < t /\ t <= AmEnd
    /\ r.half = "am"
    /\ t <= n => f # "foreign" /\ BeginsHere(f, c, r)

(* Of a download whose CRCs can hold.                                      *)
InSsm(f, c, r) ==
    /\ r.half = "ssm"
    /\ f \notin {"foreign", "lone"}
    /\ 1 <= Len(c.am) /\ c.am[1][1] = f

(* Nothing odd has happened: the copy is exact.                            *)
Exact(f, c, r, t, n) ==
    /\ t = n /\ r.crcFresh /\ r.ssmLengthRead
    /\ r.downloadState # "WAITING_ON_SSM_HEADER"
    /\ r.downloadState = "FIRST_PACKET" => r.stale = 0
    /\ r.downloadState = "DOWNLOADING_AM_RECORD" =>
          /\ HeaderLen + r.offset + Len(r.buffer) = n
          /\ Laid(f, c, r, HeaderLen)
    /\ r.downloadState = "DOWNLOADING_SSM_RECORD" =>
          /\ AmEnd + HeaderLen + r.offset + Len(r.buffer) = n
          /\ Laid(f, c, r, AmEnd + HeaderLen)
          /\ AmLaid(f, c)

(* Before a first packet is accepted: as after a reset, but for the bytes  *)
(* of refused packages.                                                    *)
Untouched(r) ==
    /\ r.buffer = <<>> /\ r.half = "am" /\ r.offset = 0
    /\ r.crcFresh /\ r.ssmLengthRead

Waiting(r, t) == t < AmEnd + HeaderLen /\ r.buffer = <<>>

Sound(f, c, r, t, n, o) ==
    /\ r.offset <= Len(c[r.half])
    /\ r.stale <= StaleMax
    /\ r.downloadState = "FIRST_PACKET" => t = 0 /\ Untouched(r)
    /\ r.downloadState = "DOWNLOADING_AM_RECORD" => InAm(f, c, r, t, n)
    /\ r.downloadState = "WAITING_ON_SSM_HEADER" => Waiting(r, t)
    /\ r.downloadState = "DOWNLOADING_SSM_RECORD" /\ r.crcFresh /\ r.ssmLengthRead =>
          t <= n /\ InSsm(f, c, r)
    /\ o = {} => Exact(f, c, r, t, n)

(* What a package that was refused leaves behind.                          *)
Refused(r, t) ==
    /\ r.downloadState = "FIRST_PACKET" => t = 0 /\ Untouched(r)
    /\ r.downloadState = "DOWNLOADING_AM_RECORD" => 0 < t /\ t <= AmEnd
    /\ r.downloadState = "WAITING_ON_SSM_HEADER" => Waiting(r, t)
    /\ r.downloadState = "DOWNLOADING_SSM_RECORD" => ~r.crcFresh /\ t = 0

DownloadInv ==
    /\ TypeOK /\ BufferFits
    /\ ram \in Ram /\ flash \in Flash
    /\ verdict = "idle" => ram = RamAtReset
    /\ verdict = "none" =>
          Sound(file, flash, ram, ram.totalIncomingBytes, sent, odd)
    /\ verdict = "fail" => Refused(ram, ram.totalIncomingBytes)

LEMMA Sizes ==
    /\ {HeaderLen, AmLen, SsmLen, FirstMin, BufferMax, PageSize} \subseteq Nat \ {0}
    /\ AmEnd \in Nat /\ FileSize \in Nat
    /\ AmEnd = HeaderLen + AmLen /\ FileSize = AmEnd + HeaderLen + SsmLen
    /\ HeaderLen < FirstMin /\ FirstMin <= PageSize
    /\ PageSize < AmEnd /\ PageSize < BufferMax
    /\ StaleMax \in Nat /\ StaleMax + PageSize <= BufferMax + HeaderLen
BY OtaAssumption DEF AmEnd, FileSize

LEMMA ZeroIsCount == 0 \in 0 .. FileSize - 1
BY Sizes

LEMMA ResetRam == RamAtReset \in Ram /\ Len(RamAtReset.buffer) = 0
BY EmptySeq DEF RamAtReset, Ram, DownloadStates

(* All fields but offset and buffer.                                       *)
Same(q, r) ==
    /\ q.downloadState = r.downloadState
    /\ q.totalIncomingBytes = r.totalIncomingBytes
    /\ q.half = r.half
    /\ q.stale = r.stale
    /\ q.typeIsSsm = r.typeIsSsm
    /\ q.ssmLengthRead = r.ssmLengthRead
    /\ q.crcFresh = r.crcFresh

LEMMA Emptied ==
    ASSUME NEW r \in Ram, NEW o \in Nat
    PROVE  LET q == [r EXCEPT !.offset = o, !.buffer = <<>>]
           IN  /\ q \in Ram /\ Same(q, r)
               /\ q.offset = o /\ q.buffer = <<>> /\ Len(q.buffer) = 0
<1>1. <<>> \in Seq(Byte) /\ Len(<<>>) = 0
  BY EmptySeq
<1> QED
  BY <1>1 DEF Ram, Same

(* Writing the buffer first keeps what is known, and makes room for len.   *)
LEMMA FlushKeeps ==
    ASSUME NEW f, NEW r \in Ram, NEW c \in Flash, r.offset <= Len(c[r.half])
    PROVE  LET q == [r EXCEPT !.offset = r.offset + Len(r.buffer), !.buffer = <<>>]
               d == Stored(c, r, r.buffer)
           IN  /\ q \in Ram /\ d \in Flash /\ Same(q, r)
               /\ Len(q.buffer) = 0
               /\ q.offset = r.offset + Len(r.buffer)
               /\ q.offset <= Len(d[r.half])
               /\ r.half = "ssm" => d.am = c.am
               /\ \A p \in Nat : Laid(f, c, r, p) => Laid(f, d, q, p)
               /\ r.half = "am" /\ BeginsHere(f, c, r) => BeginsHere(f, d, q)
<1> DEFINE q == [r EXCEPT !.offset = r.offset + Len(r.buffer), !.buffer = <<>>]
           d == Stored(c, r, r.buffer)
           n == Len(r.buffer)
           old == c[r.half]
           new == d[r.half]
<1>1. r.buffer \in Seq(Byte) /\ n \in Nat /\ r.offset \in Nat /\ r.half \in {"am", "ssm"}
  BY LenProperties DEF Ram
<1>2. /\ d \in Flash
      /\ r.offset + n <= Len(new)
      /\ \A i \in 1 .. r.offset : new[i] = old[i]
      /\ \A i \in 1 .. n : new[r.offset + i] = r.buffer[i]
      /\ \A h \in {"am", "ssm"} \ {r.half} : d[h] = c[h]
  BY <1>1, StoredIs
<1>3. r.offset + n \in Nat
  BY <1>1
<1>4. /\ q \in Ram /\ Same(q, r) /\ q.offset = r.offset + n
      /\ q.buffer = <<>> /\ Len(q.buffer) = 0
  BY <1>3, Emptied
<1> HIDE DEF q, d, n
<1>5. ASSUME NEW p \in Nat, Laid(f, c, r, p)
      PROVE  Laid(f, d, q, p)
  <2> HIDE DEF old, new
  <2>1. /\ \A i \in 1 .. r.offset : old[i] = <<f, p + i>>
        /\ \A i \in 1 .. n : r.buffer[i] = <<f, p + r.offset + i>>
    BY <1>5 DEF Laid, old, n
  <2>2. \A i \in 1 .. r.offset + n : new[i] = <<f, p + i>>
    <3>1. /\ \A i \in 1 .. r.offset : new[i] = old[i]
          /\ \A i \in 1 .. n : new[r.offset + i] = r.buffer[i]
      BY <1>2
    <3>2. n \in Nat /\ r.offset \in Nat
      BY <1>1
    <3> TAKE i \in 1 .. r.offset + n
    <3>3. CASE i <= r.offset
      BY <2>1, <3>1, <3>3
    <3>4. CASE i > r.offset
      <4>1. PICK k \in 1 .. n : i = r.offset + k
        <5>1. i - r.offset \in 1 .. n /\ i = r.offset + (i - r.offset)
          BY <3>2, <3>4
        <5> QED
          BY <5>1
      <4>2. new[r.offset + k] = <<f, p + r.offset + k>>
        BY <2>1, <3>1
      <4>3. p + r.offset + k = p + (r.offset + k)
        BY <3>2
      <4> QED
        BY <4>1, <4>2, <4>3
    <3> QED
      BY <3>2, <3>3, <3>4
  <2>3. q.half = r.half
    BY <1>4 DEF Same
  <2> QED
    BY <1>4, <2>2, <2>3 DEF Laid, new
<1>6. ASSUME r.half = "am", BeginsHere(f, c, r)
      PROVE  BeginsHere(f, d, q)
  <2>1. d.am \in Seq(Byte) /\ Len(d.am) \in Nat
    BY <1>2, LenProperties DEF Flash
  <2>2. CASE r.offset = 0
    <3>1. 1 <= n /\ r.buffer[1][1] = f
      BY <1>6, <2>2 DEF BeginsHere, n
    <3>2. 1 \in 1 .. n /\ r.offset + 1 = 1 /\ r.offset + n >= 1
      BY <1>1, <2>2, <3>1
    <3>3. d.am[1] = r.buffer[1] /\ 1 <= Len(d.am)
      <4>1. d.am[r.offset + 1] = r.buffer[1]
        BY <1>2, <1>6, <3>2
      <4>2. d.am[1] = r.buffer[1]
        BY <2>2, <4>1
      <4>3. 1 <= Len(d.am)
        BY <1>1, <1>2, <1>6, <2>1, <3>2
      <4> QED
        BY <4>2, <4>3
    <3> QED
      BY <1>4, <3>1, <3>2, <3>3, <1>3 DEF BeginsHere
  <2>3. CASE r.offset # 0
    <3>1. 1 \in 1 .. r.offset /\ r.offset + n >= 1
      BY <1>1, <2>3
    <3>2. d.am[1] = c.am[1] /\ 1 <= Len(d.am)
      <4>1. d.am[1] = c.am[1]
        BY <1>2, <1>6, <3>1
      <4> QED
        BY <1>2, <1>3, <1>6, <2>1, <3>1, <4>1
    <3>3. c.am[1][1] = f
      BY <1>6, <2>3 DEF BeginsHere
    <3> QED
      BY <1>3, <1>4, <3>1, <3>2, <3>3 DEF BeginsHere
  <2> QED
    BY <2>2, <2>3
<1>7. r.half = "ssm" => d.am = c.am
  BY <1>2
<1>8. q.offset <= Len(d[r.half])
  BY <1>2, <1>4
<1> QED
  BY <1>2, <1>4, <1>5, <1>6, <1>7, <1>8 DEF q, d, n

LEMMA BeforeKeeps ==
    ASSUME DownloadInv, verdict = "none", NEW len \in 1 .. PageSize
    PROVE  LET r == RamBefore(len)
               c == FlashBefore(len)
           IN  /\ r \in Ram /\ c \in Flash /\ Same(r, ram)
               /\ len + Len(r.buffer) <= BufferMax
               /\ r.offset + Len(r.buffer) = ram.offset + Len(ram.buffer)
               /\ r.offset <= Len(c[r.half])
               /\ r.half = "ssm" => c.am = flash.am
               /\ \A p \in Nat : Laid(file, flash, ram, p) => Laid(file, c, r, p)
               /\ r.half = "am" /\ BeginsHere(file, flash, ram) =>
                     BeginsHere(file, c, r)
               /\ ram.buffer = <<>> => r = ram /\ c = flash
<1> DEFINE r == RamBefore(len)
           c == FlashBefore(len)
<1>1. ram \in Ram /\ flash \in Flash /\ ram.offset <= Len(flash[ram.half])
  BY DEF DownloadInv, Sound
<1>2. /\ ram.buffer \in Seq(Byte) /\ Len(ram.buffer) \in Nat
      /\ ram.offset \in Nat /\ Len(<<>>) = 0
  BY <1>1, EmptySeq, LenProperties DEF Ram
<1>3. len \in Nat \ {0} /\ BufferMax \in Nat /\ len < BufferMax
  BY Sizes
<1>4. CASE ~Full(len)
  <2>1. r = ram /\ c = flash
    BY <1>4 DEF RamBefore, FlashBefore
  <2>2. len + Len(ram.buffer) <= BufferMax
    BY <1>2, <1>3, <1>4 DEF Full
  <2>3. Same(ram, ram)
    BY DEF Same
  <2> HIDE DEF r, c
  <2> QED
    BY <1>1, <2>1, <2>2, <2>3 DEF r, c
<1>5. CASE Full(len)
  <2>1. r = [ram EXCEPT !.offset = ram.offset + Len(ram.buffer), !.buffer = <<>>]
    BY <1>1, <1>5 DEF RamBefore, Ram
  <2>2. c = Stored(flash, ram, ram.buffer)
    BY <1>5 DEF FlashBefore
  <2> HIDE DEF r, c
  <2>3. /\ r \in Ram /\ c \in Flash /\ Same(r, ram)
        /\ Len(r.buffer) = 0
        /\ r.offset = ram.offset + Len(ram.buffer)
        /\ r.offset <= Len(c[ram.half])
        /\ ram.half = "ssm" => c.am = flash.am
        /\ \A p \in Nat : Laid(file, flash, ram, p) => Laid(file, c, r, p)
        /\ ram.half = "am" /\ BeginsHere(file, flash, ram) => BeginsHere(file, c, r)
    BY <1>1, <2>1, <2>2, FlushKeeps
  <2>4. r.half = ram.half
    BY <2>3 DEF Same
  <2>5. ram.buffer # <<>>
    BY <1>2, <1>3, <1>5 DEF Full
  <2>6. /\ len + Len(r.buffer) <= BufferMax
        /\ r.offset + Len(r.buffer) = ram.offset + Len(ram.buffer)
    BY <1>2, <1>3, <2>3
  <2> QED
    BY <2>3, <2>4, <2>5, <2>6 DEF r, c
<1> QED
  BY <1>4, <1>5

(* What is known before the bytes are counted is known after.              *)
LEMMA CountedKeeps ==
    ASSUME NEW f, NEW c, NEW r \in Ram, NEW t, NEW n, NEW o, NEW total \in Nat,
           Sound(f, c, r, t, n, o), r.downloadState # "FIRST_PACKET"
    PROVE  LET q == [r EXCEPT !.totalIncomingBytes = total]
           IN  /\ q \in Ram /\ q.totalIncomingBytes = total
               /\ q.buffer = r.buffer
               /\ q.half = r.half /\ q.offset = r.offset
               /\ q.downloadState = r.downloadState
               /\ Sound(f, c, q, t, n, o)
<1> DEFINE q == [r EXCEPT !.totalIncomingBytes = total]
<1>1. /\ q \in Ram /\ q.totalIncomingBytes = total /\ q.buffer = r.buffer
      /\ q.half = r.half /\ q.offset = r.offset
      /\ q.downloadState = r.downloadState
      /\ q.crcFresh = r.crcFresh /\ q.ssmLengthRead = r.ssmLengthRead
      /\ q.stale = r.stale
  BY DEF Ram
<1> HIDE DEF q
<1>2. Sound(f, c, q, t, n, o)
  BY <1>1 DEF Sound, InAm, InSsm, Exact, BeginsHere, Laid, Waiting
<1> QED
  BY <1>1, <1>2 DEF q

(* A packet has come.                                                      *)
Taken(len) ==
    /\ len \in 1 .. PageSize
    /\ sent' = sent + len /\ sent' <= FileSize
    /\ odd' \subseteq Oddities /\ odd \subseteq odd'
    /\ UNCHANGED <<file, begun>>

LEMMA GoesOnKeeps ==
    ASSUME DownloadInv, verdict = "none", NEW len, Taken(len),
           NEW r \in Ram, NEW c \in Flash, Len(r.buffer) <= BufferMax,
           r.downloadState # "FIRST_PACKET",
           Sound(file, c, r, r.totalIncomingBytes + len, sent', odd'),
           GoesOn(r, c, len)
    PROVE  DownloadInv'
<1> DEFINE total == r.totalIncomingBytes + len
           all == Stored(c, r, r.buffer)
<1>1. total \in Nat /\ FileSize \in Nat /\ BufferMax \in Nat
  <2>1. r.totalIncomingBytes \in Nat /\ len \in Nat
    BY Sizes DEF Ram, Taken
  <2>2. FileSize \in Nat
    BY Sizes
  <2>3. BufferMax \in Nat
    BY Sizes
  <2>4. total \in Nat
    BY <2>1
  <2> HIDE DEF total
  <2> QED
    BY <2>2, <2>3, <2>4
<1>2. /\ file' \in Files /\ sent' \in 0 .. FileSize /\ begun' \in 0 .. NumDownloads
      /\ odd' \subseteq Oddities
  BY Sizes DEF DownloadInv, TypeOK, Taken
<1>3. CASE total < FileSize
  <2>1. /\ ram' = [r EXCEPT !.totalIncomingBytes = total]
        /\ flash' = c /\ verdict' = "none"
    BY <1>3 DEF GoesOn
  <2>2. /\ ram' \in Ram /\ ram'.totalIncomingBytes = total
        /\ ram'.buffer = r.buffer
        /\ Sound(file, c, ram', total, sent', odd')
    <3> HIDE DEF total
    <3> QED
      BY <1>1, <2>1, CountedKeeps DEF total
  <2>3. Sound(file, flash, ram, ram.totalIncomingBytes, sent, odd)'
    BY <2>1, <2>2 DEF Taken
  <2>4. TypeOK'
    BY <1>1, <1>2, <1>3, <2>1, <2>2 DEF TypeOK, Ram, DownloadStates
  <2>5. BufferFits'
    BY <2>2 DEF BufferFits
  <2> QED
    BY <2>1, <2>2, <2>3, <2>4, <2>5 DEF DownloadInv
<1>4. CASE ~(total < FileSize)
  <2>1. /\ ram' = [r EXCEPT !.totalIncomingBytes = 0, !.buffer = <<>>,
                            !.crcFresh = FALSE]
        /\ flash' \in {all, [all EXCEPT !.am = <<>>]}
        /\ verdict' \in {"complete", "fail"}
    BY <1>4 DEF GoesOn
  <2>2. <<>> \in Seq(Byte) /\ Len(<<>>) = 0
    BY EmptySeq
  <2>3. /\ ram' \in Ram /\ ram'.totalIncomingBytes = 0 /\ Len(ram'.buffer) = 0
        /\ ~ram'.crcFresh
    BY <2>1, <2>2 DEF Ram
  <2>4. all \in Flash
    <3>1. r.buffer \in Seq(Byte) /\ r.offset <= Len(c[r.half])
      BY DEF Ram, Sound
    <3> QED
      BY <3>1, StoredIs
  <2>5. flash' \in Flash
    <3> HIDE DEF all
    <3> QED
      BY <2>1, <2>2, <2>4 DEF Flash
  <2>6. TypeOK'
    <3> QED
      BY <1>2, <2>1, <2>3, ZeroIsCount DEF TypeOK, Ram, DownloadStates
  <2>7. BufferFits'
    BY <1>1, <2>3 DEF BufferFits
  <2>8. ram'.downloadState = r.downloadState
    BY <2>1 DEF Ram
  <2> HIDE DEF total, all
  <2>9. r.downloadState = "DOWNLOADING_SSM_RECORD"
    <3>1. ~(total <= AmEnd) /\ ~(total < AmEnd + HeaderLen)
      <4>1. /\ AmEnd \in Nat /\ HeaderLen \in Nat /\ SsmLen \in Nat
            /\ FileSize = AmEnd + HeaderLen + SsmLen
        BY Sizes
      <4>2. total \in Nat /\ ~(total < FileSize) /\ SsmLen # 0 /\ HeaderLen # 0
        BY <1>1, <1>4, Sizes
      <4> QED
        BY <4>1, <4>2
    <3>2. Sound(file, c, r, total, sent', odd')
      BY DEF total
    <3> QED
      BY <3>1, <3>2 DEF Sound, InAm, Waiting, Ram, DownloadStates
  <2>10. Refused(ram', ram'.totalIncomingBytes)
    BY <2>3, <2>8, <2>9 DEF Refused
  <2> QED
    BY <2>1, <2>3, <2>5, <2>6, <2>7, <2>10 DEF DownloadInv
<1> QED
  BY <1>3, <1>4

(* A package that is not in the format is given up.                        *)
LEMMA BailKeeps ==
    ASSUME DownloadInv, verdict = "none", NEW len, Taken(len),
           NEW r \in Ram, NEW c \in Flash, Len(r.buffer) <= BufferMax,
           r.totalIncomingBytes = ram.totalIncomingBytes,
           Refused(r, r.totalIncomingBytes),
           Bail(r, c)
    PROVE  DownloadInv'
<1>1. ram' = r /\ flash' = c /\ verdict' = "fail"
  BY DEF Bail
<1>2. TypeOK'
  BY <1>1, Sizes DEF DownloadInv, TypeOK, Ram, DownloadStates, Taken
<1>3. BufferFits'
  BY <1>1 DEF BufferFits
<1> QED
  BY <1>1, <1>2, <1>3 DEF DownloadInv

-----------------------------------------------------------------------------
(* The packets.                                                            *)

LEMMA PacketIsTaken ==
    ASSUME DownloadInv, NEW len \in Nat \ {0}, NEW kept \in Nat, Packet(len, kept)
    PROVE  /\ verdict = "none" /\ Taken(len) /\ kept <= len
           /\ odd' = {} => odd = {} /\ kept = len /\ ~SplitsHeader(sent + len)
<1>1. verdict = "none" /\ sent \in Nat /\ odd \subseteq Oddities
  BY DEF DownloadInv, TypeOK, Packet
<1>2. /\ kept <= len /\ len <= PageSize /\ sent + len <= FileSize
      /\ sent' = sent + len /\ UNCHANGED <<file, begun>>
      /\ odd' = odd \cup (IF kept < len THEN {"pbufs"} ELSE {})
                    \cup (IF SplitsHeader(sent + len) THEN {"split"} ELSE {})
  BY DEF Packet
<1>3. odd' \subseteq Oddities /\ odd \subseteq odd'
  BY <1>1, <1>2 DEF Oddities
<1>4. Taken(len)
  BY <1>1, <1>2, <1>3, Sizes DEF Taken
<1>5. odd' = {} => odd = {} /\ kept = len /\ ~SplitsHeader(sent + len)
  BY <1>2
<1> QED
  BY <1>1, <1>2, <1>4, <1>5

LEMMA ContentIs ==
    ASSUME DownloadInv, NEW kept \in Nat
    PROVE  /\ Content(kept) \in Seq(Byte) /\ Len(Content(kept)) = kept
           /\ \A i \in 1 .. kept : Content(kept)[i] = <<file, sent + i>>
<1>1. file \in Files /\ sent + 1 \in Nat /\ sent + kept \in Int /\ sent \in Nat
  BY DEF DownloadInv, TypeOK
<1> DEFINE m == sent + 1
           n == sent + kept
           b == Bytes(file, m, n)
<1> HIDE DEF m, n
<1>2. file \in Files /\ m \in Nat /\ n \in Int
  BY <1>1 DEF m, n
<1>3. /\ b \in Seq(Byte)
      /\ Len(b) = IF n < m THEN 0 ELSE n - m + 1
      /\ \A i \in 1 .. Len(b) : b[i] = <<file, m + i - 1>>
  BY <1>2, BytesAre
<1> HIDE DEF b
<1>4. Len(b) = kept
  BY <1>1, <1>3 DEF m, n
<1>5. \A i \in 1 .. kept : m + i - 1 = sent + i
  BY <1>1 DEF m
<1>6. \A i \in 1 .. kept : b[i] = <<file, sent + i>>
  BY <1>4, <1>5, <1>3
<1> QED
  BY <1>4, <1>6, <1>3 DEF Content, b, m, n

(* Bytes put behind those in the buffer.                                   *)
LEMMA AppendKeeps ==
    ASSUME NEW f, NEW c, NEW r \in Ram, NEW q, NEW b \in Seq(Byte),
           q.half = r.half, q.offset = r.offset, q.buffer = r.buffer \o b
    PROVE  /\ q.buffer \in Seq(Byte) /\ Len(q.buffer) = Len(r.buffer) + Len(b)
           /\ BeginsHere(f, c, r) => BeginsHere(f, c, q)
           /\ \A p \in Nat :
                 /\ Laid(f, c, r, p)
                 /\ \A i \in 1 .. Len(b) :
                       b[i] = <<f, p + r.offset + Len(r.buffer) + i>>
                 => Laid(f, c, q, p)
<1>1. /\ r.buffer \in Seq(Byte) /\ r.offset \in Nat
      /\ Len(r.buffer) \in Nat /\ Len(b) \in Nat
  BY LenProperties DEF Ram
<1> DEFINE a == r.buffer
           n == Len(r.buffer)
           m == Len(b)
<1> HIDE DEF a
<1>2. /\ a \o b \in Seq(Byte) /\ Len(a \o b) = Len(a) + Len(b)
      /\ \A i \in 1 .. Len(a) : (a \o b)[i] = a[i]
      /\ \A i \in 1 .. Len(b) : (a \o b)[Len(a) + i] = b[i]
  <2>1. a \in Seq(Byte)
    BY <1>1 DEF a
  <2> QED
    BY <2>1, JoinIs, SMT
<1>3. /\ q.buffer \in Seq(Byte) /\ Len(q.buffer) = n + m
      /\ \A i \in 1 .. n : q.buffer[i] = a[i]
      /\ \A i \in 1 .. m : q.buffer[n + i] = b[i]
  <2> DEFINE ab == a \o b
  <2>1. q.buffer = ab
    BY DEF a
  <2> HIDE DEF ab
  <2> QED
    BY <1>2, <2>1 DEF a, ab
<1> HIDE DEF n, m
<1>4. ASSUME BeginsHere(f, c, r)
      PROVE  BeginsHere(f, c, q)
  <2>1. CASE r.offset = 0
    <3>1. 1 <= n /\ a[1][1] = f
      BY <1>4, <2>1 DEF BeginsHere, a, n
    <3>2. 1 \in 1 .. n /\ 1 <= Len(q.buffer)
      BY <1>1, <1>3, <3>1 DEF n, m
    <3>3. q.buffer[1][1] = f
      BY <1>3, <3>1, <3>2
    <3> QED
      BY <2>1, <3>2, <3>3 DEF BeginsHere
  <2>2. CASE r.offset # 0
    BY <1>4, <2>2 DEF BeginsHere
  <2> QED
    BY <2>1, <2>2
<1>5. ASSUME NEW p \in Nat, Laid(f, c, r, p),
             \A i \in 1 .. m : b[i] = <<f, p + r.offset + n + i>>
      PROVE  Laid(f, c, q, p)
  <2>1. \A i \in 1 .. q.offset : c[q.half][i] = <<f, p + i>>
    BY <1>5 DEF Laid
  <2>2. ASSUME NEW i \in 1 .. n + m
        PROVE  q.buffer[i] = <<f, p + r.offset + i>>
    <3>1. CASE i <= n
      <4>1. i \in 1 .. n
        BY <1>1, <3>1 DEF n
      <4>2. a[i] = <<f, p + r.offset + i>>
        BY <1>5, <4>1 DEF Laid, a, n
      <4> QED
        BY <1>3, <4>1, <4>2
    <3>2. CASE i > n
      <4>1. PICK k \in 1 .. m : i = n + k
        <5>1. i - n \in 1 .. m /\ i = n + (i - n)
          BY <1>1, <3>2 DEF n, m
        <5> QED
          BY <5>1
      <4>2. q.buffer[n + k] = <<f, p + r.offset + n + k>>
        BY <1>3, <1>5
      <4>3. p + r.offset + n + k = p + r.offset + (n + k)
        BY <1>1 DEF n
      <4> QED
        BY <4>1, <4>2, <4>3
    <3> QED
      BY <1>1, <3>1, <3>2 DEF n, m
  <2> QED
    BY <1>3, <2>1, <2>2 DEF Laid
<1> QED
  BY <1>3, <1>4, <1>5 DEF n, m

(* What a packet leads to: the copy goes on, or is given up.               *)
Continues(len) ==
    \E r \in Ram, c \in Flash :
        /\ Len(r.buffer) <= BufferMax
        /\ r.downloadState # "FIRST_PACKET"
        /\ Sound(file, c, r, r.totalIncomingBytes + len, sent', odd')
        /\ GoesOn(r, c, len)

GivesUp ==
    /\ file # "good" \/ odd' # {}
    /\ \E r \in Ram, c \in Flash :
          /\ Len(r.buffer) <= BufferMax
          /\ r.totalIncomingBytes = ram.totalIncomingBytes
          /\ Refused(r, r.totalIncomingBytes)
          /\ Bail(r, c)

LEMMA FirstPacketIs ==
    ASSUME DownloadInv, NEW len \in Nat \ {0}, NEW kept \in Nat,
           FirstPacket(len, kept)
    PROVE  Continues(len) \/ GivesUp
<1> DEFINE A == SubSeq(Content(kept), HeaderLen + 1, kept)
           J == JunkBytes(ram.stale)
           X == A \o J
           r == [ram EXCEPT !.downloadState = "DOWNLOADING_AM_RECORD",
                            !.buffer = X, !.stale = 0]
           q == [ram EXCEPT !.stale = ram.stale + kept]
<1>1. /\ Packet(len, kept) /\ ram.downloadState = "FIRST_PACKET"
      /\ kept >= FirstMin
  BY DEF FirstPacket
<1>2. /\ verdict = "none" /\ Taken(len) /\ kept <= len
      /\ odd' = {} => odd = {} /\ kept = len
  BY <1>1, PacketIsTaken
<1>3. /\ ram \in Ram /\ flash \in Flash /\ sent \in Nat /\ file \in Files
      /\ Sound(file, flash, ram, ram.totalIncomingBytes, sent, odd)
  BY <1>2 DEF DownloadInv, TypeOK
<1>4. ram.totalIncomingBytes = 0 /\ ram.stale <= StaleMax /\ ram.stale \in Nat
  BY <1>1, <1>3 DEF Sound, Ram
<1>5. /\ ram.buffer = <<>> /\ ram.half = "am" /\ ram.offset = 0
      /\ ram.crcFresh /\ ram.ssmLengthRead
  BY <1>1, <1>3 DEF Sound, Untouched
<1>6. RamBefore(len) = ram /\ FlashBefore(len) = flash
  BY <1>2, <1>5, BeforeKeeps DEF Taken
<1>7. CASE file = "foreign"
  <2>1. Bail(q, flash)
    BY <1>1, <1>3, <1>6, <1>7 DEF FirstPacket, Ram
  <2>2. Len(q.buffer) <= BufferMax
    BY <1>3 DEF DownloadInv, BufferFits, Ram
  <2>3. ram.stale + kept \in Nat
    BY <1>4
  <2>4. /\ q \in Ram /\ q.downloadState = "FIRST_PACKET"
        /\ q.totalIncomingBytes = 0
    BY <1>1, <1>3, <1>4, <2>3 DEF Ram
  <2>5. Untouched(q)
    <3>1. /\ q.buffer = ram.buffer /\ q.half = ram.half /\ q.offset = ram.offset
          /\ q.crcFresh = ram.crcFresh /\ q.ssmLengthRead = ram.ssmLengthRead
      BY <1>3 DEF Ram
    <3> HIDE DEF q
    <3> QED
      BY <1>5, <3>1 DEF Untouched
  <2>6. Refused(q, q.totalIncomingBytes)
    BY <2>4, <2>5 DEF Refused
  <2> HIDE DEF q
  <2> QED
    BY <1>3, <1>4, <1>7, <2>1, <2>2, <2>4, <2>6 DEF GivesUp
<1>8. CASE file # "foreign"
  <2>1. /\ kept \in Nat /\ HeaderLen < kept /\ HeaderLen \in Nat \ {0}
        /\ kept <= PageSize /\ len <= PageSize /\ PageSize \in Nat
    BY <1>1, <1>2, Sizes DEF Taken
  <2>2. /\ A \in Seq(Byte) /\ Len(A) = kept - HeaderLen
        /\ \A i \in 1 .. Len(A) : A[i] = <<file, sent + HeaderLen + i>>
    <3> DEFINE C == Content(kept)
    <3>1. /\ C \in Seq(Byte) /\ Len(C) = kept
          /\ \A i \in 1 .. kept : C[i] = <<file, sent + i>>
      BY ContentIs
    <3> HIDE DEF C
    <3>2. /\ SubSeq(C, HeaderLen + 1, kept) \in Seq(Byte)
          /\ Len(SubSeq(C, HeaderLen + 1, kept)) = kept - HeaderLen
          /\ \A i \in 1 .. Len(SubSeq(C, HeaderLen + 1, kept)) :
                SubSeq(C, HeaderLen + 1, kept)[i] = C[HeaderLen + 1 + i - 1]
      BY <2>1, <3>1
    <3>3. A = SubSeq(C, HeaderLen + 1, kept)
      BY DEF C
    <3> HIDE DEF A
    <3>4. ASSUME NEW i \in 1 .. Len(A)
          PROVE  A[i] = <<file, sent + HeaderLen + i>>
      <4>1. /\ HeaderLen + 1 + i - 1 = HeaderLen + i
            /\ HeaderLen + i \in 1 .. kept
            /\ sent + (HeaderLen + i) = sent + HeaderLen + i
        <5>1. Len(A) = kept - HeaderLen
          BY <3>2, <3>3
        <5>2. i \in 1 .. (kept - HeaderLen)
          BY <5>1
        <5>3. sent \in Nat
          BY <1>3
        <5> QED
          BY <2>1, <5>2, <5>3
      <4> QED
        BY <3>1, <3>2, <3>3, <4>1
    <3> QED
      BY <3>2, <3>3, <3>4
  <2>3. /\ X \in Seq(Byte) /\ Len(X) = kept - HeaderLen + ram.stale
        /\ \A i \in 1 .. kept - HeaderLen : X[i] = <<file, sent + HeaderLen + i>>
    <3>1. J \in Seq(Byte) /\ Len(J) = ram.stale
      BY <1>4, JunkIsBytes
    <3> HIDE DEF A, J
    <3>2. /\ X \in Seq(Byte) /\ Len(X) = Len(A) + Len(J)
          /\ \A i \in 1 .. Len(A) : X[i] = A[i]
      BY <2>2, <3>1, JoinIs
    <3> HIDE DEF X
    <3> QED
      BY <2>2, <3>1, <3>2
  <2>4. ram.buffer \o A \o J = X
    <3>1. <<>> \o A = A
      BY <2>2, ConcatEmptySeq
    <3> QED
      BY <1>5, <3>1
  <2>5. GoesOn(r, flash, len)
    <3>1. GoesOn([ram EXCEPT !.downloadState = "DOWNLOADING_AM_RECORD",
                             !.buffer = ram.buffer \o A \o J, !.stale = 0],
                 flash, len)
      BY <1>3, <1>6, <1>8 DEF FirstPacket, Ram
    <3> QED
      BY <2>4, <3>1
  <2> HIDE DEF A, J, X
  <2>6. /\ r \in Ram /\ r.downloadState = "DOWNLOADING_AM_RECORD"
         /\ r.buffer = X /\ r.half = ram.half /\ r.offset = ram.offset
         /\ r.totalIncomingBytes = ram.totalIncomingBytes /\ r.stale = 0
         /\ r.crcFresh = ram.crcFresh /\ r.ssmLengthRead = ram.ssmLengthRead
    BY <1>3, <2>3 DEF Ram, DownloadStates
  <2> HIDE DEF r
  <2>7. /\ Len(r.buffer) = kept - HeaderLen + ram.stale
        /\ 1 <= Len(r.buffer) /\ r.buffer[1] = <<file, sent + HeaderLen + 1>>
    <3>1. 1 \in 1 .. kept - HeaderLen /\ 1 <= kept - HeaderLen + ram.stale
      BY <1>4, <2>1
    <3> QED
      BY <2>3, <2>6, <3>1
  <2>8. BeginsHere(file, flash, r)
    BY <1>5, <2>6, <2>7 DEF BeginsHere
  <2>9. InAm(file, flash, r, len, sent')
    <3>1. 0 < len /\ len <= AmEnd
      BY <2>1, Sizes
    <3> QED
      BY <1>5, <1>8, <2>6, <2>8, <3>1 DEF InAm
  <2>10. ASSUME odd' = {}
         PROVE  Exact(file, flash, r, len, sent')
    <3>1. sent = 0 /\ kept = len /\ sent' = len /\ ram.stale = 0
      BY <1>1, <1>2, <1>3, <1>4, <2>10 DEF Sound, Exact, Taken
    <3>2. ASSUME NEW i \in 1 .. Len(r.buffer)
          PROVE  r.buffer[i] = <<file, HeaderLen + r.offset + i>>
      <4>1. i \in 1 .. kept - HeaderLen
        BY <2>1, <2>7, <3>1
      <4>2. HeaderLen + r.offset + i = sent + HeaderLen + i
        BY <1>5, <2>1, <2>6, <3>1
      <4> QED
        BY <2>3, <2>6, <4>1, <4>2
    <3>3. \A i \in 1 .. r.offset : FALSE
      BY <1>5, <2>6
    <3>4. Laid(file, flash, r, HeaderLen)
      BY <3>2, <3>3 DEF Laid
    <3>5. HeaderLen + r.offset + Len(r.buffer) = sent'
      BY <1>5, <2>1, <2>6, <2>7, <3>1
    <3> QED
      BY <1>5, <2>6, <3>1, <3>4, <3>5 DEF Exact
  <2>11. Sound(file, flash, r, r.totalIncomingBytes + len, sent', odd')
    <3>1. r.totalIncomingBytes + len = len
      BY <1>4, <2>6
    <3>2. r.offset <= Len(flash[r.half])
      BY <1>3, <2>6 DEF Sound
    <3>3. r.stale <= StaleMax
      BY <2>6, Sizes
    <3> QED
      BY <2>6, <2>9, <2>10, <3>1, <3>2, <3>3 DEF Sound
  <2>12. Len(r.buffer) <= BufferMax
    <3> DEFINE l == Len(r.buffer)
               z == ram.stale
    <3>1. /\ l = kept - HeaderLen + z /\ z <= StaleMax /\ z \in Nat
          /\ kept <= PageSize
      BY <1>4, <2>1, <2>7
    <3> HIDE DEF l, z
    <3>2. l <= BufferMax
      BY <2>1, <3>1, Sizes
    <3> QED
      BY <3>2 DEF l
  <2> QED
    BY <1>3, <2>5, <2>6, <2>11, <2>12 DEF Continues
<1> QED
  BY <1>7, <1>8

LEMMA InsideIs ==
    ASSUME DownloadInv, NEW len \in Nat \ {0}, NEW kept \in Nat,
           Inside(len, kept)
    PROVE  Continues(len)
<1> DEFINE d == RamBefore(len)
           c == FlashBefore(len)
           X == Content(kept)
           r == [d EXCEPT !.buffer = d.buffer \o X]
           t == ram.totalIncomingBytes
<1>1. /\ Packet(len, kept)
      /\ \/ ram.downloadState = "DOWNLOADING_AM_RECORD" /\ t + len <= AmEnd
         \/ ram.downloadState = "DOWNLOADING_SSM_RECORD"
  <2>1. t \in Nat /\ AmEnd \in Nat
    BY Sizes DEF DownloadInv, Ram
  <2> QED
    BY <2>1 DEF Inside, Crosses
<1>2. /\ verdict = "none" /\ Taken(len) /\ kept <= len
      /\ odd' = {} => odd = {} /\ kept = len
  BY <1>1, PacketIsTaken
<1>3. /\ ram \in Ram /\ flash \in Flash /\ sent \in Nat /\ file \in Files
      /\ Sound(file, flash, ram, t, sent, odd)
      /\ ram.offset \in Nat /\ Len(ram.buffer) \in Nat /\ t \in Nat
  BY <1>2, LenProperties DEF DownloadInv, TypeOK, Ram
<1>4. len \in 1 .. PageSize /\ sent' = sent + len
  BY <1>2 DEF Taken
<1>5. /\ d \in Ram /\ c \in Flash /\ Same(d, ram)
      /\ len + Len(d.buffer) <= BufferMax
      /\ d.offset + Len(d.buffer) = ram.offset + Len(ram.buffer)
      /\ d.offset <= Len(c[d.half])
      /\ d.half = "ssm" => c.am = flash.am
      /\ \A p \in Nat : Laid(file, flash, ram, p) => Laid(file, c, d, p)
      /\ d.half = "am" /\ BeginsHere(file, flash, ram) => BeginsHere(file, c, d)
  BY <1>2, <1>4, BeforeKeeps
<1>6. /\ X \in Seq(Byte) /\ Len(X) = kept
      /\ \A i \in 1 .. kept : X[i] = <<file, sent + i>>
  BY ContentIs
<1>7. GoesOn(r, c, len)
  BY DEF Inside
<1> HIDE DEF d, c, X
<1>8. d.buffer \in Seq(Byte) /\ Len(d.buffer) \in Nat /\ d.offset \in Nat
  BY <1>5, LenProperties DEF Ram
<1>9. d.buffer \o X \in Seq(Byte)
  BY <1>6, <1>8
<1>10. /\ r \in Ram /\ Same(r, d) /\ r.offset = d.offset
       /\ r.buffer = d.buffer \o X
  <2> DEFINE b == d.buffer \o X
  <2>1. b \in Seq(Byte)
    BY <1>9
  <2> HIDE DEF b
  <2>2. LET q == [d EXCEPT !.buffer = b]
        IN  q \in Ram /\ Same(q, d) /\ q.offset = d.offset /\ q.buffer = b
    BY <1>5, <2>1 DEF Ram, Same
  <2> QED
    BY <2>2 DEF b
<1> HIDE DEF r
<1>11. /\ r.downloadState = ram.downloadState /\ r.totalIncomingBytes = t
       /\ r.half = ram.half /\ d.half = ram.half
       /\ r.crcFresh = ram.crcFresh /\ r.ssmLengthRead = ram.ssmLengthRead
       /\ r.stale = ram.stale
  BY <1>5, <1>10 DEF Same
<1> HIDE DEF t
<1>12. /\ Len(r.buffer) = Len(d.buffer) + kept
       /\ BeginsHere(file, c, d) => BeginsHere(file, c, r)
       /\ \A p \in Nat :
             /\ Laid(file, c, d, p)
             /\ \A i \in 1 .. Len(X) :
                   X[i] = <<file, p + d.offset + Len(d.buffer) + i>>
             => Laid(file, c, r, p)
  <2>1. r.half = d.half /\ r.offset = d.offset
    BY <1>10, <1>11
  <2>2. /\ Len(r.buffer) = Len(d.buffer) + Len(X)
        /\ BeginsHere(file, c, d) => BeginsHere(file, c, r)
        /\ \A p \in Nat :
              /\ Laid(file, c, d, p)
              /\ \A i \in 1 .. Len(X) :
                    X[i] = <<file, p + d.offset + Len(d.buffer) + i>>
              => Laid(file, c, r, p)
    BY <1>5, <1>6, <1>10, <2>1, AppendKeeps
  <2> QED
    BY <1>6, <2>2
<1>13. Len(r.buffer) <= BufferMax
  <2>1. /\ len + Len(d.buffer) <= BufferMax /\ Len(r.buffer) = Len(d.buffer) + kept
        /\ kept <= len /\ BufferMax \in Nat /\ Len(d.buffer) \in Nat
    BY <1>2, <1>5, <1>8, <1>12, Sizes
  <2> QED
    BY <2>1
<1>14. r.offset <= Len(c[r.half])
  BY <1>5, <1>10, <1>11
<1>15. t <= sent <=> t + len <= sent'
  BY <1>3, <1>4
(* The packet goes on where the bytes in half and buffer end.              *)
<1>16. ASSUME odd' = {}, NEW p \in Nat,
              p + ram.offset + Len(ram.buffer) = sent, Laid(file, flash, ram, p)
       PROVE  Laid(file, c, r, p) /\ p + r.offset + Len(r.buffer) = sent'
  <2>1. kept = len
    BY <1>2, <1>16
  <2>2. p + d.offset + Len(d.buffer) = sent
    <3> DEFINE m == Len(d.buffer)
               n == Len(ram.buffer)
               o == d.offset
               q == ram.offset
    <3>1. o + m = q + n /\ {o, m, q, n} \subseteq Nat
      BY <1>3, <1>5, <1>8
    <3>2. p + q + n = sent
      BY <1>16
    <3> HIDE DEF m, n, o, q
    <3>3. p + o + m = sent
      BY <3>1, <3>2
    <3> QED
      BY <3>3 DEF m, o
  <2>3. \A i \in 1 .. Len(X) : X[i] = <<file, p + d.offset + Len(d.buffer) + i>>
    BY <1>6, <2>2
  <2>4. Laid(file, c, d, p)
    BY <1>5, <1>16
  <2>5. Laid(file, c, r, p)
    BY <1>12, <2>3, <2>4
  <2>6. p + r.offset + Len(r.buffer) = sent'
    BY <1>4, <1>8, <1>10, <1>12, <2>1, <2>2
  <2> QED
    BY <2>5, <2>6
<1>17. odd' = {} => Exact(file, flash, ram, t, sent)
  BY <1>2, <1>3 DEF Sound
<1>18. CASE ram.downloadState = "DOWNLOADING_AM_RECORD" /\ t + len <= AmEnd
  <2>1. InAm(file, flash, ram, t, sent)
    BY <1>3, <1>18 DEF Sound
  <2>2. t <= sent => BeginsHere(file, c, r)
    BY <1>5, <1>11, <1>12, <2>1 DEF InAm
  <2>3. InAm(file, c, r, t + len, sent')
    <3>1. 0 < t + len
      BY <1>3, <1>4
    <3> QED
      BY <1>11, <1>15, <1>18, <2>1, <2>2, <3>1 DEF InAm
  <2>4. ASSUME odd' = {}
        PROVE  Exact(file, c, r, t + len, sent')
    <3>1. /\ t = sent /\ ram.crcFresh /\ ram.ssmLengthRead
          /\ HeaderLen + ram.offset + Len(ram.buffer) = sent
          /\ Laid(file, flash, ram, HeaderLen)
      BY <1>17, <1>18, <2>4 DEF Exact
    <3>2. Laid(file, c, r, HeaderLen) /\ HeaderLen + r.offset + Len(r.buffer) = sent'
      BY <1>16, <2>4, <3>1, Sizes
    <3> QED
      BY <1>4, <1>11, <1>18, <3>1, <3>2 DEF Exact
  <2>5. Sound(file, c, r, t + len, sent', odd')
    BY <1>3, <1>11, <1>14, <1>18, <2>3, <2>4 DEF Sound
  <2> QED
    BY <1>5, <1>7, <1>10, <1>11, <1>13, <1>18, <2>5 DEF Continues
<1>19. CASE ram.downloadState = "DOWNLOADING_SSM_RECORD"
  <2>1. ASSUME r.crcFresh, r.ssmLengthRead
        PROVE  t + len <= sent' /\ InSsm(file, c, r) /\ c.am = flash.am
    <3>1. t <= sent /\ InSsm(file, flash, ram)
      BY <1>3, <1>11, <1>19, <2>1 DEF Sound
    <3>2. c.am = flash.am
      BY <1>5, <1>11, <3>1 DEF InSsm
    <3> QED
      BY <1>11, <1>15, <3>1, <3>2 DEF InSsm
  <2>2. ASSUME odd' = {}
        PROVE  Exact(file, c, r, t + len, sent')
    <3>1. /\ t = sent /\ ram.crcFresh /\ ram.ssmLengthRead
          /\ AmEnd + HeaderLen + ram.offset + Len(ram.buffer) = sent
          /\ Laid(file, flash, ram, AmEnd + HeaderLen)
          /\ AmLaid(file, flash)
      BY <1>17, <1>19, <2>2 DEF Exact
    <3>2. AmEnd + HeaderLen \in Nat
      BY Sizes
    <3>3. /\ Laid(file, c, r, AmEnd + HeaderLen)
          /\ AmEnd + HeaderLen + r.offset + Len(r.buffer) = sent'
      BY <1>16, <2>2, <3>1, <3>2
    <3>4. AmLaid(file, c)
      BY <1>11, <2>1, <3>1 DEF AmLaid
    <3> QED
      BY <1>4, <1>11, <1>19, <3>1, <3>3, <3>4 DEF Exact
  <2>3. Sound(file, c, r, t + len, sent', odd')
    BY <1>3, <1>11, <1>14, <1>19, <2>1, <2>2 DEF Sound
  <2> QED
    BY <1>5, <1>7, <1>10, <1>11, <1>13, <1>19, <2>3 DEF Continues
<1> QED
  BY <1>1, <1>18, <1>19

LEMMA RestOfHeaderIs ==
    ASSUME DownloadInv, NEW len \in Nat \ {0}, NEW kept \in Nat,
           RestOfHeader(len, kept)
    PROVE  Continues(len) \/ GivesUp
<1> DEFINE d == RamBefore(len)
           c == FlashBefore(len)
           X == Content(kept)
           r == [d EXCEPT !.downloadState = "DOWNLOADING_SSM_RECORD",
                          !.half = "ssm", !.offset = 0,
                          !.buffer = d.buffer \o X,
                          !.ssmLengthRead = FALSE]
<1>1. Packet(len, kept) /\ ram.downloadState = "WAITING_ON_SSM_HEADER"
  BY DEF RestOfHeader
<1>2. /\ verdict = "none" /\ Taken(len) /\ kept <= len
      /\ odd' = {} => odd = {}
  BY <1>1, PacketIsTaken
<1>3. /\ ram.totalIncomingBytes \in Nat /\ sent \in Nat
      /\ Sound(file, flash, ram, ram.totalIncomingBytes, sent, odd)
  BY <1>2 DEF DownloadInv, TypeOK, Ram
<1>4. len \in 1 .. PageSize /\ sent' = sent + len
  BY <1>2 DEF Taken
<1>5. /\ d \in Ram /\ c \in Flash /\ Same(d, ram)
      /\ len + Len(d.buffer) <= BufferMax
      /\ ram.buffer = <<>> => d = ram
  BY <1>2, <1>4, BeforeKeeps
<1>6. X \in Seq(Byte) /\ Len(X) = kept
  BY ContentIs
<1>7. IF ~ram.typeIsSsm THEN Bail(d, c) ELSE GoesOn(r, c, len)
  BY DEF RestOfHeader
<1> HIDE DEF d, c, X
<1>8. d.buffer \in Seq(Byte) /\ Len(d.buffer) \in Nat
  BY <1>5, LenProperties DEF Ram
<1>9. odd' # {}
  BY <1>1, <1>2, <1>3 DEF Sound, Exact
<1>10. CASE ~ram.typeIsSsm
  <2>1. Len(d.buffer) <= BufferMax
    <3>1. len + Len(d.buffer) <= BufferMax /\ BufferMax \in Nat
      BY <1>5, Sizes
    <3> QED
      BY <1>8, <3>1
  <2>2. Refused(ram, ram.totalIncomingBytes) /\ d = ram
    BY <1>1, <1>3, <1>5 DEF Sound, Refused, Waiting
  <2> QED
    BY <1>5, <1>7, <1>10, <1>9, <2>1, <2>2 DEF GivesUp
<1>11. CASE ram.typeIsSsm
  <2> DEFINE b == d.buffer \o X
  <2>1. b \in Seq(Byte) /\ Len(b) = Len(d.buffer) + kept
    BY <1>6, <1>8
  <2> HIDE DEF b
  <2>2. LET q == [d EXCEPT !.downloadState = "DOWNLOADING_SSM_RECORD",
                           !.half = "ssm", !.offset = 0,
                           !.buffer = b, !.ssmLengthRead = FALSE]
        IN  /\ q \in Ram /\ q.downloadState = "DOWNLOADING_SSM_RECORD"
            /\ q.half = "ssm" /\ q.offset = 0 /\ q.buffer = b /\ ~q.ssmLengthRead
            /\ q.totalIncomingBytes = d.totalIncomingBytes
            /\ q.stale = d.stale
    BY <1>5, <2>1 DEF Ram, DownloadStates
  <2>3. /\ r \in Ram /\ r.downloadState = "DOWNLOADING_SSM_RECORD"
        /\ r.half = "ssm" /\ r.offset = 0 /\ r.buffer = b /\ ~r.ssmLengthRead
        /\ r.totalIncomingBytes = ram.totalIncomingBytes
        /\ r.stale <= StaleMax
    BY <1>3, <1>5, <2>2 DEF b, Same, Sound
  <2> HIDE DEF r
  <2>4. Len(r.buffer) <= BufferMax
    <3>1. /\ len + Len(d.buffer) <= BufferMax /\ BufferMax \in Nat
          /\ kept <= len /\ Len(r.buffer) = Len(d.buffer) + kept
      BY <1>2, <1>5, <2>1, <2>3, Sizes
    <3> QED
      BY <1>8, <3>1
  <2>5. r.offset <= Len(c[r.half])
    BY <1>5, <2>3, LenProperties DEF Flash
  <2>6. Sound(file, c, r, r.totalIncomingBytes + len, sent', odd')
    BY <1>9, <2>3, <2>5 DEF Sound
  <2> QED
    BY <1>5, <1>7, <1>11, <2>3, <2>4, <2>6 DEF Continues
<1> QED
  BY <1>10, <1>11

LEMMA CrossOverIs ==
    ASSUME DownloadInv, NEW len \in Nat \ {0}, NEW kept \in Nat,
           CrossOver(len, kept)
    PROVE  Continues(len) \/ GivesUp
<1> DEFINE d == RamBefore(len)
           c == FlashBefore(len)
           t == ram.totalIncomingBytes
           amB == AmEnd - t
           junk == JunkBytes(len - kept)
           C == Content(kept)
           temp == C \o junk
           run == d.buffer \o SubSeq(temp, 1, amB)
           written == Stored(c, d, run)
           e == [d EXCEPT !.buffer = <<>>]
           first == temp[amB + 1]
           header == \A i \in 1 .. HeaderLen : temp[amB + i] = <<file, AmEnd + i>>
           rWait(isSsm) == [e EXCEPT !.downloadState = "WAITING_ON_SSM_HEADER",
                                     !.typeIsSsm = isSsm]
           last == SubSeq(temp, amB + HeaderLen + 1, len)
           rSsm == [e EXCEPT !.downloadState = "DOWNLOADING_SSM_RECORD",
                             !.half = "ssm", !.offset = 0, !.buffer = last,
                             !.ssmLengthRead = header]
<1>1. /\ Packet(len, kept) /\ ram.downloadState = "DOWNLOADING_AM_RECORD"
      /\ t + len > AmEnd
      /\ \E isSsm \in LooksLikeSsm(first) :
            IF len - amB < HeaderLen THEN GoesOn(rWait(isSsm), written, len)
            ELSE IF ~isSsm THEN Bail(e, written)
            ELSE GoesOn(rSsm, written, len)
  BY DEF CrossOver, Crosses
<1>2. /\ verdict = "none" /\ Taken(len) /\ kept <= len
      /\ odd' = {} => odd = {} /\ kept = len /\ ~SplitsHeader(sent + len)
  BY <1>1, PacketIsTaken
<1>3. /\ ram \in Ram /\ flash \in Flash /\ sent \in Nat /\ file \in Files
      /\ Sound(file, flash, ram, t, sent, odd) /\ t \in Nat
      /\ ram.offset \in Nat /\ Len(ram.buffer) \in Nat
  BY <1>2, LenProperties DEF DownloadInv, TypeOK, Ram
<1>4. len \in 1 .. PageSize /\ sent' = sent + len
  BY <1>2 DEF Taken
<1>5. InAm(file, flash, ram, t, sent)
  BY <1>1, <1>3 DEF Sound
<1>6. /\ d \in Ram /\ c \in Flash /\ Same(d, ram)
      /\ len + Len(d.buffer) <= BufferMax
      /\ d.offset + Len(d.buffer) = ram.offset + Len(ram.buffer)
      /\ d.offset <= Len(c[d.half])
      /\ \A p \in Nat : Laid(file, flash, ram, p) => Laid(file, c, d, p)
      /\ d.half = "am" /\ BeginsHere(file, flash, ram) => BeginsHere(file, c, d)
  BY <1>2, <1>4, BeforeKeeps
<1>7. /\ amB \in Nat /\ amB < len /\ t <= AmEnd
      /\ AmEnd \in Nat /\ HeaderLen \in Nat \ {0} /\ AmEnd = HeaderLen + AmLen
      /\ AmLen \in Nat /\ FileSize \in Nat /\ AmEnd + HeaderLen < FileSize
      /\ BufferMax \in Nat /\ PageSize < BufferMax /\ PageSize \in Nat
  <2>1. t <= AmEnd
    BY <1>5 DEF InAm
  <2>2. /\ AmEnd \in Nat /\ HeaderLen \in Nat \ {0} /\ AmEnd = HeaderLen + AmLen
        /\ AmLen \in Nat /\ FileSize \in Nat /\ SsmLen \in Nat \ {0}
        /\ FileSize = AmEnd + HeaderLen + SsmLen
        /\ BufferMax \in Nat /\ PageSize < BufferMax /\ PageSize \in Nat
    BY Sizes
  <2>3. t \in Nat /\ t + len > AmEnd
    BY <1>1, <1>3
  <2> HIDE DEF t
  <2>4. amB \in Nat /\ amB < len
    BY <2>1, <2>2, <2>3
  <2>5. AmEnd + HeaderLen < FileSize
    BY <2>2
  <2> QED
    BY <2>1, <2>2, <2>4, <2>5
<1>8. /\ C \in Seq(Byte) /\ Len(C) = kept
      /\ \A i \in 1 .. kept : C[i] = <<file, sent + i>>
  BY ContentIs
<1>9. /\ junk \in Seq(Byte) /\ Len(junk) = len - kept
      /\ \A i \in 1 .. len - kept : junk[i] = Junk
  <2>1. len - kept \in Nat
    BY <1>2
  <2> QED
    BY <2>1, JunkIsBytes
<1> HIDE DEF d, c, C, junk
<1>10. /\ temp \in Seq(Byte) /\ Len(temp) = len
       /\ \A i \in 1 .. kept : temp[i] = <<file, sent + i>>
       /\ \A i \in 1 .. len - kept : temp[kept + i] = Junk
  <2>1. /\ temp \in Seq(Byte) /\ Len(temp) = kept + (len - kept)
        /\ \A i \in 1 .. kept : temp[i] = C[i]
        /\ \A i \in 1 .. len - kept : temp[kept + i] = junk[i]
    <3>1. C \in Seq(Byte) /\ junk \in Seq(Byte)
      BY <1>8, <1>9
    <3>2. /\ temp \in Seq(Byte) /\ Len(temp) = Len(C) + Len(junk)
          /\ \A i \in 1 .. Len(C) : temp[i] = C[i]
          /\ \A i \in 1 .. Len(junk) : temp[Len(C) + i] = junk[i]
      BY <3>1, JoinIs
    <3> HIDE DEF temp
    <3> QED
      BY <1>8, <1>9, <3>2
  <2> HIDE DEF temp
  <2>2. Len(temp) = len
    BY <1>2, <2>1
  <2>3. \A i \in 1 .. kept : temp[i] = <<file, sent + i>>
    BY <1>8, <2>1
  <2>4. \A i \in 1 .. len - kept : temp[kept + i] = Junk
    BY <1>9, <2>1
  <2> QED
    BY <2>1, <2>2, <2>3, <2>4
<1> HIDE DEF first, header
(* Where the SSM record's header is looked for.                            *)
<1>11. PICK isSsm \in LooksLikeSsm(first) :
          IF len - amB < HeaderLen THEN GoesOn(rWait(isSsm), written, len)
          ELSE IF ~isSsm THEN Bail(e, written)
          ELSE GoesOn(rSsm, written, len)
  BY <1>1
<1>12. isSsm \in BOOLEAN /\ header \in BOOLEAN
  BY DEF LooksLikeSsm, header
<1>13. ASSUME header
       PROVE  t <= sent
  <2>1. 1 \in 1 .. HeaderLen
    BY <1>7
  <2>2. temp[amB + 1] = <<file, AmEnd + 1>>
    BY <1>13, <2>1 DEF header
  <2> HIDE DEF temp
  <2>3. CASE amB + 1 <= kept
    <3> HIDE DEF amB
    <3>1. amB + 1 \in 1 .. kept
      BY <1>7, <2>3
    <3>2. sent + (amB + 1) = AmEnd + 1
      BY <1>10, <2>2, <3>1
    <3>3. sent + (AmEnd - t + 1) = AmEnd + 1
      BY <3>2 DEF amB
    <3> HIDE DEF t
    <3> QED
      BY <1>3, <1>7, <3>3
  <2>4. CASE ~(amB + 1 <= kept)
    <3> HIDE DEF amB
    <3>1. amB + 1 - kept \in 1 .. len - kept /\ kept + (amB + 1 - kept) = amB + 1
      BY <1>2, <1>4, <1>7, <2>4
    <3>2. temp[amB + 1] = Junk
      BY <1>10, <3>1
    <3>3. Junk # <<file, AmEnd + 1>>
      BY <1>7, Sizes DEF Junk
    <3> QED
      BY <2>2, <3>2, <3>3
  <2> QED
    BY <2>3, <2>4
<1>14. ASSUME t = sent, kept = len
       PROVE  /\ first = <<file, AmEnd + 1>>
              /\ ~(len - amB < HeaderLen) => header
  <2> HIDE DEF temp
  <2>1. ASSUME NEW i \in 1 .. len - amB
        PROVE  temp[amB + i] = <<file, AmEnd + i>>
    <3>1. amB + i \in 1 .. kept /\ sent + (amB + i) = AmEnd + i
      <4>1. amB = AmEnd - sent /\ i \in Nat
        BY <1>14
      <4> HIDE DEF amB, t
      <4> QED
        BY <1>3, <1>7, <1>14, <4>1
    <3> QED
      BY <1>10, <3>1
  <2> HIDE DEF amB
  <2>2. 1 \in 1 .. len - amB
    BY <1>7
  <2>3. ASSUME ~(len - amB < HeaderLen), NEW i \in 1 .. HeaderLen
        PROVE  i \in 1 .. len - amB
    BY <1>4, <1>7, <2>3
  <2> QED
    BY <2>1, <2>2, <2>3 DEF first, header
<1> HIDE DEF t, amB, temp
<1> DEFINE front == SubSeq(temp, 1, amB)
<1>15. /\ front \in Seq(Byte) /\ Len(front) = amB
       /\ \A i \in 1 .. amB : front[i] = temp[i]
  BY <1>7, <1>10
<1>16. d.half = "am" /\ d.buffer \in Seq(Byte) /\ Len(d.buffer) \in Nat /\ d.offset \in Nat
  BY <1>5, <1>6, LenProperties DEF InAm, Same, Ram
<1>17. run = d.buffer \o front
  OBVIOUS
<1> HIDE DEF front, run
<1>18. run \in Seq(Byte) /\ Len(run) = Len(d.buffer) + amB
  <2>1. front \in Seq(Byte) /\ d.buffer \in Seq(Byte)
    BY <1>15, <1>16
  <2>2. run \in Seq(Byte) /\ Len(run) = Len(d.buffer) + Len(front)
    BY <1>17, <2>1, JoinIs
  <2> QED
    BY <1>15, <2>2
(* The AM record's end put behind the buffer, and both written.            *)
<1> DEFINE q0 == [d EXCEPT !.buffer = run]
           q1 == [q0 EXCEPT !.offset = q0.offset + Len(q0.buffer), !.buffer = <<>>]
<1>19. q0 \in Ram /\ Same(q0, d) /\ q0.offset = d.offset /\ q0.buffer = run
  BY <1>6, <1>18 DEF Ram, Same
<1> HIDE DEF q0
<1>20. q0.half = "am" /\ Stored(c, q0, q0.buffer) = written
  BY <1>16, <1>19 DEF Same, Stored
<1>21. /\ BeginsHere(file, c, d) => BeginsHere(file, c, q0)
       /\ \A p \in Nat :
             /\ Laid(file, c, d, p)
             /\ \A i \in 1 .. Len(front) :
                   front[i] = <<file, p + d.offset + Len(d.buffer) + i>>
             => Laid(file, c, q0, p)
  <2>1. /\ q0.half = d.half /\ q0.offset = d.offset
        /\ q0.buffer = d.buffer \o front
    BY <1>16, <1>17, <1>19, <1>20
  <2>2. d \in Ram /\ front \in Seq(Byte)
    BY <1>6, <1>15
  <2> QED
    BY <2>1, <2>2, AppendKeeps
<1>22. /\ q1 \in Ram /\ written \in Flash
       /\ Same(q1, q0) /\ Len(q1.buffer) = 0
       /\ q1.offset = d.offset + Len(d.buffer) + amB
       /\ q1.offset <= Len(written.am)
       /\ \A p \in Nat : Laid(file, c, q0, p) => Laid(file, written, q1, p)
       /\ BeginsHere(file, c, q0) => BeginsHere(file, written, q1)
  <2>1. q0.offset <= Len(c[q0.half])
    BY <1>6, <1>16, <1>19, <1>20
  <2> HIDE DEF written
  <2>2. /\ q1 \in Ram /\ written \in Flash /\ Same(q1, q0)
        /\ Len(q1.buffer) = 0
        /\ q1.offset = q0.offset + Len(q0.buffer)
        /\ q1.offset <= Len(written[q0.half])
        /\ \A p \in Nat : Laid(file, c, q0, p) => Laid(file, written, q1, p)
        /\ q0.half = "am" /\ BeginsHere(file, c, q0) => BeginsHere(file, written, q1)
    BY <1>6, <1>19, <1>20, <2>1, FlushKeeps
  <2> HIDE DEF q1
  <2>3. q1.offset = d.offset + Len(d.buffer) + amB
    <3> DEFINE o == d.offset
               m == Len(d.buffer)
               n == Len(run)
    <3>1. q1.offset = o + n /\ n = m + amB /\ {o, m, amB} \subseteq Nat
      BY <1>7, <1>16, <1>18, <1>19, <2>2
    <3> HIDE DEF o, m, n
    <3>2. q1.offset = o + m + amB
      BY <3>1
    <3> QED
      BY <3>2 DEF o, m
  <2> QED
    BY <1>20, <2>2, <2>3
<1> HIDE DEF q1, written
<1>23. t <= sent => 1 <= Len(written.am) /\ written.am[1][1] = file
  <2>1. t <= sent => BeginsHere(file, written, q1)
    BY <1>5, <1>6, <1>16, <1>21, <1>22 DEF InAm
  <2> QED
    BY <1>22, <2>1 DEF BeginsHere
<1>24. ASSUME odd' = {}
       PROVE  /\ t = sent /\ kept = len /\ ram.crcFresh /\ ram.ssmLengthRead
              /\ AmLaid(file, written)
  <2>1. /\ t = sent /\ kept = len /\ ram.crcFresh /\ ram.ssmLengthRead
        /\ HeaderLen + ram.offset + Len(ram.buffer) = sent
        /\ Laid(file, flash, ram, HeaderLen)
    BY <1>1, <1>2, <1>3, <1>24 DEF Sound, Exact
  <2> DEFINE o == d.offset
             m == Len(d.buffer)
  <2>2. HeaderLen + o + m = sent /\ o \in Nat /\ m \in Nat
    <3> DEFINE x == ram.offset
               y == Len(ram.buffer)
    <3>1. o + m = x + y /\ HeaderLen + x + y = sent /\ {o, m, x, y} \subseteq Nat
      BY <1>3, <1>6, <1>16, <2>1
    <3> HIDE DEF o, m, x, y
    <3> QED
      BY <1>7, <3>1
  <2>3. \A i \in 1 .. Len(front) : front[i] = <<file, HeaderLen + o + m + i>>
    <3> TAKE i \in 1 .. Len(front)
    <3>1. i \in 1 .. amB /\ i \in 1 .. kept
      BY <1>7, <1>15, <2>1
    <3> QED
      BY <1>10, <1>15, <2>2, <3>1
  <2>4. Laid(file, c, d, HeaderLen)
    BY <1>6, <1>7, <2>1
  <2>5. Laid(file, written, q1, HeaderLen)
    BY <1>7, <1>21, <1>22, <2>3, <2>4
  <2>6. q1.offset = AmLen
    <3>1. q1.offset = o + m + amB
      BY <1>22
    <3>2. amB = AmEnd - sent
      BY <2>1 DEF amB
    <3> HIDE DEF o, m
    <3> QED
      BY <1>3, <1>7, <2>2, <3>1, <3>2
  <2>7. q1.half = "am"
    BY <1>20, <1>22 DEF Same
  <2>8. AmLaid(file, written)
    BY <1>22, <2>5, <2>6, <2>7 DEF AmLaid, Laid
  <2> QED
    BY <2>1, <2>8
<1>25. /\ e \in Ram /\ Same(e, d) /\ e.offset = d.offset
       /\ e.buffer = <<>> /\ Len(e.buffer) = 0
  <2>1. <<>> \in Seq(Byte) /\ Len(<<>>) = 0
    BY EmptySeq
  <2> QED
    BY <1>6, <2>1 DEF Ram, Same
<1>26. /\ e.downloadState = "DOWNLOADING_AM_RECORD" /\ e.totalIncomingBytes = t
       /\ e.half = "am" /\ e.crcFresh = ram.crcFresh
       /\ e.ssmLengthRead = ram.ssmLengthRead /\ e.stale = ram.stale
  BY <1>1, <1>6, <1>16, <1>25 DEF Same, t
<1> HIDE DEF e
<1>27. (t <= sent => t + len <= sent') /\ ram.stale <= StaleMax
  BY <1>3, <1>4 DEF Sound
<1>28. CASE len - amB < HeaderLen
  <2> DEFINE w == rWait(isSsm)
  <2>1. /\ w \in Ram /\ w.downloadState = "WAITING_ON_SSM_HEADER"
        /\ w.totalIncomingBytes = t /\ w.half = "am"
        /\ w.offset = d.offset /\ w.buffer = <<>> /\ Len(w.buffer) = 0
        /\ w.stale = ram.stale
    BY <1>25, <1>26, <1>12 DEF Ram, DownloadStates
  <2>2. GoesOn(w, written, len)
    BY <1>28, <1>11
  <2> HIDE DEF w
  <2>3. t + len < AmEnd + HeaderLen
    BY <1>3, <1>7, <1>28 DEF amB
  <2>4. odd' # {}
    <3> SUFFICES ASSUME odd' = {} PROVE FALSE
      OBVIOUS
    <3>1. t = sent /\ ~SplitsHeader(sent + len)
      BY <1>2, <1>24
    <3> QED
      BY <1>1, <2>3, <3>1 DEF SplitsHeader, t
  <2>5. w.offset <= Len(written[w.half])
    <3>1. Len(written.am) \in Nat
      BY <1>22, LenProperties DEF Flash
    <3> DEFINE o == d.offset
               m == Len(d.buffer)
               l == Len(written.am)
    <3>2. /\ o + m + amB <= l /\ {o, m, amB, l} \subseteq Nat
      BY <1>7, <1>16, <1>22, <3>1
    <3> HIDE DEF o, m, l
    <3>3. o <= l
      BY <3>2
    <3> QED
      BY <2>1, <3>3 DEF o, l
  <2>6. Sound(file, written, w, t + len, sent', odd')
    BY <1>27, <2>1, <2>3, <2>4, <2>5 DEF Sound, Waiting
  <2> QED
    BY <1>7, <1>22, <2>1, <2>2, <2>6 DEF Continues
<1>29. odd' = {} => t = sent /\ kept = len
  BY <1>24
<1>30. CASE ~(len - amB < HeaderLen) /\ ~isSsm
  <2>1. Bail(e, written)
    BY <1>30, <1>11
  <2>2. Len(e.buffer) <= BufferMax
    BY <1>7, <1>25
  <2>3. Refused(e, e.totalIncomingBytes)
    BY <1>5, <1>26 DEF Refused, InAm
  <2>4. file # "good" \/ odd' # {}
    <3> SUFFICES ASSUME odd' = {}
                 PROVE  file = "lone"
      BY DEF Files
    <3> QED
      BY <1>30, <1>11, <1>14, <1>29 DEF LooksLikeSsm
  <2> QED
    BY <1>22, <1>25, <1>26, <2>1, <2>2, <2>3, <2>4 DEF GivesUp, t
<1>31. CASE ~(len - amB < HeaderLen) /\ isSsm
  <2>1. GoesOn(rSsm, written, len)
    BY <1>31, <1>11
  <2> DEFINE k == amB + HeaderLen
  <2>2. k \in Nat /\ k <= len
    BY <1>7, <1>31
  <2>3. /\ last \in Seq(Byte) /\ Len(last) = len - k
        /\ \A i \in 1 .. Len(last) : last[i] = temp[k + i]
    <3>1. last = SubSeq(temp, k + 1, len)
      OBVIOUS
    <3> HIDE DEF k
    <3>2. /\ SubSeq(temp, k + 1, len) \in Seq(Byte)
          /\ Len(SubSeq(temp, k + 1, len)) = len - k
          /\ \A i \in 1 .. Len(SubSeq(temp, k + 1, len)) :
                SubSeq(temp, k + 1, len)[i] = temp[k + 1 + i - 1]
      BY <1>10, <2>2
    <3> HIDE DEF last
    <3>3. \A i \in 1 .. Len(last) : k + 1 + i - 1 = k + i
      BY <2>2
    <3> QED
      BY <3>1, <3>2, <3>3
  <2> HIDE DEF last
  <2>4. /\ rSsm \in Ram /\ rSsm.downloadState = "DOWNLOADING_SSM_RECORD"
        /\ rSsm.totalIncomingBytes = t /\ rSsm.half = "ssm" /\ rSsm.offset = 0
        /\ rSsm.buffer = last /\ rSsm.crcFresh = ram.crcFresh
        /\ rSsm.ssmLengthRead = header /\ rSsm.stale = ram.stale
    BY <1>25, <1>26, <1>12, <2>3 DEF Ram, DownloadStates
  <2> HIDE DEF rSsm, k
  <2>5. ASSUME rSsm.ssmLengthRead
        PROVE  t <= sent /\ InSsm(file, written, rSsm)
    <3>1. header /\ t <= sent
      BY <1>13, <2>4, <2>5
    <3>2. first = <<file, AmEnd + 1>>
      <4>1. 1 \in 1 .. HeaderLen
        BY <1>7
      <4> QED
        BY <3>1, <4>1 DEF first, header
    <3>3. file # "lone"
      BY <1>31, <3>2 DEF LooksLikeSsm
    <3> QED
      BY <1>5, <1>23, <2>4, <3>1, <3>3 DEF InAm, InSsm
  <2>6. ASSUME odd' = {}
        PROVE  Exact(file, written, rSsm, t + len, sent')
    <3>1. /\ t = sent /\ kept = len /\ ram.crcFresh /\ rSsm.ssmLengthRead
          /\ AmLaid(file, written)
      BY <1>24, <1>31, <1>14, <2>4, <2>6
    <3>2. sent + k = AmEnd + HeaderLen
      BY <1>3, <1>7, <3>1 DEF amB, k
    <3>3. AmEnd + HeaderLen + rSsm.offset + Len(rSsm.buffer) = sent'
      <4> DEFINE m == Len(rSsm.buffer)
      <4>1. m = len - k /\ rSsm.offset = 0
        BY <2>3, <2>4
      <4> HIDE DEF m
      <4>2. AmEnd + HeaderLen + rSsm.offset + m = sent'
        BY <1>3, <1>4, <1>7, <2>2, <3>2, <4>1
      <4> QED
        BY <4>2 DEF m
    <3>4. ASSUME NEW i \in 1 .. Len(rSsm.buffer)
          PROVE  rSsm.buffer[i] = <<file, AmEnd + HeaderLen + rSsm.offset + i>>
      <4>1. i \in 1 .. len - k
        BY <2>3, <2>4
      <4>2. /\ k + i \in 1 .. kept
            /\ sent + (k + i) = AmEnd + HeaderLen + rSsm.offset + i
        BY <1>3, <1>7, <2>2, <2>4, <3>1, <3>2, <4>1
      <4>3. rSsm.buffer[i] = temp[k + i]
        BY <2>3, <2>4
      <4> QED
        BY <1>10, <4>2, <4>3
    <3>5. \A i \in 1 .. rSsm.offset : FALSE
      BY <2>4
    <3>6. Laid(file, written, rSsm, AmEnd + HeaderLen)
      BY <3>4, <3>5 DEF Laid
    <3>7. t + len = sent'
      BY <1>4, <3>1
    <3> QED
      BY <2>4, <3>1, <3>3, <3>6, <3>7 DEF Exact
  <2>7. rSsm.offset <= Len(written[rSsm.half])
    BY <1>22, <2>4, LenProperties DEF Flash
  <2>8. Sound(file, written, rSsm, t + len, sent', odd')
    BY <1>27, <2>4, <2>5, <2>6, <2>7 DEF Sound
  <2>9. Len(rSsm.buffer) <= BufferMax
    <3>1. Len(rSsm.buffer) = len - k
      BY <2>3, <2>4
    <3> QED
      BY <1>4, <1>7, <2>2, <3>1
  <2> QED
    BY <1>22, <2>1, <2>4, <2>8, <2>9 DEF Continues
<1> QED
  BY <1>28, <1>30, <1>31

(* A call of RecvImageBytesCallback in one line.                           *)
LEMMA CallbackIs ==
    ASSUME DownloadInv, NEW len \in Nat \ {0}, NEW kept \in Nat,
           RecvImageBytesCallback(len, kept)
    PROVE  verdict = "none" /\ Taken(len) /\ (Continues(len) \/ GivesUp)
<1>1. Packet(len, kept)
  BY DEF RecvImageBytesCallback, FirstPacket, Inside, CrossOver, RestOfHeader
<1>2. verdict = "none" /\ Taken(len)
  BY <1>1, PacketIsTaken
<1>3. CASE FirstPacket(len, kept)
  BY <1>2, <1>3, FirstPacketIs
<1>4. CASE Inside(len, kept)
  BY <1>2, <1>4, InsideIs
<1>5. CASE CrossOver(len, kept)
  BY <1>2, <1>5, CrossOverIs
<1>6. CASE RestOfHeader(len, kept)
  BY <1>2, <1>6, RestOfHeaderIs
<1> QED
  BY <1>3, <1>4, <1>5, <1>6 DEF RecvImageBytesCallback

(* The forms of a step, with the lengths that occur.                       *)
LEMMA StepIs ==
    ASSUME Next
    PROVE  \/ OTA_initDownload \/ PowerDown
           \/ \E len \in Nat \ {0}, kept \in Nat : RecvImageBytesCallback(len, kept)
           \/ \E len \in Nat \ {0} : odd = {} /\ TooLong(len)
<1>1. ASSUME NEW len \in 1 .. LongPacket
      PROVE  len \in Nat \ {0} /\ len \in Nat /\ len - 1 \in Nat
  BY OtaAssumption
<1> QED
  BY <1>1 DEF Next

-----------------------------------------------------------------------------
(* The invariant holds.                                                    *)

LEMMA InitHolds == Init => DownloadInv
<1> SUFFICES ASSUME Init PROVE DownloadInv
  OBVIOUS
<1>1. ram = RamAtReset /\ ram \in Ram /\ Len(ram.buffer) = 0
  BY ResetRam DEF Init
<1>2. TypeOK
  <2>1. 0 \in 0 .. FileSize /\ 0 \in 0 .. FileSize - 1 /\ 0 \in 0 .. NumDownloads
    BY Sizes, OtaAssumption
  <2> QED
    BY <2>1 DEF Init, TypeOK, RamAtReset, Oddities
<1>3. BufferFits
  BY <1>1, Sizes DEF BufferFits
<1>4. flash \in Flash
  BY EmptySeq DEF Init, Flash
<1> QED
  BY <1>1, <1>2, <1>3, <1>4 DEF Init, DownloadInv

LEMMA BeginKeeps == DownloadInv /\ OTA_initDownload => DownloadInv'
<1> SUFFICES ASSUME DownloadInv, OTA_initDownload PROVE DownloadInv'
  OBVIOUS
<1>1. /\ ram' = [ram EXCEPT !.half = "am", !.offset = 0]
      /\ file' \in Files /\ sent' = 0 /\ verdict' = "none"
      /\ odd' = (IF ram = RamAtReset THEN {} ELSE {"again"})
      /\ flash' = flash /\ begun < NumDownloads /\ begun' = begun + 1
      /\ verdict \in {"idle", "fail"} /\ ram.stale <= StaleMax
  BY DEF OTA_initDownload
<1>2. ram \in Ram /\ flash \in Flash
  BY DEF DownloadInv
<1>3. /\ ram' \in Ram /\ ram'.half = "am" /\ ram'.offset = 0
      /\ ram'.buffer = ram.buffer /\ ram'.downloadState = ram.downloadState
      /\ ram'.totalIncomingBytes = ram.totalIncomingBytes
      /\ ram'.stale = ram.stale
      /\ ram'.crcFresh = ram.crcFresh /\ ram'.ssmLengthRead = ram.ssmLengthRead
  BY <1>1, <1>2 DEF Ram
<1>4. TypeOK'
  <2>1. 0 \in 0 .. FileSize /\ begun' \in 0 .. NumDownloads
    BY <1>1, Sizes, OtaAssumption DEF DownloadInv, TypeOK
  <2>2. ram'.totalIncomingBytes \in 0 .. FileSize - 1
    BY <1>3 DEF DownloadInv, TypeOK
  <2>3. odd' \subseteq Oddities
    BY <1>1 DEF Oddities
  <2> QED
    BY <1>1, <1>3, <2>1, <2>2, <2>3 DEF TypeOK, Ram, DownloadStates
<1>5. BufferFits'
  BY <1>3 DEF DownloadInv, BufferFits
<1>6. flash' \in Flash /\ ram'.offset <= Len(flash'[ram'.half])
  BY <1>1, <1>2, <1>3, LenProperties DEF Flash
<1> DEFINE t == ram.totalIncomingBytes
<1>7. t \in Nat /\ Refused(ram, t)
  <2>1. CASE verdict = "idle"
    <3>1. ram = RamAtReset
      BY <2>1 DEF DownloadInv
    <3>2. Untouched(ram) /\ t = 0 /\ ram.downloadState = "FIRST_PACKET"
      BY <3>1 DEF RamAtReset, Untouched
    <3> QED
      BY <3>2 DEF Refused
  <2>2. CASE verdict = "fail"
    BY <1>2, <2>2 DEF DownloadInv, Ram
  <2> QED
    BY <1>1, <2>1, <2>2
<1> HIDE DEF t
<1>8. ASSUME ram.downloadState = "FIRST_PACKET"
      PROVE  t = 0 /\ Untouched(ram')
  BY <1>3, <1>7, <1>8 DEF Refused, Untouched
<1>9. ASSUME odd' = {}
      PROVE  Exact(file', flash', ram', t, sent')
  <2>1. ram = RamAtReset
    BY <1>1, <1>9
  <2>2. /\ ram'.downloadState = "FIRST_PACKET" /\ t = 0 /\ ram'.stale = 0
        /\ ram'.crcFresh /\ ram'.ssmLengthRead
    BY <1>3, <2>1 DEF RamAtReset, t
  <2> QED
    BY <1>1, <2>2 DEF Exact
<1>10. ASSUME ram.downloadState = "DOWNLOADING_AM_RECORD"
       PROVE  InAm(file', flash', ram', t, sent')
  BY <1>1, <1>3, <1>7, <1>10 DEF Refused, InAm
<1>11. ASSUME ram.downloadState = "WAITING_ON_SSM_HEADER"
       PROVE  Waiting(ram', t)
  BY <1>3, <1>7, <1>11 DEF Refused, Waiting
<1>12. Sound(file', flash', ram', t, sent', odd')
  BY <1>1, <1>3, <1>6, <1>7, <1>8, <1>9, <1>10, <1>11 DEF Sound, Refused
<1> QED
  BY <1>1, <1>3, <1>4, <1>5, <1>6, <1>12 DEF DownloadInv, t

LEMMA PowerDownKeeps == DownloadInv /\ PowerDown => DownloadInv'
<1> SUFFICES ASSUME DownloadInv, PowerDown PROVE DownloadInv'
  OBVIOUS
<1>1. /\ verdict' = "idle" /\ ram' = RamAtReset
      /\ UNCHANGED <<file, sent, flash, begun, odd>>
  BY DEF PowerDown
<1>2. ram' \in Ram /\ Len(ram'.buffer) = 0
  BY <1>1, ResetRam
<1>3. TypeOK'
  <2>1. 0 \in 0 .. FileSize - 1
    BY Sizes
  <2> QED
    BY <1>1, <2>1 DEF DownloadInv, TypeOK, RamAtReset
<1>4. BufferFits'
  BY <1>2, Sizes DEF BufferFits
<1> QED
  BY <1>1, <1>2, <1>3, <1>4 DEF DownloadInv

LEMMA TooLongKeeps ==
    ASSUME DownloadInv, NEW len \in Nat \ {0}, odd = {}, TooLong(len)
    PROVE  DownloadInv'
<1>1. /\ verdict = "none" /\ sent + len <= FileSize /\ sent' = sent + len
      /\ odd' = odd \cup {"long"}
      /\ UNCHANGED <<file, ram, flash, verdict, begun>>
  BY DEF TooLong
<1>2. sent \in Nat /\ sent' \in 0 .. FileSize /\ ram.totalIncomingBytes \in Nat
  BY <1>1, Sizes DEF DownloadInv, TypeOK, Ram
<1>3. TypeOK'
  BY <1>1, <1>2 DEF DownloadInv, TypeOK, Oddities
<1>4. Sound(file, flash, ram, ram.totalIncomingBytes, sent, odd)
  BY <1>1 DEF DownloadInv
<1>5. Sound(file, flash, ram, ram.totalIncomingBytes, sent', odd')
  <2> DEFINE t == ram.totalIncomingBytes
  <2>1. t <= sent /\ t <= sent'
    BY <1>1, <1>2, <1>4 DEF Sound, Exact
  <2>2. odd' # {}
    BY <1>1
  <2> HIDE DEF t
  <2>3. Sound(file, flash, ram, t, sent, odd)
    BY <1>4 DEF t
  <2>4. InAm(file, flash, ram, t, sent) => InAm(file, flash, ram, t, sent')
    BY <2>1 DEF InAm
  <2>5. Sound(file, flash, ram, t, sent', odd')
    BY <2>1, <2>2, <2>3, <2>4 DEF Sound
  <2> QED
    BY <2>5 DEF t
<1> QED
  BY <1>1, <1>3, <1>5 DEF DownloadInv, BufferFits

LEMMA StepKeeps == DownloadInv /\ [Next]_vars => DownloadInv'
<1> SUFFICES ASSUME DownloadInv, [Next]_vars PROVE DownloadInv'
  OBVIOUS
<1>1. CASE OTA_initDownload
  BY <1>1, BeginKeeps
<1>2. CASE PowerDown
  BY <1>2, PowerDownKeeps
<1>3. ASSUME NEW len \in Nat \ {0}, NEW kept \in Nat,
             RecvImageBytesCallback(len, kept)
      PROVE  DownloadInv'
  <2>1. verdict = "none" /\ Taken(len) /\ (Continues(len) \/ GivesUp)
    BY <1>3, CallbackIs
  <2>2. CASE Continues(len)
    BY <2>1, <2>2, GoesOnKeeps DEF Continues
  <2>3. CASE GivesUp
    BY <2>1, <2>3, BailKeeps DEF GivesUp
  <2> QED
    BY <2>1, <2>2, <2>3
<1>4. ASSUME NEW len \in Nat \ {0}, odd = {}, TooLong(len)
      PROVE  DownloadInv'
  BY <1>4, TooLongKeeps
<1>5. CASE UNCHANGED vars
  BY <1>5 DEF vars, DownloadInv, TypeOK, BufferFits
<1> QED
  BY <1>1, <1>2, <1>3, <1>4, <1>5, StepIs

THEOREM DownloadInvariant == Spec => []DownloadInv
<1>1. Init => DownloadInv
  BY InitHolds
<1>2. DownloadInv /\ [Next]_vars => DownloadInv'
  BY StepKeeps
<1> QED
  BY <1>1, <1>2, PTL DEF Spec

(* The variables keep their types, whatever the packets.                   *)
THEOREM TypeCorrect == Spec => []TypeOK
<1>1. DownloadInv => TypeOK
  BY DEF DownloadInv
<1> QED
  BY <1>1, DownloadInvariant, PTL

(* nextFlashWriteBuffer never overflows, for packets of any length and for *)
(* a buffer that is longer than a page, by however little.                 *)
THEOREM BufferNeverOverflows == Spec => []BufferFits
<1>1. DownloadInv => BufferFits
  BY DEF DownloadInv
<1> QED
  BY <1>1, DownloadInvariant, PTL

-----------------------------------------------------------------------------
(* The refinement: each step of the download is a step of OtaCopy.         *)

(* A run in half and buffer is a run of the package.                       *)
LEMMA LaidIsBytes ==
    ASSUME NEW f \in Files, NEW r \in Ram, NEW c \in Flash, NEW p \in Nat,
           r.offset <= Len(c[r.half]), Laid(f, c, r, p)
    PROVE  First(c[r.half], r.offset) \o r.buffer
              = Bytes(f, p + 1, p + r.offset + Len(r.buffer))
<1> DEFINE s == c[r.half]
           o == r.offset
           b == r.buffer
           n == Len(b)
<1>1. /\ s \in Seq(Byte) /\ Len(s) \in Nat /\ o \in Nat /\ o <= Len(s)
      /\ b \in Seq(Byte) /\ n \in Nat
  BY LenProperties DEF Ram, Flash
<1>2. /\ \A i \in 1 .. o : s[i] = <<f, p + i>>
      /\ \A i \in 1 .. n : b[i] = <<f, p + o + i>>
  BY DEF Laid
<1> HIDE DEF s, o, b
<1> DEFINE a == SubSeq(s, 1, o)
           ab == a \o b
           z == Bytes(f, p + 1, p + o + n)
<1>3. a \in Seq(Byte) /\ Len(a) = o /\ \A i \in 1 .. o : a[i] = s[i]
  BY <1>1
<1>4. First(s, o) = a
  BY <1>1 DEF First, Upto
<1> HIDE DEF a
<1>5. /\ ab \in Seq(Byte) /\ Len(ab) = o + n
      /\ \A i \in 1 .. o : ab[i] = a[i]
      /\ \A i \in 1 .. n : ab[o + i] = b[i]
  <2>1. a \in Seq(Byte) /\ b \in Seq(Byte)
    BY <1>1, <1>3
  <2>2. /\ ab \in Seq(Byte) /\ Len(ab) = Len(a) + Len(b)
        /\ \A i \in 1 .. Len(a) : ab[i] = a[i]
        /\ \A i \in 1 .. Len(b) : ab[Len(a) + i] = b[i]
    BY <2>1, JoinIs
  <2> HIDE DEF ab
  <2> QED
    BY <1>3, <2>2
<1> HIDE DEF ab, n
<1>6. /\ z \in Seq(Byte) /\ Len(z) = o + n
      /\ \A i \in 1 .. o + n : z[i] = <<f, p + i>>
  <2>1. p + 1 \in Nat /\ p + o + n \in Int
    BY <1>1
  <2> DEFINE m == p + 1
             l == p + o + n
             y == Bytes(f, m, l)
  <2> HIDE DEF m, l
  <2>2. m \in Nat /\ l \in Int
    BY <2>1 DEF m, l
  <2>3. /\ y \in Seq(Byte)
        /\ Len(y) = IF l < m THEN 0 ELSE l - m + 1
        /\ \A i \in 1 .. Len(y) : y[i] = <<f, m + i - 1>>
    BY <2>2, BytesAre
  <2> HIDE DEF y
  <2>4. y = z
    BY DEF y, m, l
  <2> HIDE DEF z
  <2>5. l - m + 1 = o + n /\ (l < m => o + n = 0)
    BY <1>1 DEF m, l
  <2>6. Len(y) = o + n
    BY <2>2, <2>3, <2>5
  <2>7. \A i \in 1 .. o + n : m + i - 1 = p + i
    BY <1>1 DEF m
  <2>8. \A i \in 1 .. o + n : y[i] = <<f, p + i>>
    BY <2>3, <2>6, <2>7
  <2> QED
    BY <2>3, <2>4, <2>6, <2>8
<1> HIDE DEF z
<1>7. ASSUME NEW i \in 1 .. o + n
      PROVE  ab[i] = <<f, p + i>>
  <2>1. CASE i <= o
    <3>1. i \in 1 .. o
      BY <1>1, <2>1
    <3> QED
      BY <1>2, <1>3, <1>5, <3>1
  <2>2. CASE i > o
    <3>1. PICK k \in 1 .. n : i = o + k
      <4>1. i - o \in 1 .. n /\ i = o + (i - o)
        BY <1>1, <2>2
      <4> QED
        BY <4>1
    <3>2. ab[o + k] = <<f, p + o + k>>
      BY <1>2, <1>5
    <3>3. p + o + k = p + (o + k)
      BY <1>1
    <3> QED
      BY <3>1, <3>2, <3>3
  <2> QED
    BY <1>1, <2>1, <2>2
<1>8. ab = z
  <2>1. Len(ab) = Len(z) /\ \A i \in 1 .. Len(ab) : ab[i] = z[i]
    BY <1>5, <1>6, <1>7
  <2> QED
    BY <1>5, <1>6, <2>1, SeqEqual
<1> QED
  BY <1>4, <1>8 DEF ab, z, n, s, o, b

LEMMA AmIsBytes ==
    ASSUME NEW f \in Files, NEW c \in Flash, AmLaid(f, c)
    PROVE  First(c.am, AmLen) = Bytes(f, HeaderLen + 1, AmEnd)
<1> DEFINE s == c.am
           a == SubSeq(s, 1, AmLen)
           z == Bytes(f, HeaderLen + 1, AmEnd)
<1>1. /\ s \in Seq(Byte) /\ Len(s) \in Nat /\ AmLen <= Len(s)
      /\ \A i \in 1 .. AmLen : s[i] = <<f, HeaderLen + i>>
  BY LenProperties DEF Flash, AmLaid
<1>2. /\ AmLen \in Nat /\ HeaderLen \in Nat /\ AmEnd \in Nat
      /\ AmEnd = HeaderLen + AmLen
  BY Sizes
<1> HIDE DEF s
<1>3. First(s, AmLen) = a
  BY <1>1, <1>2 DEF First, Upto
<1>4. a \in Seq(Byte) /\ Len(a) = AmLen /\ \A i \in 1 .. AmLen : a[i] = s[i]
  BY <1>1, <1>2
<1>5. /\ z \in Seq(Byte)
      /\ Len(z) = IF AmEnd < HeaderLen + 1 THEN 0 ELSE AmEnd - (HeaderLen + 1) + 1
      /\ \A i \in 1 .. Len(z) : z[i] = <<f, HeaderLen + 1 + i - 1>>
  <2>1. HeaderLen + 1 \in Nat /\ AmEnd \in Int
    BY <1>2
  <2> QED
    BY <2>1, BytesAre
<1> HIDE DEF a, z
<1>6. Len(z) = AmLen
  BY <1>2, <1>5
<1>7. \A i \in 1 .. AmLen : HeaderLen + 1 + i - 1 = HeaderLen + i
  BY <1>2
<1>8. a = z
  <2>1. Len(a) = Len(z) /\ \A i \in 1 .. Len(a) : a[i] = z[i]
    BY <1>1, <1>4, <1>5, <1>6, <1>7
  <2> QED
    BY <1>4, <1>5, <2>1, SeqEqual
<1> QED
  BY <1>3, <1>8 DEF z, s

(* Nothing of the package is copied, or nothing is promised of it.         *)
LEMMA NothingIs ==
    ASSUME verdict' # "complete", verdict' # "none" \/ odd' # {}
    PROVE  Copy!Nothing
BY DEF Copy!Nothing, Copied

(* What both specifications name alike.                                    *)
LEMMA SameNames ==
    /\ Copy!AmEnd = AmEnd /\ Copy!FileSize = FileSize
    /\ \A f, m, n : Copy!Bytes(f, m, n) = Bytes(f, m, n)
    /\ \A m, n : Copy!Upto(m, n) = Upto(m, n)
BY DEF Copy!AmEnd, AmEnd, Copy!FileSize, FileSize, Copy!Bytes, Bytes, Copy!Upto, Upto

LEMMA ArriveIs ==
    ASSUME DownloadInv, verdict = "none", NEW len, Taken(len)
    PROVE  Copy!Arrive /\ Copy!FileSize = FileSize
<1>1. sent' \in sent + 1 .. FileSize /\ UNCHANGED file
  BY Sizes DEF Taken, DownloadInv, TypeOK
<1>2. (odd' = {}) \in {odd = {}, FALSE}
  BY DEF Taken
<1> QED
  BY <1>1, <1>2, SameNames DEF Copy!Arrive

LEMMA NoBytes ==
    ASSUME NEW f, NEW first \in Int, NEW last \in Int, last < first
    PROVE  Bytes(f, first, last) = <<>>
<1>1. Bytes(f, first, last) = [i \in 1 .. 0 |-> <<f, first + i - 1>>]
  BY DEF Bytes
<1> QED
  BY <1>1

(* Packets in order have been copied as far as they have come.             *)
LEMMA SoFarIsCopied ==
    ASSUME file \in Files, file' = file,
           NEW r \in Ram, NEW c \in Flash, NEW n \in Nat,
           r.offset <= Len(c[r.half]), r.downloadState # "FIRST_PACKET",
           r.downloadState = "DOWNLOADING_AM_RECORD" => InAm(file, c, r, n, n),
           r.downloadState = "DOWNLOADING_SSM_RECORD" => InSsm(file, c, r),
           Exact(file, c, r, n, n),
           verdict' = "none", odd' = {}, flash' = c,
           ram'.half = r.half, ram'.offset = r.offset, ram'.buffer = r.buffer
    PROVE  Copy!Copies(n)
<1>1. /\ HeaderLen \in Nat /\ AmLen \in Nat \ {0} /\ AmEnd \in Nat
      /\ AmEnd = HeaderLen + AmLen
  BY Sizes
<1>2. r.offset \in Nat /\ Len(r.buffer) \in Nat
  BY LenProperties DEF Ram
<1> DEFINE run == First(c[r.half], r.offset) \o r.buffer
<1>3. CASE r.downloadState = "DOWNLOADING_AM_RECORD"
  <2>1. /\ HeaderLen + r.offset + Len(r.buffer) = n
        /\ Laid(file, c, r, HeaderLen)
        /\ n <= AmEnd /\ r.half = "am"
    BY <1>3 DEF Exact, InAm
  <2>2. run = Bytes(file, HeaderLen + 1, n)
    BY <1>1, <2>1, LaidIsBytes
  <2>3. Copied("am", AmLen)' = run /\ Copied("ssm", SsmLen)' = <<>>
    BY <2>1 DEF Copied
  <2>4. Upto(n, AmEnd) = n
    BY <1>1, <2>1 DEF Upto
  <2>5. Bytes(file, AmEnd + HeaderLen + 1, n) = <<>>
    BY <1>1, <2>1, NoBytes
  <2> HIDE DEF run
  <2> QED
    BY <2>2, <2>3, <2>4, <2>5, SameNames DEF Copy!Copies
<1>4. CASE r.downloadState = "DOWNLOADING_SSM_RECORD"
  <2>1. /\ AmEnd + HeaderLen + r.offset + Len(r.buffer) = n
        /\ Laid(file, c, r, AmEnd + HeaderLen)
        /\ AmLaid(file, c) /\ r.half = "ssm"
    BY <1>4 DEF Exact, InSsm
  <2>2. run = Bytes(file, AmEnd + HeaderLen + 1, n)
    <3> DEFINE p == AmEnd + HeaderLen
    <3>1. p \in Nat /\ Laid(file, c, r, p) /\ p + r.offset + Len(r.buffer) = n
      BY <1>1, <2>1
    <3> HIDE DEF p
    <3>2. run = Bytes(file, p + 1, p + r.offset + Len(r.buffer))
      BY <3>1, LaidIsBytes
    <3> HIDE DEF run
    <3> QED
      BY <3>1, <3>2 DEF p
  <2>3. Copied("ssm", SsmLen)' = run /\ Copied("am", AmLen)' = First(c.am, AmLen)
    BY <2>1 DEF Copied
  <2>4. Upto(n, AmEnd) = AmEnd
    BY <1>1, <1>2, <2>1 DEF Upto
  <2>5. First(c.am, AmLen) = Bytes(file, HeaderLen + 1, AmEnd)
    BY <2>1, AmIsBytes
  <2> HIDE DEF run
  <2> QED
    BY <2>2, <2>3, <2>4, <2>5, SameNames DEF Copy!Copies
<1> QED
  BY <1>3, <1>4 DEF Exact, Ram, DownloadStates

(* CRCs that hold were computed over a good package, and this one.         *)
LEMMA HoldsOfGood ==
    ASSUME file \in Files, NEW r \in Ram, NEW c \in Flash,
           InSsm(file, c, r), CrcsHold(r, c)
    PROVE  /\ file = "good"
           /\ First(c.am, AmLen) = Bytes(file, HeaderLen + 1, AmEnd)
           /\ First(c.ssm, SsmLen) = Bytes(file, AmEnd + HeaderLen + 1, FileSize)
<1>1. PICK f \in Files \ {"damaged"} :
         /\ First(c.am, AmLen) = Bytes(f, HeaderLen + 1, AmEnd)
         /\ First(c.ssm, SsmLen) = Bytes(f, AmEnd + HeaderLen + 1, FileSize)
  BY DEF CrcsHold
<1>2. /\ HeaderLen \in Nat /\ AmLen \in Nat \ {0} /\ AmEnd \in Nat
      /\ AmEnd = HeaderLen + AmLen
  BY Sizes
<1>3. Bytes(f, HeaderLen + 1, AmEnd)[1] = <<f, HeaderLen + 1>>
  <2> DEFINE m == HeaderLen + 1
             z == Bytes(f, m, AmEnd)
  <2>1. m \in Nat /\ AmEnd \in Int /\ ~(AmEnd < m) /\ AmEnd - m + 1 = AmLen
    BY <1>2
  <2> HIDE DEF m
  <2>2. Len(z) = AmLen /\ \A i \in 1 .. Len(z) : z[i] = <<f, m + i - 1>>
    BY <2>1, BytesAre
  <2> HIDE DEF z
  <2>3. z[1] = <<f, m + 1 - 1>>
    BY <1>2, <2>2
  <2>4. m + 1 - 1 = m
    BY <2>1
  <2> QED
    BY <2>3, <2>4 DEF z, m
<1>4. First(c.am, AmLen)[1] = c.am[1]
  <2> DEFINE s == c.am
             m == Upto(AmLen, Len(s))
  <2>1. s \in Seq(Byte) /\ Len(s) \in Nat /\ 1 <= Len(s)
    BY LenProperties DEF Flash, InSsm
  <2> HIDE DEF s
  <2>2. m \in Nat /\ 1 <= m /\ m <= Len(s)
    BY <1>2, <2>1 DEF Upto
  <2> HIDE DEF m
  <2>3. SubSeq(s, 1, m)[1] = s[1]
    BY <2>1, <2>2
  <2> QED
    BY <2>3 DEF First, s, m
<1>5. file = f
  BY <1>1, <1>3, <1>4 DEF InSsm
<1> QED
  BY <1>1, <1>5 DEF Files, InSsm

LEMMA GoesOnCopies ==
    ASSUME DownloadInv, verdict = "none", NEW len, Taken(len),
           NEW r \in Ram, NEW c \in Flash,
           r.downloadState # "FIRST_PACKET",
           Sound(file, c, r, r.totalIncomingBytes + len, sent', odd'),
           GoesOn(r, c, len)
    PROVE  Copy!Next
<1> DEFINE total == r.totalIncomingBytes + len
           all == Stored(c, r, r.buffer)
<1>1. /\ total \in Nat /\ FileSize \in Nat /\ sent' \in Nat
      /\ sent' <= FileSize
  <2>1. total \in Nat /\ FileSize \in Nat /\ sent' \in Nat
    <3>1. r.totalIncomingBytes \in Nat /\ len \in Nat
      BY Sizes DEF Ram, Taken
    <3>2. sent \in Nat /\ sent' = sent + len
      BY Sizes DEF Taken, DownloadInv, TypeOK
    <3> QED
      BY <3>1, <3>2, Sizes
  <2> HIDE DEF total
  <2> QED
    BY <2>1 DEF Taken
<1>2. Copy!Arrive /\ Copy!FileSize = FileSize
  BY ArriveIs
<1>3. file \in Files /\ file' = file
  BY DEF DownloadInv, TypeOK, Taken
<1>4. Sound(file, c, r, total, sent', odd')
  OBVIOUS
<1>5. r.offset <= Len(c[r.half])
  BY <1>4 DEF Sound
<1>6. GoesOn(r, c, len)
  OBVIOUS
<1>7. CASE total < FileSize
  <2>1. /\ ram' = [r EXCEPT !.totalIncomingBytes = total]
        /\ flash' = c /\ verdict' = "none"
    BY <1>6, <1>7 DEF GoesOn
  <2>2. ram'.half = r.half /\ ram'.offset = r.offset /\ ram'.buffer = r.buffer
    BY <2>1 DEF Ram
  <2> HIDE DEF total, all
  <2>3. CASE odd' = {}
    <3>1. Exact(file, c, r, total, sent')
      BY <1>4, <2>3 DEF Sound
    <3>2. total = sent' /\ r.crcFresh /\ r.ssmLengthRead
      BY <3>1 DEF Exact
    <3>3. /\ r.downloadState = "DOWNLOADING_AM_RECORD" => InAm(file, c, r, sent', sent')
          /\ r.downloadState = "DOWNLOADING_SSM_RECORD" => InSsm(file, c, r)
      BY <1>4, <3>2 DEF Sound
    <3>4. Copy!Copies(sent')
      BY <1>1, <1>3, <1>5, <2>1, <2>2, <2>3, <3>1, <3>2, <3>3, SoFarIsCopied
    <3>5. Copy!Take
      BY <1>2, <1>7, <2>1, <2>3, <3>2, <3>4 DEF Copy!Take
    <3> QED
      BY <3>5 DEF Copy!Next
  <2>4. CASE odd' # {}
    <3>1. Copy!Nothing
      BY <2>1, <2>4, NothingIs
    <3>2. Copy!Stall
      BY <1>2, <2>1, <2>4, <3>1 DEF Copy!Stall
    <3> QED
      BY <3>2 DEF Copy!Next
  <2> QED
    BY <2>3, <2>4
<1>8. CASE ~(total < FileSize)
  <2>1. /\ flash' = IF CrcsHold(r, all) THEN all ELSE [all EXCEPT !.am = <<>>]
        /\ verdict' = IF CrcsHold(r, all) THEN "complete" ELSE "fail"
    BY <1>6, <1>8 DEF GoesOn
  <2> HIDE DEF total
  <2>2. total <= sent' => sent' = FileSize
    BY <1>1, <1>8
  <2>3. r.downloadState = "DOWNLOADING_SSM_RECORD"
    <3>1. ~(total <= AmEnd) /\ ~(total < AmEnd + HeaderLen)
      BY <1>1, <1>8, Sizes
    <3> QED
      BY <1>4, <3>1 DEF Sound, InAm, Waiting, Ram, DownloadStates
  <2> DEFINE q == [r EXCEPT !.offset = r.offset + Len(r.buffer), !.buffer = <<>>]
  <2>4. /\ q \in Ram /\ all \in Flash /\ Same(q, r)
        /\ Len(q.buffer) = 0
        /\ q.offset = r.offset + Len(r.buffer)
        /\ q.offset <= Len(all[r.half])
        /\ r.half = "ssm" => all.am = c.am
        /\ \A p \in Nat : Laid(file, c, r, p) => Laid(file, all, q, p)
    BY <1>5, FlushKeeps
  <2> HIDE DEF all, q
  <2>5. ASSUME r.crcFresh, r.ssmLengthRead
        PROVE  /\ sent' = FileSize
               /\ InSsm(file, c, r) /\ r.half = "ssm" /\ InSsm(file, all, r)
    <3>1. total <= sent' /\ InSsm(file, c, r)
      BY <1>4, <2>3, <2>5 DEF Sound
    <3> QED
      BY <2>2, <2>4, <3>1 DEF InSsm
  <2>6. CASE CrcsHold(r, all)
    <3>1. InSsm(file, all, r) /\ sent' = FileSize
      BY <2>5, <2>6 DEF CrcsHold
    <3>2. /\ file = "good"
          /\ First(all.am, AmLen) = Bytes(file, HeaderLen + 1, AmEnd)
          /\ First(all.ssm, SsmLen) = Bytes(file, AmEnd + HeaderLen + 1, FileSize)
      BY <1>3, <2>4, <2>6, <3>1, HoldsOfGood
    <3>3. /\ Copied("am", AmLen)' = First(all.am, AmLen)
          /\ Copied("ssm", SsmLen)' = First(all.ssm, SsmLen)
      BY <2>1, <2>6 DEF Copied
    <3>4. Upto(FileSize, AmEnd) = AmEnd
      BY Sizes DEF Upto
    <3>5. Copy!Copies(FileSize)
      BY <1>3, <3>2, <3>3, <3>4, SameNames DEF Copy!Copies
    <3>6. Copy!Complete
      BY <1>2, <2>1, <2>6, <3>1, <3>2, <3>5 DEF Copy!Complete
    <3> QED
      BY <3>6 DEF Copy!Next
  <2>7. CASE ~CrcsHold(r, all)
    <3>1. verdict' = "fail"
      BY <2>1, <2>7
    <3>2. ASSUME file = "good", odd' = {}
          PROVE  FALSE
      <4>1. /\ r.crcFresh /\ r.ssmLengthRead
            /\ AmEnd + HeaderLen + r.offset + Len(r.buffer) = FileSize
            /\ Laid(file, c, r, AmEnd + HeaderLen) /\ AmLaid(file, c)
        <5>1. Exact(file, c, r, total, sent')
          BY <1>4, <3>2 DEF Sound
        <5>2. total = sent' /\ sent' <= sent'
          BY <1>1, <5>1 DEF Exact
        <5> QED
          BY <2>2, <2>3, <5>1, <5>2 DEF Exact
      <4>2. r.half = "ssm" /\ all.am = c.am
        BY <2>4, <2>5, <4>1
      <4>3. First(all.am, AmLen) = Bytes(file, HeaderLen + 1, AmEnd)
        <5>1. AmLaid(file, all)
          BY <4>1, <4>2 DEF AmLaid
        <5> QED
          BY <1>3, <2>4, <5>1, AmIsBytes
      <4>4. First(all.ssm, SsmLen) = Bytes(file, AmEnd + HeaderLen + 1, FileSize)
        <5> DEFINE p == AmEnd + HeaderLen
        <5>1. p \in Nat /\ Laid(file, c, r, p) /\ p + r.offset + Len(r.buffer) = FileSize
          BY <4>1, Sizes
        <5>2. /\ r.offset \in Nat /\ Len(r.buffer) \in Nat /\ SsmLen \in Nat
              /\ p + SsmLen = FileSize
          BY Sizes, LenProperties DEF Ram
        <5> HIDE DEF p
        <5>3. Laid(file, all, q, p)
          BY <2>4, <5>1
        <5>4. q.half = "ssm" /\ q.offset <= Len(all[q.half])
          BY <2>4, <4>2 DEF Same
        <5>5. First(all[q.half], q.offset) \o q.buffer
                = Bytes(file, p + 1, p + q.offset + Len(q.buffer))
          BY <1>3, <2>4, <5>1, <5>3, <5>4, LaidIsBytes
        <5>6. q.offset = SsmLen /\ p + q.offset + Len(q.buffer) = FileSize
          BY <2>4, <5>1, <5>2
        <5>7. First(all[q.half], q.offset) \o q.buffer = First(all.ssm, SsmLen)
          <6>1. q.buffer = <<>>
            BY DEF q, Ram
          <6>2. First(all.ssm, SsmLen) \in Seq(Byte)
            <7>1. all.ssm \in Seq(Byte) /\ SsmLen <= Len(all.ssm)
              BY <2>4, <5>4, <5>6 DEF Flash
            <7>2. Len(all.ssm) \in Nat
              BY <7>1, LenProperties
            <7>3. Upto(SsmLen, Len(all.ssm)) = SsmLen
              BY <5>2, <7>1, <7>2 DEF Upto
            <7>4. SubSeq(all.ssm, 1, SsmLen) \in Seq(Byte)
              BY <5>2, <7>1, PartOf
            <7> QED
              BY <7>3, <7>4 DEF First
          <6>3. First(all.ssm, SsmLen) \o <<>> = First(all.ssm, SsmLen)
            BY <6>2
          <6> QED
            BY <5>4, <5>6, <6>1, <6>3
        <5> QED
          BY <5>5, <5>6, <5>7 DEF p
      <4>5. "good" \in Files \ {"damaged"}
        BY DEF Files
      <4>6. CrcsHold(r, all)
        BY <3>2, <4>1, <4>3, <4>4, <4>5 DEF CrcsHold
      <4> QED
        BY <2>7, <4>6
    <3>3. Copy!Nothing
      BY <3>1, NothingIs
    <3>4. Copy!Fail
      BY <1>2, <3>1, <3>2, <3>3 DEF Copy!Fail
    <3> QED
      BY <3>4 DEF Copy!Next
  <2> QED
    BY <2>6, <2>7
<1> QED
  BY <1>7, <1>8

LEMMA InitCopies == Init => Copy!Init
<1> SUFFICES ASSUME Init PROVE Copy!Init
  OBVIOUS
<1>1. verdict = "idle" /\ sent = 0 /\ odd = {} /\ file \in Files
  BY DEF Init
<1>2. \A h, n : Copied(h, n) = <<>>
  BY <1>1 DEF Copied
<1> QED
  BY <1>1, <1>2 DEF Copy!Init

LEMMA BeginCopies == DownloadInv /\ OTA_initDownload => Copy!Begin
<1> SUFFICES ASSUME DownloadInv, OTA_initDownload PROVE Copy!Begin
  OBVIOUS
<1>1. /\ verdict # "none" /\ verdict' = "none" /\ file' \in Files /\ sent' = 0
      /\ ram' = [ram EXCEPT !.half = "am", !.offset = 0]
      /\ odd' = (IF ram = RamAtReset THEN {} ELSE {"again"})
      /\ flash' = flash
  BY DEF OTA_initDownload
<1>2. Copy!Nothing
  <2>1. CASE odd' # {}
    BY <1>1, <2>1, NothingIs
  <2>2. CASE odd' = {}
    <3>1. ram = RamAtReset
      BY <1>1, <2>2
    <3>2. ram'.half = "am" /\ ram'.offset = 0 /\ ram'.buffer = <<>>
      BY <1>1, <3>1 DEF RamAtReset
    <3>3. First(flash'.am, 0) = <<>>
      <4> DEFINE s == flash.am
      <4>1. s \in Seq(Byte) /\ Len(s) \in Nat
        BY LenProperties DEF DownloadInv, Flash
      <4> HIDE DEF s
      <4>2. Upto(0, Len(s)) = 0
        BY <4>1 DEF Upto
      <4>3. SubSeq(s, 1, 0) = <<>>
        BY <4>1
      <4> QED
        BY <1>1, <4>2, <4>3 DEF First, s
    <3>4. Copied("am", AmLen)' = <<>> \o <<>> /\ Copied("ssm", SsmLen)' = <<>>
      BY <1>1, <2>2, <3>2, <3>3 DEF Copied
    <3>5. <<>> \o <<>> = <<>>
      OBVIOUS
    <3> QED
      BY <3>4, <3>5 DEF Copy!Nothing
  <2> QED
    BY <2>1, <2>2
<1>3. (odd' = {}) \in BOOLEAN
  OBVIOUS
<1> QED
  BY <1>1, <1>2, <1>3 DEF Copy!Begin

LEMMA PowerDownCopies == PowerDown => Copy!GiveUp
<1> SUFFICES ASSUME PowerDown PROVE Copy!GiveUp
  OBVIOUS
<1>1. verdict' = "idle" /\ UNCHANGED <<file, sent, odd>>
  BY DEF PowerDown
<1>2. Copy!Nothing
  BY <1>1, NothingIs
<1> QED
  BY <1>1, <1>2 DEF Copy!GiveUp

LEMMA BailCopies ==
    ASSUME DownloadInv, verdict = "none", NEW len, Taken(len), GivesUp
    PROVE  Copy!Next
<1>1. verdict' = "fail" /\ (file # "good" \/ odd' # {})
  BY DEF GivesUp, Bail
<1>2. Copy!Nothing
  BY <1>1, NothingIs
<1>3. Copy!Fail
  BY <1>1, <1>2, ArriveIs DEF Copy!Fail
<1> QED
  BY <1>3 DEF Copy!Next

LEMMA TooLongCopies ==
    ASSUME DownloadInv, NEW len \in Nat \ {0}, odd = {}, TooLong(len)
    PROVE  Copy!Next
<1>1. /\ verdict = "none" /\ sent + len <= FileSize /\ sent' = sent + len
      /\ odd' = odd \cup {"long"} /\ verdict' = "none" /\ file' = file
  BY DEF TooLong
<1>2. sent \in Nat /\ FileSize \in Nat
  BY Sizes DEF DownloadInv, TypeOK
<1>3. Copy!Arrive /\ odd' # {}
  <2>1. sent' \in sent + 1 .. FileSize
    BY <1>1, <1>2
  <2>2. (odd' = {}) \in {odd = {}, FALSE} /\ odd' # {}
    BY <1>1
  <2> QED
    BY <1>1, <2>1, <2>2, SameNames DEF Copy!Arrive
<1>4. Copy!Nothing
  BY <1>3, NothingIs DEF TooLong
<1>5. Copy!Stall
  BY <1>1, <1>3, <1>4 DEF Copy!Stall
<1> QED
  BY <1>5 DEF Copy!Next

LEMMA StepCopies == DownloadInv /\ [Next]_vars => [Copy!Next]_(Copy!vars)
<1> SUFFICES ASSUME DownloadInv, [Next]_vars PROVE [Copy!Next]_(Copy!vars)
  OBVIOUS
<1>1. CASE OTA_initDownload
  BY <1>1, BeginCopies DEF Copy!Next
<1>2. CASE PowerDown
  BY <1>2, PowerDownCopies DEF Copy!Next
<1>3. ASSUME NEW len \in Nat \ {0}, NEW kept \in Nat,
             RecvImageBytesCallback(len, kept)
      PROVE  Copy!Next
  <2>1. verdict = "none" /\ Taken(len) /\ (Continues(len) \/ GivesUp)
    BY <1>3, CallbackIs
  <2>2. CASE Continues(len)
    BY <2>1, <2>2, GoesOnCopies DEF Continues
  <2>3. CASE GivesUp
    BY <2>1, <2>3, BailCopies
  <2> QED
    BY <2>1, <2>2, <2>3
<1>4. ASSUME NEW len \in Nat \ {0}, odd = {}, TooLong(len)
      PROVE  Copy!Next
  BY <1>4, TooLongCopies
<1>5. CASE UNCHANGED vars
  BY <1>5 DEF vars, Copy!vars, Copied
<1> QED
  BY <1>1, <1>2, <1>3, <1>4, <1>5, StepIs

(* The callback implements the copy, for a package and packets of any      *)
(* length and any number of downloads between resets: no byte of the two   *)
(* records is lost, doubled or misplaced, whichever packet carries it and  *)
(* whenever the buffer is written; a package reported complete is in the   *)
(* slot, and it is a good one.                                             *)
THEOREM CopyImplemented == Spec => CopiesFile
<1>1. Init => Copy!Init
  BY InitCopies
<1>2. DownloadInv /\ [Next]_vars => [Copy!Next]_(Copy!vars)
  BY StepCopies
<1> QED
  BY <1>1, <1>2, DownloadInvariant, PTL DEF Spec, CopiesFile, Copy!Spec
=============================================================================
