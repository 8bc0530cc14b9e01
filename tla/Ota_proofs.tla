----------------------------- MODULE Ota_proofs -----------------------------
(***************************************************************************)
(* Proofs about firmware updates.                                          *)
(***************************************************************************)
EXTENDS Ota, FiniteSetTheorems, TLAPS

-----------------------------------------------------------------------------
(* The cells of an image, in the order of the file: the signature, which   *)
(* is in RAM until the end, and then what is in flash.                     *)

CellAt(q, g, c) == IF c < SigLen THEN q.sig[c + 1] ELSE g.image[c - SigLen]

\* Those that were written.
Filled(q, c) ==
    /\ c \in 0 .. ImgLen - 1
    /\ c < q.sig_cnt \/ (SigLen <= c /\ c < SigLen + q.size)

\* Each has its byte.
WellPlaced(q, g) == \A c : Filled(q, c) => CellAt(q, g, c) = Offset + c

\* One has a byte that is not of the image, or the same as another one.
Spoiled(q, g) ==
    \E c : /\ Filled(q, c)
           /\ \/ CellAt(q, g, c) \notin ImageBytes
              \/ \E d : /\ Filled(q, d) /\ d # c
                        /\ CellAt(q, g, d) = CellAt(q, g, c)

\* The byte that the next cell is for.
Expected(q) == Offset + q.sig_cnt + q.size

\* What was written is in its place, and the packet that is to come, at e, is
\* the one that follows, or an earlier one after an update that was given up.
InPlace(q, g, e) ==
    /\ WellPlaced(q, g)
    /\ q.size + q.remain = ImgLen - SigLen
    /\ \A x \in Body : x >= q.size => g.image[x] = Erased
    /\ q.size > 0 => q.sig_cnt = SigLen
    /\ IF q.sig_flg THEN e <= Expected(q) /\ HdrMin <= Expected(q)
       ELSE q.size = 0

Whole(g) ==
    /\ g.sign = [i \in 1 .. SigLen |-> Offset + i - 1]
    /\ g.image = [i \in Body |-> Offset + SigLen + i]

\* The plug and the flash, when the next packet is of the bytes from e on.
PlugAt(q, g, e) ==
    /\ ~q.got_hdr => q.remain = 0 /\ ~q.sig_flg
    /\ ~q.sig_flg => q.sig_cnt = 0
    /\ g.sign # <<>> => q.got_hdr /\ q.remain <= 0 /\ Whole(g)
    /\ q.got_hdr /\ q.remain > 0 => InPlace(q, g, e) \/ Spoiled(q, g)

\* That is how they are between packets.
PlugInv(q, g) == PlugAt(q, g, q.recv)

\* What saving a packet does, q being the plug that has counted it.
Outcome(q, g, s) ==
    /\ s.p \in DemoOta /\ s.f \in Flash /\ s.status \in {"done", "fatal", "state"}
    /\ PlugInv(s.p, s.f)
    /\ s.status = "done" =>
        /\ s.p.recv = q.recv
        /\ s.p.save_done /\ s.f.sign = <<>> => q.save_done /\ g.sign = <<>>

\* The lengths.
LEMMA Sizes ==
    /\ ImgLen \in Nat /\ SigLen \in Nat /\ FileLen \in Nat /\ ChunkLen \in Nat
    /\ SigLen > 0 /\ ImgLen > SigLen /\ FileLen > 0 /\ ChunkLen > 0
    /\ HdrMin \in Nat /\ HdrBuf \in Nat /\ ChunkRetries \in Nat
    /\ ConnRetries \in Nat /\ MaxOtas \in Nat /\ MaxFaults \in Nat
  BY OtaAssumption

\* The bytes of the image.
LEMMA OffsetFact ==
    ASSUME cur \in 1 .. 2
    PROVE  /\ Offset \in Nat /\ Offset + ImgLen <= FileLen
           /\ \A b \in Int : b \in ImageBytes <=> Offset <= b /\ b < Offset + ImgLen
           /\ Erased \notin ImageBytes /\ Unknown \notin ImageBytes
<1>1. 3 - cur \in 1 .. 2
  OBVIOUS
<1>2. Offset \in 0 .. FileLen - ImgLen
  BY <1>1, OtaAssumption DEF Offset
<1>3. QED
  BY <1>2, Sizes DEF ImageBytes, Erased, Unknown

\* The smaller of two numbers.
LEMMA MinFact ==
    ASSUME NEW x \in Int, NEW y \in Int
    PROVE  Min({x, y}) = IF x <= y THEN x ELSE y
<1>1. \E m \in {x, y} : \A z \in {x, y} : m <= z
  OBVIOUS
<1>2. Min({x, y}) \in {x, y} /\ \A z \in {x, y} : Min({x, y}) <= z
  BY <1>1 DEF Min
<1>3. QED
  BY <1>2

-----------------------------------------------------------------------------
(* Cells that are written stay as they are.                                *)

More(q, g, r, h) ==
    \A c : Filled(q, c) => Filled(r, c) /\ CellAt(r, h, c) = CellAt(q, g, c)

\* So what is spoiled stays so.
LEMMA SpoiledStays ==
    ASSUME NEW q, NEW g, NEW r, NEW h, More(q, g, r, h), Spoiled(q, g)
    PROVE  Spoiled(r, h)
  BY DEF More, Spoiled

\* What is appended in its place leaves all in place.
LEMMA PlacedStays ==
    ASSUME NEW q, NEW g, NEW r, NEW h, More(q, g, r, h), WellPlaced(q, g),
           \A c : Filled(r, c) /\ ~Filled(q, c) => CellAt(r, h, c) = Offset + c
    PROVE  WellPlaced(r, h)
  BY DEF More, WellPlaced

\* A byte that comes again, or is not of the image, spoils it.
LEMMA Repeated ==
    ASSUME NEW q, NEW g, NEW r, NEW h, More(q, g, r, h), WellPlaced(q, g),
           NEW c, Filled(r, c), ~Filled(q, c),
           \/ CellAt(r, h, c) \notin ImageBytes
           \/ Filled(q, CellAt(r, h, c) - Offset),
           CellAt(r, h, c) \in Int, cur \in 1 .. 2
    PROVE  Spoiled(r, h)
<1>1. CASE CellAt(r, h, c) \notin ImageBytes
  BY <1>1 DEF Spoiled
<1>2. CASE Filled(q, CellAt(r, h, c) - Offset)
  <2>1. PICK b \in Int : b = CellAt(r, h, c)
    OBVIOUS
  <2>2. PICK d : d = b - Offset
    OBVIOUS
  <2>3. Filled(q, d)
    BY <1>2, <2>1, <2>2
  <2>4. CellAt(q, g, d) = Offset + d /\ Filled(r, d)
        /\ CellAt(r, h, d) = CellAt(q, g, d)
    BY <2>3 DEF More, WellPlaced
  <2>5. CellAt(r, h, d) = b
    BY <2>2, <2>4, OffsetFact
  <2>6. d # c
    BY <2>3
  <2>7. QED
    BY <2>1, <2>4, <2>5, <2>6 DEF Spoiled
<1>3. QED
  BY <1>1, <1>2

\* A byte before the one that is expected is of another place, or there.
LEMMA Earlier ==
    ASSUME NEW q \in DemoOta, NEW g, NEW e, InPlace(q, g, e), cur \in 1 .. 2,
           NEW b \in Int, b < Expected(q)
    PROVE  b \notin ImageBytes \/ Filled(q, b - Offset)
<1>1. q.sig_cnt \in 0 .. SigLen /\ q.size \in Nat
  BY DEF DemoOta
<1>2. q.size > 0 => q.sig_cnt = SigLen
  BY DEF InPlace
<1>3. QED
  BY <1>1, <1>2, OffsetFact, Sizes DEF Expected, Filled

\* When all cells are written and have the bytes of the image, none has the
\* byte of another one: there are as many cells as bytes.
LEMMA NotSpoiled ==
    ASSUME NEW q \in DemoOta, NEW g \in Flash, cur \in 1 .. 2,
           q.size = ImgLen - SigLen, q.sig_cnt = SigLen,
           Range(g.image) \cup Range(q.sig) = ImageBytes
    PROVE  ~Spoiled(q, g)
<1> DEFINE C == 0 .. ImgLen - 1
           F == [c \in C |-> CellAt(q, g, c)]
<1>1. q.sig \in [1 .. SigLen -> Byte] /\ g.image \in [Body -> Byte]
  BY DEF DemoOta, Flash
<1>2. \A b : b \in ImageBytes <=> (\E x \in Body : b = g.image[x])
                                  \/ (\E i \in 1 .. SigLen : b = q.sig[i])
  BY <1>1 DEF Range
<1>3. ASSUME NEW c \in C PROVE F[c] \in ImageBytes
  <2>1. CASE c < SigLen
    BY <1>2, <2>1, Sizes DEF CellAt
  <2>2. CASE ~(c < SigLen)
    BY <1>2, <2>2, Sizes DEF CellAt, Body
  <2>3. QED
    BY <2>1, <2>2
<1>4. ASSUME NEW b \in ImageBytes PROVE \E c \in C : F[c] = b
  <2>1. CASE \E x \in Body : b = g.image[x]
    <3>1. PICK x \in Body : b = g.image[x]
      BY <2>1
    <3>2. /\ SigLen + x \in C /\ ~(SigLen + x < SigLen)
          /\ (SigLen + x) - SigLen = x
      BY Sizes DEF Body
    <3>3. F[SigLen + x] = b
      BY <3>1, <3>2 DEF CellAt
    <3>4. QED
      BY <3>2, <3>3
  <2>2. CASE \E i \in 1 .. SigLen : b = q.sig[i]
    <3>1. PICK i \in 1 .. SigLen : b = q.sig[i]
      BY <2>2
    <3>2. i - 1 \in C /\ i - 1 < SigLen /\ (i - 1) + 1 = i
      BY Sizes
    <3>3. F[i - 1] = b
      BY <3>1, <3>2 DEF CellAt
    <3>4. QED
      BY <3>2, <3>3
  <2>3. QED
    BY <1>2, <2>1, <2>2
<1>5. F \in Surjection(C, ImageBytes)
  BY <1>3, <1>4 DEF Surjection
<1>6. IsFiniteSet(C) /\ Cardinality(C) = ImgLen
  <2>1. 0 \in Int /\ ImgLen - 1 \in Int /\ ~(0 > ImgLen - 1)
        /\ (ImgLen - 1) - 0 + 1 = ImgLen
    BY Sizes
  <2>2. QED
    BY <2>1, FS_Interval
<1>7. Cardinality(ImageBytes) = ImgLen
  <2>1. /\ Offset \in Int /\ Offset + ImgLen - 1 \in Int
        /\ ~(Offset > Offset + ImgLen - 1)
        /\ (Offset + ImgLen - 1) - Offset + 1 = ImgLen
    BY Sizes, OffsetFact
  <2>2. QED
    BY <2>1, FS_Interval DEF ImageBytes
<1> HIDE DEF C, F
<1>8. F \in Injection(C, ImageBytes)
  BY <1>5, <1>6, <1>7, FS_Surjection
<1>9. \A c, d \in C : F[c] = F[d] => c = d
  BY <1>8 DEF Injection, IsInjective
<1>10. \A c \in C : CellAt(q, g, c) = F[c] /\ F[c] \in ImageBytes
  BY <1>3 DEF F
<1>11. \A c : Filled(q, c) => c \in C
  BY DEF Filled, C
<1>12. QED
  BY <1>9, <1>10, <1>11 DEF Spoiled

-----------------------------------------------------------------------------
(* What the parts of demo_ota_save() do.                                   *)

\* A byte of a packet is a byte of the file, or unknown.
LEMMA SrcFact ==
    ASSUME NEW at \in Nat, NEW i \in Int, at + i < FileLen
    PROVE  /\ Src(at, i) \in Byte /\ Src(at, i) \in Int
           /\ i >= 0 => Src(at, i) = at + i
           /\ i < 0 => Src(at, i) = Unknown
  BY Sizes DEF Src, Byte, Unknown, Erased

\* More of the signature.
Taken(q, r, at, i, cnt) ==
    /\ r.sig_cnt = q.sig_cnt + cnt
    /\ \A x \in 1 .. SigLen : r.sig[x] =
         IF x \in q.sig_cnt + 1 .. q.sig_cnt + cnt
         THEN Src(at, i + x - q.sig_cnt - 1) ELSE q.sig[x]
    /\ r.size = q.size /\ r.remain = q.remain /\ r.recv = q.recv
    /\ r.got_hdr = q.got_hdr /\ r.sig_flg = q.sig_flg
    /\ r.save_done = q.save_done

LEMMA TakeSigFact ==
    ASSUME NEW q \in DemoOta, NEW at \in Nat, NEW i \in Int, NEW cnt \in Nat,
           q.sig_cnt + cnt <= SigLen, at + i + cnt <= FileLen,
           NEW r, r = TakeSig(q, at, i, cnt)
    PROVE  r \in DemoOta /\ Taken(q, r, at, i, cnt)
<1> DEFINE sg == [x \in 1 .. SigLen |->
                    IF x \in q.sig_cnt + 1 .. q.sig_cnt + cnt
                    THEN Src(at, i + x - q.sig_cnt - 1) ELSE q.sig[x]]
<1>1. q.sig_cnt \in 0 .. SigLen /\ q.sig \in [1 .. SigLen -> Byte]
  BY DEF DemoOta
<1>2. ASSUME NEW x \in 1 .. SigLen PROVE sg[x] \in Byte
  <2>1. CASE x \in q.sig_cnt + 1 .. q.sig_cnt + cnt
    <3>1. /\ i + x - q.sig_cnt - 1 \in Int
          /\ at + (i + x - q.sig_cnt - 1) < FileLen
      BY <1>1, <2>1, Sizes
    <3>2. QED
      BY <2>1, <3>1, SrcFact
  <2>2. CASE x \notin q.sig_cnt + 1 .. q.sig_cnt + cnt
    BY <1>1, <2>2
  <2>3. QED
    BY <2>1, <2>2
<1>3. sg \in [1 .. SigLen -> Byte]
  BY <1>2
<1>4. q.sig_cnt + cnt \in 0 .. SigLen
  BY <1>1, Sizes
<1>5. r = [q EXCEPT !.sig = sg, !.sig_cnt = @ + cnt]
  BY <1>1 DEF TakeSig
<1>6. \A x \in 1 .. SigLen : sg[x] =
                    IF x \in q.sig_cnt + 1 .. q.sig_cnt + cnt
                    THEN Src(at, i + x - q.sig_cnt - 1) ELSE q.sig[x]
  OBVIOUS
<1> HIDE DEF sg
<1>7. QED
  BY <1>3, <1>4, <1>5, <1>6 DEF DemoOta, Taken

\* A write to flash.
Written(q, g, r, h, at, i, k) ==
    /\ r.size = q.size + k /\ r.sig = q.sig
    /\ r.sig_cnt = q.sig_cnt /\ r.sig_flg = q.sig_flg
    /\ r.remain = q.remain /\ r.recv = q.recv
    /\ r.got_hdr = q.got_hdr /\ r.save_done = q.save_done
    /\ h.sign = g.sign
    /\ \A x \in Body : h.image[x] =
         IF x \notin q.size .. q.size + k - 1 THEN g.image[x]
         ELSE IF g.image[x] \in {Erased, Src(at, i + x - q.size)}
              THEN Src(at, i + x - q.size) ELSE Unknown

LEMMA WriteFact ==
    ASSUME NEW s, NEW q \in DemoOta, NEW g \in Flash, NEW at \in Nat,
           s = [p |-> q, f |-> g, status |-> "done"],
           NEW i \in Int, NEW k \in Nat, at + i + k <= FileLen,
           NEW fault, fault # "flash", NEW w, w = Write(s, at, i, k, fault)
    PROVE  \E r \in DemoOta, h \in Flash :
               /\ w = [p |-> r, f |-> h, status |-> "done"]
               /\ Written(q, g, r, h, at, i, k)
<1> DEFINE im == [x \in Body |->
                    IF x \notin q.size .. q.size + k - 1 THEN g.image[x]
                    ELSE IF g.image[x] \in {Erased, Src(at, i + x - q.size)}
                         THEN Src(at, i + x - q.size) ELSE Unknown]
           r == [q EXCEPT !.size = @ + k]
           h == [g EXCEPT !.image = im]
<1>1. q.size \in Nat /\ g.image \in [Body -> Byte]
  BY DEF DemoOta, Flash
<1>2. ASSUME NEW x \in Body PROVE im[x] \in Byte
  <2>1. x \in Int
    BY DEF Body
  <2>2. CASE x \in q.size .. q.size + k - 1
    <3>1. i + x - q.size \in Int /\ at + (i + x - q.size) < FileLen
      BY <1>1, <2>1, <2>2, Sizes
    <3>2. Src(at, i + x - q.size) \in Byte /\ Unknown \in Byte
      BY <3>1, SrcFact DEF Byte
    <3>3. QED
      BY <2>2, <3>2
  <2>3. CASE x \notin q.size .. q.size + k - 1
    BY <1>1, <2>3
  <2>4. QED
    BY <2>2, <2>3
<1>3. im \in [Body -> Byte]
  BY <1>2
<1>4. \A x \in Body : im[x] =
                    IF x \notin q.size .. q.size + k - 1 THEN g.image[x]
                    ELSE IF g.image[x] \in {Erased, Src(at, i + x - q.size)}
                         THEN Src(at, i + x - q.size) ELSE Unknown
  OBVIOUS
<1>5. w = [p |-> r, f |-> h, status |-> "done"]
  <2>1. s.p = q /\ s.f = g /\ s.status = "done"
    OBVIOUS
  <2>2. w = [s EXCEPT !.f.image = im, !.p.size = @ + k]
    BY <1>1, <2>1 DEF Write
  <2> HIDE DEF im
  <2>3. QED
    BY <2>1, <2>2
<1> HIDE DEF im
<1>6. h \in Flash /\ h.image = im /\ h.sign = g.sign
  BY <1>3 DEF Flash
<1>7. /\ r \in DemoOta /\ r.size = q.size + k /\ r.sig = q.sig
      /\ r.sig_cnt = q.sig_cnt /\ r.sig_flg = q.sig_flg
      /\ r.remain = q.remain /\ r.recv = q.recv
      /\ r.got_hdr = q.got_hdr /\ r.save_done = q.save_done
  <2>1. PICK v \in Nat : v = q.size + k
    BY <1>1
  <2>2. r = [q EXCEPT !.size = v]
    BY <2>1
  <2> HIDE DEF r
  <2>3. /\ r \in DemoOta /\ r.size = v /\ r.sig = q.sig
        /\ r.sig_cnt = q.sig_cnt /\ r.sig_flg = q.sig_flg
        /\ r.remain = q.remain /\ r.recv = q.recv
        /\ r.got_hdr = q.got_hdr /\ r.save_done = q.save_done
    BY <2>2, ZenonT(60) DEF DemoOta
  <2>4. QED
    BY <2>1, <2>2, <2>3
<1> HIDE DEF r, h
<1>8. Written(q, g, r, h, at, i, k)
  BY <1>4, <1>6, <1>7 DEF Written
<1>9. QED
  BY <1>5, <1>6, <1>7, <1>8

\* After an error the plug has forgotten all but how much it has written.
LEMMA ExitFact ==
    ASSUME NEW s, NEW q \in DemoOta, NEW g \in Flash, NEW r \in DemoOta,
           s = [p |-> r, f |-> g, status |-> "done"], g.sign = <<>>
    PROVE  Outcome(q, g, Exit(s))
<1>1. Exit(s) = [p |-> Zeroed(r), f |-> g, status |-> "fatal"]
  <2>1. s.p = r /\ s.f = g /\ s.status = "done"
    OBVIOUS
  <2>2. PICK z : z = Zeroed(r)
    OBVIOUS
  <2>3. Exit(s) = [s EXCEPT !.p = z, !.status = "fatal"]
    BY <2>1, <2>2 DEF Exit
  <2>4. QED
    BY <2>2, <2>3
<1>2. /\ Zeroed(r) \in DemoOta /\ ~Zeroed(r).got_hdr /\ Zeroed(r).remain = 0
      /\ ~Zeroed(r).sig_flg /\ Zeroed(r).sig_cnt = 0
  <2>1. 0 \in 0 .. FileLen /\ 0 \in Nat /\ 0 \in Int /\ 0 \in 0 .. SigLen
    BY Sizes
  <2>2. QED
    BY <2>1, ZenonT(60) DEF Zeroed, DemoOta
<1>3. PlugInv(Zeroed(r), g)
  BY <1>2 DEF PlugInv, PlugAt
<1>4. QED
  BY <1>1, <1>2, <1>3 DEF Outcome

\* What is in place is whole when all of it is written.
LEMMA PlacedWhole ==
    ASSUME NEW q \in DemoOta, NEW g \in Flash, cur \in 1 .. 2,
           q.size = ImgLen - SigLen, q.sig_cnt = SigLen, WellPlaced(q, g)
    PROVE  /\ q.sig = [i \in 1 .. SigLen |-> Offset + i - 1]
           /\ g.image = [i \in Body |-> Offset + SigLen + i]
<1>1. q.sig \in [1 .. SigLen -> Byte] /\ g.image \in [Body -> Byte]
  BY DEF DemoOta, Flash
<1>2. ASSUME NEW i \in 1 .. SigLen PROVE q.sig[i] = Offset + i - 1
  <2>1. i - 1 < SigLen /\ (i - 1) + 1 = i /\ i - 1 \in 0 .. ImgLen - 1
    BY Sizes
  <2>2. Filled(q, i - 1)
    BY <2>1 DEF Filled
  <2>3. CellAt(q, g, i - 1) = Offset + (i - 1)
    BY <2>2 DEF WellPlaced
  <2>4. CellAt(q, g, i - 1) = q.sig[i]
    BY <2>1 DEF CellAt
  <2>5. QED
    BY <2>3, <2>4, OffsetFact
<1>3. ASSUME NEW x \in Body PROVE g.image[x] = Offset + SigLen + x
  <2>1. /\ SigLen + x \in 0 .. ImgLen - 1 /\ ~(SigLen + x < SigLen)
        /\ SigLen <= SigLen + x /\ SigLen + x < SigLen + (ImgLen - SigLen)
        /\ (SigLen + x) - SigLen = x
    BY Sizes DEF Body
  <2>2. Filled(q, SigLen + x)
    BY <2>1 DEF Filled
  <2>3. CellAt(q, g, SigLen + x) = Offset + (SigLen + x)
    BY <2>2 DEF WellPlaced
  <2>4. CellAt(q, g, SigLen + x) = g.image[x]
    BY <2>1 DEF CellAt
  <2>5. QED
    BY <2>3, <2>4, OffsetFact, Sizes DEF Body
<1>4. QED
  BY <1>1, <1>2, <1>3

\* The image is verified and signed, or its first byte erased.
LEMMA FinishFact ==
    ASSUME NEW o, NEW e, NEW s, NEW q \in DemoOta, NEW g \in Flash,
           s = [p |-> q, f |-> g, status |-> "done"], NEW fault,
           q.recv = o.recv, q.got_hdr, q.sig_flg, q.remain <= 0,
           q.sig_cnt = SigLen, g.sign = <<>>,
           WellPlaced(q, g) \/ Spoiled(q, g), cur \in 1 .. 2
    PROVE  Outcome(o, e, Finish(s, fault))
<1> DEFINE r == [q EXCEPT !.save_done = TRUE]
           w == Finish(s, fault)
<1>1. r \in DemoOta /\ r.recv = q.recv /\ r.got_hdr /\ r.sig_flg
      /\ r.remain <= 0 /\ ~(r.remain > 0)
  <2>1. /\ r \in DemoOta /\ r.recv = q.recv /\ r.got_hdr = q.got_hdr
        /\ r.sig_flg = q.sig_flg /\ r.remain = q.remain
    BY DEF DemoOta
  <2>2. ~(q.remain > 0)
    BY DEF DemoOta
  <2> HIDE DEF r
  <2>3. QED
    BY <2>1, <2>2
<1>2. s.p = q /\ s.f = g /\ s.status = "done"
  OBVIOUS
<1>3. CASE ~ChecksumOK(s)
  <2> DEFINE h == [image |-> [g.image EXCEPT ![0] = Erased], sign |-> <<>>]
  <2>1. h \in Flash /\ h.sign = <<>>
    BY DEF Flash, Byte
  <2>2. w.p = r /\ w.f = h /\ w.status = "fatal"
    BY <1>2, <1>3 DEF Finish
  <2> HIDE DEF h, w, r
  <2>3. PlugInv(r, h)
    BY <1>1, <2>1 DEF PlugInv, PlugAt
  <2>4. QED
    BY <1>1, <2>1, <2>2, <2>3 DEF Outcome, w
<1>4. CASE ChecksumOK(s) /\ fault = "sign"
  <2>1. w.p = r /\ w.f = g /\ w.status = "fatal"
    BY <1>2, <1>4 DEF Finish
  <2> HIDE DEF w, r
  <2>2. PlugInv(r, g)
    BY <1>1 DEF PlugInv, PlugAt
  <2>3. QED
    BY <1>1, <2>1, <2>2 DEF Outcome, w
<1>5. CASE ChecksumOK(s) /\ fault # "sign"
  <2> DEFINE h == [g EXCEPT !.sign = q.sig]
  <2>1. q.size = ImgLen - SigLen /\ Range(g.image) \cup Range(q.sig) = ImageBytes
    BY <1>2, <1>5 DEF ChecksumOK
  <2>2. WellPlaced(q, g)
    BY <2>1, NotSpoiled
  <2>3. h \in Flash /\ h.sign = q.sig /\ h.image = g.image
    BY DEF Flash, DemoOta
  <2>4. w.p = r /\ w.f = h /\ w.status = "done"
    BY <1>2, <1>5 DEF Finish
  <2>5. q.sig # <<>>
    <3>1. DOMAIN q.sig = 1 .. SigLen /\ 1 \in 1 .. SigLen
      BY Sizes DEF DemoOta
    <3>2. 1 \notin DOMAIN <<>>
      OBVIOUS
    <3>3. QED
      BY <3>1, <3>2
  <2> HIDE DEF h, w, r
  <2>6. Whole(h)
    BY <2>1, <2>2, <2>3, PlacedWhole DEF Whole
  <2>7. PlugInv(r, h)
    BY <1>1, <2>6 DEF PlugInv, PlugAt
  <2>8. QED
    BY <1>1, <2>3, <2>4, <2>5, <2>7 DEF Outcome, w
<1>6. QED
  BY <1>3, <1>4, <1>5

-----------------------------------------------------------------------------
(* The cells that a packet fills.                                          *)

\* Those of the signature.
TakenCells(q, g, r, at, i, cnt) ==
    /\ More(q, g, r, g)
    /\ \A c : Filled(r, c) /\ ~Filled(q, c) =>
         /\ c \in Int /\ q.sig_cnt <= c /\ c < q.sig_cnt + cnt
         /\ CellAt(r, g, c) = Src(at, i + c - q.sig_cnt)
    /\ cnt > 0 => /\ Filled(r, q.sig_cnt) /\ ~Filled(q, q.sig_cnt)
                  /\ CellAt(r, g, q.sig_cnt) = Src(at, i)

LEMMA TakeCells ==
    ASSUME NEW q \in DemoOta, NEW g \in Flash, NEW r \in DemoOta,
           NEW at \in Nat, NEW i \in Int, NEW cnt \in Nat,
           Taken(q, r, at, i, cnt)
    PROVE  TakenCells(q, g, r, at, i, cnt)
<1>1. /\ r.sig_cnt = q.sig_cnt + cnt /\ r.size = q.size
      /\ \A x \in 1 .. SigLen : r.sig[x] =
           IF x \in q.sig_cnt + 1 .. q.sig_cnt + cnt
           THEN Src(at, i + x - q.sig_cnt - 1) ELSE q.sig[x]
  BY DEF Taken
<1>2. /\ q.sig_cnt \in Nat /\ q.sig_cnt + cnt <= SigLen /\ q.size \in Nat
      /\ SigLen \in Nat /\ ImgLen \in Nat /\ SigLen < ImgLen
  BY <1>1, Sizes DEF DemoOta
<1>3. ASSUME NEW c, Filled(q, c)
      PROVE  Filled(r, c) /\ CellAt(r, g, c) = CellAt(q, g, c)
  <2>1. Filled(r, c) /\ c \in Nat
    BY <1>1, <1>2, <1>3 DEF Filled
  <2>2. CASE c < SigLen
    <3>1. c + 1 \in 1 .. SigLen /\ c + 1 \notin q.sig_cnt + 1 .. q.sig_cnt + cnt
      BY <1>1, <1>2, <1>3, <2>1, <2>2 DEF Filled
    <3>2. QED
      BY <1>1, <2>1, <2>2, <3>1 DEF CellAt
  <2>3. CASE ~(c < SigLen)
    BY <1>1, <2>1, <2>3 DEF CellAt
  <2>4. QED
    BY <1>1, <2>2, <2>3
<1>4. ASSUME NEW c, Filled(r, c), ~Filled(q, c)
      PROVE  /\ c \in Int /\ q.sig_cnt <= c /\ c < q.sig_cnt + cnt
             /\ CellAt(r, g, c) = Src(at, i + c - q.sig_cnt)
  <2>1. c \in Int /\ q.sig_cnt <= c /\ c < q.sig_cnt + cnt
    BY <1>1, <1>2, <1>4 DEF Filled
  <2>2. /\ c < SigLen /\ c + 1 \in 1 .. SigLen
        /\ c + 1 \in q.sig_cnt + 1 .. q.sig_cnt + cnt
        /\ i + (c + 1) - q.sig_cnt - 1 = i + c - q.sig_cnt
    BY <1>1, <1>2, <2>1
  <2>3. CellAt(r, g, c) = r.sig[c + 1]
    BY <1>1, <2>2 DEF CellAt
  <2>4. r.sig[c + 1] = Src(at, i + (c + 1) - q.sig_cnt - 1)
    BY <1>1, <2>2
  <2>5. QED
    BY <1>1, <2>1, <2>2, <2>3, <2>4
<1>5. ASSUME cnt > 0
      PROVE  /\ Filled(r, q.sig_cnt) /\ ~Filled(q, q.sig_cnt)
             /\ CellAt(r, g, q.sig_cnt) = Src(at, i)
  <2>1. Filled(r, q.sig_cnt) /\ ~Filled(q, q.sig_cnt)
        /\ i + q.sig_cnt - q.sig_cnt = i
    BY <1>1, <1>2, <1>5 DEF Filled
  <2>2. QED
    BY <1>1, <1>4, <2>1
<1>6. QED
  BY <1>3, <1>4, <1>5 DEF More, TakenCells

\* Those of flash.
WrittenCells(q, g, r, h, at, i, k) ==
    /\ More(q, g, r, h)
    /\ \A x \in Body : x >= r.size => h.image[x] = g.image[x]
    /\ (\A x \in Body : x >= q.size => g.image[x] = Erased) =>
         /\ \A c : Filled(r, c) /\ ~Filled(q, c) =>
             /\ c \in Int /\ SigLen + q.size <= c
             /\ c < SigLen + q.size + k
             /\ CellAt(r, h, c) = Src(at, i + c - SigLen - q.size)
         /\ k > 0 /\ q.size < ImgLen - SigLen =>
             /\ Filled(r, SigLen + q.size) /\ ~Filled(q, SigLen + q.size)
             /\ CellAt(r, h, SigLen + q.size) = Src(at, i)

LEMMA WriteCells ==
    ASSUME NEW q \in DemoOta, NEW g \in Flash, NEW r \in DemoOta, NEW h \in Flash,
           NEW at \in Nat, NEW i \in Int, NEW k \in Nat,
           Written(q, g, r, h, at, i, k)
    PROVE  WrittenCells(q, g, r, h, at, i, k)
<1>1. /\ r.sig_cnt = q.sig_cnt /\ r.sig = q.sig /\ r.size = q.size + k
      /\ \A x \in Body : h.image[x] =
           IF x \notin q.size .. q.size + k - 1 THEN g.image[x]
           ELSE IF g.image[x] \in {Erased, Src(at, i + x - q.size)}
                THEN Src(at, i + x - q.size) ELSE Unknown
  BY DEF Written
<1>2. /\ q.sig_cnt \in Nat /\ q.sig_cnt <= SigLen /\ q.size \in Nat
      /\ SigLen \in Nat /\ ImgLen \in Nat /\ SigLen < ImgLen
  BY <1>1, Sizes DEF DemoOta
<1>3. ASSUME NEW c, Filled(q, c)
      PROVE  Filled(r, c) /\ CellAt(r, h, c) = CellAt(q, g, c)
  <2>1. Filled(r, c) /\ c \in Nat
    BY <1>1, <1>2, <1>3 DEF Filled
  <2>2. CASE c < SigLen
    BY <1>1, <2>1, <2>2 DEF CellAt
  <2>3. CASE ~(c < SigLen)
    <3>1. c - SigLen \in Body /\ c - SigLen \notin q.size .. q.size + k - 1
      BY <1>1, <1>2, <1>3, <2>1, <2>3 DEF Filled, Body
    <3>2. h.image[c - SigLen] = g.image[c - SigLen]
      BY <1>1, <3>1
    <3>3. QED
      BY <1>1, <2>1, <2>3, <3>2 DEF CellAt
  <2>4. QED
    BY <1>1, <2>2, <2>3
<1>4. ASSUME NEW x \in Body, x >= r.size PROVE h.image[x] = g.image[x]
  <2>1. x \notin q.size .. q.size + k - 1
    BY <1>1, <1>2, <1>4 DEF Body
  <2>2. QED
    BY <1>1, <2>1
<1>5. ASSUME \A x \in Body : x >= q.size => g.image[x] = Erased,
             NEW c, Filled(r, c), ~Filled(q, c)
      PROVE  /\ c \in Int /\ SigLen + q.size <= c /\ c < SigLen + q.size + k
             /\ CellAt(r, h, c) = Src(at, i + c - SigLen - q.size)
  <2>1. /\ c \in Int /\ SigLen + q.size <= c /\ c < SigLen + q.size + k
        /\ c < ImgLen
    BY <1>1, <1>2, <1>5 DEF Filled
  <2>2. PICK x \in Int : x = c - SigLen
    BY <1>1, <1>2, <2>1
  <2>3. /\ x \in Body /\ x \in q.size .. q.size + k - 1 /\ x >= q.size
        /\ ~(c < SigLen) /\ i + c - SigLen - q.size = i + x - q.size
    BY <1>1, <1>2, <2>1, <2>2 DEF Body
  <2>4. h.image[x] = Src(at, i + x - q.size)
    BY <1>1, <1>5, <2>3
  <2>5. CellAt(r, h, c) = h.image[x]
    BY <1>1, <2>2, <2>3 DEF CellAt
  <2>6. QED
    BY <1>1, <2>1, <2>3, <2>4, <2>5
<1>6. ASSUME \A x \in Body : x >= q.size => g.image[x] = Erased,
             k > 0, q.size < ImgLen - SigLen
      PROVE  /\ Filled(r, SigLen + q.size) /\ ~Filled(q, SigLen + q.size)
             /\ CellAt(r, h, SigLen + q.size) = Src(at, i)
  <2>1. Filled(r, SigLen + q.size) /\ ~Filled(q, SigLen + q.size)
        /\ i + (SigLen + q.size) - SigLen - q.size = i
    BY <1>1, <1>2, <1>6 DEF Filled
  <2>2. QED
    BY <1>1, <1>5, <1>6, <2>1
<1>7. QED
  BY <1>3, <1>4, <1>5, <1>6 DEF More, WrittenCells

\* The cells do not depend on the rest of the plug.
LEMMA SameCells ==
    ASSUME NEW q, NEW g, NEW r, r.sig_cnt = q.sig_cnt, r.size = q.size, r.sig = q.sig
    PROVE  More(q, g, r, g) /\ (WellPlaced(q, g) => WellPlaced(r, g))
  BY DEF More, WellPlaced, Filled, CellAt

\* What is left to write.
LEMMA RemainFact ==
    ASSUME NEW q \in DemoOta, NEW v \in Int
    PROVE  LET r == [q EXCEPT !.remain = v]
           IN  /\ r \in DemoOta /\ r.remain = v
               /\ r.sig_cnt = q.sig_cnt /\ r.size = q.size /\ r.sig = q.sig
               /\ r.recv = q.recv /\ r.got_hdr = q.got_hdr
               /\ r.sig_flg = q.sig_flg /\ r.save_done = q.save_done
  BY ZenonT(60) DEF DemoOta

\* The image has begun.
LEMMA FlagFact ==
    ASSUME NEW q \in DemoOta
    PROVE  LET r == [q EXCEPT !.sig_flg = TRUE, !.sig_cnt = 0]
           IN  /\ r \in DemoOta /\ r.sig_flg /\ r.sig_cnt = 0
               /\ r.size = q.size /\ r.sig = q.sig /\ r.remain = q.remain
               /\ r.recv = q.recv /\ r.got_hdr = q.got_hdr
               /\ r.save_done = q.save_done
<1>1. 0 \in 0 .. SigLen
  BY Sizes
<1>2. QED
  BY <1>1, ZenonT(60) DEF DemoOta

\* The outcome of a packet after which the image goes on.
LEMMA GoesOnFact ==
    ASSUME NEW q, NEW g, NEW w, NEW r \in DemoOta, NEW h \in Flash,
           w = [p |-> r, f |-> h, status |-> "done"],
           r.recv = q.recv, r.save_done = q.save_done, r.got_hdr, r.sig_flg,
           g.sign = <<>>, h.sign = <<>>,
           r.remain > 0 => InPlace(r, h, r.recv) \/ Spoiled(r, h)
    PROVE  Outcome(q, g, w)
<1>1. PlugInv(r, h)
  BY DEF PlugInv, PlugAt
<1>2. w.p = r /\ w.f = h /\ w.status = "done"
  OBVIOUS
<1>3. QED
  BY <1>1, <1>2 DEF Outcome

-----------------------------------------------------------------------------
(* The packets of an image.                                                *)

\* What holds of the plug and the flash when n bytes of the image arrive.
Arrives(q, g, at, n) ==
    /\ q \in DemoOta /\ g \in Flash /\ cur \in 1 .. 2
    /\ at \in Nat /\ n \in Nat /\ n > 0
    /\ q.recv = at + n /\ q.recv > Offset /\ HdrMin <= q.recv
    /\ q.got_hdr /\ q.remain > 0 /\ g.sign = <<>>
    /\ ~q.sig_flg => q.sig_cnt = 0
    /\ InPlace(q, g, at) \/ Spoiled(q, g)

LEMMA ArrivesFact ==
    ASSUME NEW q, NEW g, NEW at, NEW n, Arrives(q, g, at, n)
    PROVE  /\ q \in DemoOta /\ g \in Flash /\ at \in Nat /\ n \in Nat
           /\ q.recv \in Nat /\ at + n <= FileLen /\ q.remain \in Int
           /\ q.sig_cnt \in Nat /\ q.sig_cnt <= SigLen /\ q.size \in Nat
  BY Sizes DEF Arrives, DemoOta

\* The first one.
LEMMA FirstFact ==
    ASSUME NEW s, NEW q, NEW g, NEW at, NEW n, Arrives(q, g, at, n),
           s = [p |-> q, f |-> g, status |-> "done"], ~q.sig_flg, NEW fault
    PROVE  Outcome(q, g, SaveFirst(s, at, n, fault))
<1>1. /\ q \in DemoOta /\ g \in Flash /\ at \in Nat /\ n \in Nat /\ n > 0
      /\ q.recv \in Nat /\ at + n <= FileLen /\ q.remain \in Int
      /\ q.recv = at + n /\ q.recv > Offset /\ Offset \in Nat
      /\ HdrMin <= q.recv /\ q.got_hdr /\ q.remain > 0 /\ g.sign = <<>>
      /\ q.sig_cnt = 0 /\ (InPlace(q, g, at) \/ Spoiled(q, g)) /\ cur \in 1 .. 2
      /\ q.size \in Nat
  BY ArrivesFact, OffsetFact DEF Arrives
<1>2. PICK cnt \in Nat : cnt = q.recv - Offset
  BY <1>1
<1>3. PICK m \in Nat : m = Min({cnt, SigLen})
  BY Sizes, MinFact
<1>4. m = (IF cnt <= SigLen THEN cnt ELSE SigLen) /\ cnt > 0 /\ m > 0
  BY <1>1, <1>2, <1>3, Sizes, MinFact
<1>5. PICK i \in Int : i = n - cnt
  BY <1>1
<1>6. at + i = Offset
  BY <1>1, <1>2, <1>5
<1>7. PICK z : z = [q EXCEPT !.sig_flg = TRUE, !.sig_cnt = 0]
  OBVIOUS
<1>8. /\ z \in DemoOta /\ z.sig_flg /\ z.sig_cnt = 0 /\ z.size = q.size
      /\ z.sig = q.sig /\ z.remain = q.remain /\ z.recv = q.recv
      /\ z.got_hdr /\ z.save_done = q.save_done
  BY <1>1, <1>7, FlagFact
<1>9. More(q, g, z, g) /\ (WellPlaced(q, g) => WellPlaced(z, g))
  BY <1>1, <1>8, SameCells
<1>10. PICK r : r = TakeSig(z, at, i, m)
  OBVIOUS
<1>11. r \in DemoOta /\ Taken(z, r, at, i, m)
  <2>1. z.sig_cnt + m <= SigLen /\ at + i + m <= FileLen
    BY <1>1, <1>2, <1>4, <1>6, <1>8, Sizes
  <2>2. z \in DemoOta /\ at \in Nat /\ i \in Int /\ m \in Nat
    BY <1>1, <1>8
  <2>3. QED
    BY <1>10, <2>1, <2>2, TakeSigFact
<1>12. /\ r.sig_cnt = m /\ r.size = q.size /\ r.remain = q.remain
      /\ r.recv = q.recv /\ r.got_hdr /\ r.sig_flg /\ r.save_done = q.save_done
  BY <1>8, <1>11 DEF Taken
<1>13. /\ More(z, g, r, g)
       /\ \A c : Filled(r, c) /\ ~Filled(z, c) =>
            /\ c \in Int /\ z.sig_cnt <= c /\ c < z.sig_cnt + m
            /\ CellAt(r, g, c) = Src(at, i + c - z.sig_cnt)
       /\ Filled(r, z.sig_cnt) /\ ~Filled(z, z.sig_cnt)
       /\ CellAt(r, g, z.sig_cnt) = Src(at, i)
  <2>1. TakenCells(z, g, r, at, i, m)
    BY <1>1, <1>8, <1>11, TakeCells
  <2>2. QED
    BY <1>4, <2>1 DEF TakenCells
<1>14. Spoiled(q, g) => Spoiled(r, g)
  BY <1>9, <1>13, SpoiledStays
<1>15. ASSUME i >= 0, WellPlaced(q, g) PROVE WellPlaced(r, g)
  <2>1. ASSUME NEW c, Filled(r, c), ~Filled(z, c)
        PROVE  CellAt(r, g, c) = Offset + c
    <3>1. /\ c \in Int /\ 0 <= c /\ c < m /\ CellAt(r, g, c) = Src(at, i + c - 0)
      BY <1>8, <1>13, <2>1
    <3>2. i + c - 0 \in Int /\ i + c - 0 >= 0 /\ at + (i + c - 0) = Offset + c
          /\ at + (i + c - 0) < FileLen
      BY <1>1, <1>2, <1>4, <1>6, <1>15, <3>1, Sizes
    <3>3. QED
      BY <1>1, <3>1, <3>2, SrcFact
  <2>2. QED
    BY <1>9, <1>13, <1>15, <2>1, PlacedStays
<1>16. ASSUME i < 0, WellPlaced(q, g) PROVE Spoiled(r, g)
  <2>1. at + i < FileLen
    BY <1>1, <1>16, Sizes
  <2>2. CellAt(r, g, z.sig_cnt) = Unknown /\ Unknown \in Int
    BY <1>1, <1>13, <1>16, <2>1, SrcFact DEF Unknown
  <2>3. QED
    BY <1>1, <1>9, <1>13, <1>16, <2>2, OffsetFact, Repeated
<1>17. PICK w : w = [p |-> r, f |-> g, status |-> "done"]
  OBVIOUS
<1>18. w = [s EXCEPT !.p = TakeSig([@ EXCEPT !.sig_flg = TRUE, !.sig_cnt = 0],
                                   at, n - cnt, Min({cnt, SigLen}))]
  BY <1>3, <1>5, <1>7, <1>10, <1>17
<1>19. InPlace(q, g, at) => WellPlaced(q, g) /\ q.size = 0
                            /\ q.remain = ImgLen - SigLen
                            /\ \A x \in Body : g.image[x] = Erased
  <2>1. \A x \in Body : x >= 0
    BY Sizes DEF Body
  <2>2. QED
    BY <1>1, <2>1, Sizes DEF InPlace
<1>20. CASE cnt <= SigLen
  <2>1. SaveFirst(s, at, n, fault) = w
    BY <1>2, <1>18, <1>20 DEF SaveFirst
  <2>2. InPlace(r, g, r.recv) \/ Spoiled(r, g)
    <3>1. CASE Spoiled(q, g)
      BY <1>14, <3>1
    <3>2. CASE InPlace(q, g, at) /\ i < 0
      BY <1>16, <1>19, <3>2
    <3>3. CASE InPlace(q, g, at) /\ i >= 0
      <4>1. WellPlaced(r, g)
        BY <1>15, <1>19, <3>3
      <4>2. r.size = 0 /\ r.remain = ImgLen - SigLen
        BY <1>12, <1>19, <3>3
      <4>3. Expected(r) = r.recv /\ r.recv \in Nat /\ HdrMin <= r.recv
        BY <1>1, <1>2, <1>4, <1>12, <1>20, <4>2 DEF Expected
      <4>4. 0 + (ImgLen - SigLen) = ImgLen - SigLen /\ ~(0 > 0)
            /\ r.recv <= r.recv
        BY <4>3, Sizes
      <4>5. r.sig_flg
        BY <1>12
      <4>6. QED
        BY <1>19, <3>3, <4>1, <4>2, <4>3, <4>4, <4>5 DEF InPlace
    <3>4. QED
      BY <1>1, <1>5, <3>1, <3>2, <3>3
  <2>3. QED
    BY <1>1, <1>11, <1>12, <1>17, <2>1, <2>2, GoesOnFact
<1>21. CASE cnt > SigLen
  <2>1. PICK k \in Nat : k = cnt - SigLen
    BY <1>21, Sizes
  <2>2. PICK j \in Int : j = i + SigLen
    BY Sizes
  <2>3. PICK t : t = Write(w, at, j, k, fault)
    OBVIOUS
  <2>4. SaveFirst(s, at, n, fault) =
            IF t.status # "done" THEN t ELSE [t EXCEPT !.p.remain = @ - t.p.size]
    <3>1. ~(cnt <= SigLen) /\ n - cnt + SigLen = j /\ s.p.recv - Offset = cnt
      BY <1>2, <1>5, <1>21, <2>2, Sizes
    <3>2. QED
      BY <1>18, <2>1, <2>3, <3>1 DEF SaveFirst
  <2>5. CASE fault = "flash"
    <3>1. t = Exit(w)
      BY <2>3, <2>5 DEF Write
    <3>2. t.status = "fatal"
      BY <1>17, <3>1 DEF Exit
    <3>3. QED
      BY <1>1, <1>11, <1>17, <2>4, <3>1, <3>2, ExitFact
  <2>6. CASE fault # "flash"
    <3>1. PICK y \in DemoOta, h \in Flash :
          /\ t = [p |-> y, f |-> h, status |-> "done"]
          /\ Written(r, g, y, h, at, j, k)
      <4>1. at + j + k <= FileLen
        <5>1. j + k = i + cnt
          BY <2>1, <2>2, Sizes
        <5>2. i + cnt = n
          BY <1>1, <1>5
        <5>3. QED
          BY <1>1, <2>2, <5>1, <5>2
      <4>2. QED
        BY <1>1, <1>11, <1>17, <2>3, <2>6, <4>1, WriteFact
    <3>5. /\ y.size \in Nat /\ y.remain \in Int /\ h.sign = <<>>
          /\ y.size = r.size + k /\ y.sig_cnt = m /\ y.remain = q.remain
          /\ y.recv = q.recv /\ y.got_hdr /\ y.sig_flg /\ y.save_done = q.save_done
      BY <1>1, <1>12, <3>1 DEF DemoOta, Written
    <3>6. PICK v \in Int : v = y.remain - y.size
      BY <3>5
    <3>7. PICK o : o = [y EXCEPT !.remain = v]
      OBVIOUS
    <3>8. /\ o \in DemoOta /\ o.remain = v
          /\ o.sig_cnt = y.sig_cnt /\ o.size = y.size /\ o.sig = y.sig
          /\ o.recv = y.recv /\ o.got_hdr = y.got_hdr
          /\ o.sig_flg = y.sig_flg /\ o.save_done = y.save_done
      BY <3>7, RemainFact
    <3>9. SaveFirst(s, at, n, fault) = [p |-> o, f |-> h, status |-> "done"]
      <4>1. t.status = "done"
        BY <3>1
      <4>2. SaveFirst(s, at, n, fault) = [t EXCEPT !.p.remain = @ - t.p.size]
        BY <2>4, <4>1
      <4>3. QED
        BY <3>1, <3>6, <3>7, <4>2
    <3>10. /\ More(r, g, y, h)
           /\ \A x \in Body : x >= y.size => h.image[x] = g.image[x]
           /\ (\A x \in Body : x >= r.size => g.image[x] = Erased) =>
                \A c : Filled(y, c) /\ ~Filled(r, c) =>
                    /\ c \in Int /\ SigLen + r.size <= c
                    /\ c < SigLen + r.size + k
                    /\ CellAt(y, h, c) = Src(at, j + c - SigLen - r.size)
      <4>1. WrittenCells(r, g, y, h, at, j, k)
        BY <1>1, <1>11, <3>1, WriteCells
      <4>2. QED
        BY <4>1 DEF WrittenCells
    <3>11. More(y, h, o, h) /\ (WellPlaced(y, h) => WellPlaced(o, h))
      BY <3>8, SameCells
    <3>12. Spoiled(r, g) => Spoiled(o, h)
      BY <3>10, <3>11, SpoiledStays
    <3>13. InPlace(o, h, o.recv) \/ Spoiled(o, h)
      <4>1. CASE Spoiled(q, g)
        BY <1>14, <3>12, <4>1
      <4>2. CASE InPlace(q, g, at) /\ i < 0
        BY <1>16, <1>19, <3>12, <4>2
      <4>3. CASE InPlace(q, g, at) /\ i >= 0
        <5>1. WellPlaced(r, g) /\ r.size = 0
              /\ \A x \in Body : g.image[x] = Erased
          BY <1>12, <1>15, <1>19, <4>3
        <5>2. ASSUME NEW c, Filled(y, c), ~Filled(r, c)
              PROVE  CellAt(y, h, c) = Offset + c
          <6>1. /\ c \in Int /\ SigLen + 0 <= c /\ c < SigLen + 0 + k
                /\ CellAt(y, h, c) = Src(at, j + c - SigLen - 0)
            BY <3>10, <5>1, <5>2
          <6>2. /\ j + c - SigLen - 0 \in Int /\ j + c - SigLen - 0 >= 0
                /\ at + (j + c - SigLen - 0) = Offset + c
                /\ at + (j + c - SigLen - 0) < FileLen
            BY <1>1, <1>2, <1>6, <2>1, <2>2, <4>3, <6>1, Sizes
          <6>3. QED
            BY <1>1, <6>1, <6>2, SrcFact
        <5>3. WellPlaced(o, h)
          BY <3>10, <3>11, <5>1, <5>2, PlacedStays
        <5>4. o.size = k /\ o.remain = ImgLen - SigLen - k /\ o.sig_cnt = SigLen
          BY <1>4, <1>12, <1>19, <1>21, <3>5, <3>6, <3>8, <4>3, <5>1,
             Sizes
        <5>5. Expected(o) = o.recv /\ o.recv \in Nat /\ HdrMin <= o.recv
          <6>1. o.recv = q.recv
            BY <3>5, <3>8
          <6>2. Expected(o) = Offset + SigLen + k
            BY <5>4 DEF Expected
          <6>3. Offset + SigLen + k = q.recv
            BY <1>1, <1>2, <2>1, Sizes
          <6>4. QED
            BY <1>1, <6>1, <6>2, <6>3
        <5>6. o.size + o.remain = ImgLen - SigLen /\ o.recv <= o.recv
          BY <5>4, <5>5, Sizes
        <5>7. o.sig_flg
          BY <3>5, <3>8
        <5>8. \A x \in Body : x >= o.size => h.image[x] = Erased
          BY <3>8, <3>10, <5>1
        <5>9. QED
          BY <5>3, <5>4, <5>5, <5>6, <5>7, <5>8 DEF InPlace
      <4>4. QED
        BY <1>1, <4>1, <4>2, <4>3
    <3>14. QED
      <4>1. o.recv = q.recv /\ o.save_done = q.save_done /\ o.got_hdr /\ o.sig_flg
            /\ h.sign = <<>>
        BY <1>1, <3>5, <3>8
      <4>2. QED
        BY <1>1, <3>8, <3>9, <3>13, <4>1, GoesOnFact
  <2>7. QED
    BY <2>5, <2>6
<1>22. QED
  BY <1>20, <1>21, Sizes

\* One that goes on with the signature, or ends it.
LEMMA SigFact ==
    ASSUME NEW s, NEW q, NEW g, NEW at, NEW n, Arrives(q, g, at, n),
           s = [p |-> q, f |-> g, status |-> "done"],
           q.sig_flg, q.sig_cnt < SigLen, NEW fault
    PROVE  Outcome(q, g, SaveSig(s, at, n, fault))
<1>1. /\ q \in DemoOta /\ g \in Flash /\ at \in Nat /\ n \in Nat /\ n > 0
      /\ q.recv \in Nat /\ at + n <= FileLen /\ q.remain \in Int
      /\ q.recv = at + n /\ Offset \in Nat
      /\ HdrMin <= q.recv /\ q.got_hdr /\ q.remain > 0 /\ g.sign = <<>>
      /\ q.sig_cnt \in Nat /\ (InPlace(q, g, at) \/ Spoiled(q, g))
      /\ q.size \in Nat /\ cur \in 1 .. 2
  BY ArrivesFact, OffsetFact DEF Arrives
<1>2. /\ at \in Int /\ n \in Int /\ FileLen \in Int /\ SigLen \in Int
      /\ Offset \in Int /\ q.sig_cnt \in Int /\ q.size \in Int
      /\ n > 0 /\ at + n <= FileLen
  BY <1>1, Sizes
<1>3. PICK need \in Nat : need = SigLen - q.sig_cnt
  BY <1>1, Sizes
<1>4. PICK m \in Nat : m = Min({n, need})
  BY <1>1, MinFact
<1>5. m = (IF n <= need THEN n ELSE need) /\ need > 0 /\ m > 0
  BY <1>1, <1>3, <1>4, Sizes, MinFact
<1>6. PICK r : r = TakeSig(q, at, 0, m)
  OBVIOUS
<1>7. r \in DemoOta /\ Taken(q, r, at, 0, m)
  <2>1. m <= need /\ m <= n
    BY <1>2, <1>5
  <2>2. q.sig_cnt + m <= SigLen /\ at + 0 + m <= FileLen /\ 0 \in Int
    BY <1>2, <1>3, <2>1
  <2>3. QED
    BY <1>1, <1>6, <2>2, TakeSigFact
<1>8. /\ r.sig_cnt = q.sig_cnt + m /\ r.size = q.size /\ r.remain = q.remain
      /\ r.recv = q.recv /\ r.got_hdr /\ r.sig_flg /\ r.save_done = q.save_done
  BY <1>1, <1>7 DEF Taken
<1>9. /\ More(q, g, r, g)
      /\ \A c : Filled(r, c) /\ ~Filled(q, c) =>
           /\ c \in Int /\ q.sig_cnt <= c /\ c < q.sig_cnt + m
           /\ CellAt(r, g, c) = Src(at, 0 + c - q.sig_cnt)
      /\ Filled(r, q.sig_cnt) /\ ~Filled(q, q.sig_cnt)
      /\ CellAt(r, g, q.sig_cnt) = Src(at, 0)
  <2>1. TakenCells(q, g, r, at, 0, m)
    <3>1. 0 \in Int
      OBVIOUS
    <3>2. QED
      BY <1>1, <1>7, <3>1, TakeCells
  <2>2. QED
    BY <1>5, <2>1 DEF TakenCells
<1>10. Spoiled(q, g) => Spoiled(r, g)
  BY <1>9, SpoiledStays
<1>11. InPlace(q, g, at) => /\ WellPlaced(q, g) /\ q.size = 0
                            /\ q.remain = ImgLen - SigLen
                            /\ at <= Offset + q.sig_cnt
                            /\ \A x \in Body : g.image[x] = Erased
  <2>1. \A x \in Body : x >= 0
    BY Sizes DEF Body
  <2>2. QED
    BY <1>1, <2>1, Sizes DEF InPlace, Expected
<1>12. ASSUME InPlace(q, g, at), at = Offset + q.sig_cnt PROVE WellPlaced(r, g)
  <2>1. ASSUME NEW c, Filled(r, c), ~Filled(q, c)
        PROVE  CellAt(r, g, c) = Offset + c
    <3>1. /\ c \in Int /\ q.sig_cnt <= c /\ c < q.sig_cnt + m
          /\ CellAt(r, g, c) = Src(at, 0 + c - q.sig_cnt)
      BY <1>9, <2>1
    <3>2. PICK e \in Int : e = 0 + c - q.sig_cnt
      BY <1>1, <3>1
    <3>3. m <= n
      BY <1>1, <1>5
    <3>4. e >= 0 /\ e < n
      BY <1>2, <3>1, <3>2, <3>3
    <3>5. at + e = Offset + c
      BY <1>2, <1>12, <3>1, <3>2
    <3>6. at + e < FileLen
      BY <1>2, <3>4
    <3>7. QED
      BY <1>1, <3>1, <3>2, <3>4, <3>5, <3>6, SrcFact
  <2>2. QED
    BY <1>9, <1>11, <1>12, <2>1, PlacedStays
<1>13. ASSUME InPlace(q, g, at), at < Offset + q.sig_cnt PROVE Spoiled(r, g)
  <2>1. CellAt(r, g, q.sig_cnt) = at
    <3>1. at + 0 = at /\ at + 0 < FileLen /\ 0 \in Int
      BY <1>1, Sizes
    <3>2. QED
      BY <1>1, <1>9, <3>1, SrcFact
  <2>2. at < Expected(q) /\ at \in Int
    BY <1>1, <1>11, <1>13 DEF Expected
  <2>3. at \notin ImageBytes \/ Filled(q, at - Offset)
    BY <1>1, <1>13, <2>2, Earlier
  <2>4. QED
    BY <1>1, <1>9, <1>11, <1>13, <2>1, <2>2, <2>3, Repeated
<1>14. PICK w : w = [p |-> r, f |-> g, status |-> "done"]
  OBVIOUS
<1>15. w = [s EXCEPT !.p = TakeSig(@, at, 0, Min({n, need}))]
  BY <1>4, <1>6, <1>14
<1>16. CASE n <= need
  <2>1. SaveSig(s, at, n, fault) = w
    BY <1>3, <1>15, <1>16 DEF SaveSig
  <2>2. InPlace(r, g, r.recv) \/ Spoiled(r, g)
    <3>1. CASE Spoiled(q, g)
      BY <1>10, <3>1
    <3>2. CASE InPlace(q, g, at) /\ at < Offset + q.sig_cnt
      BY <1>13, <3>2
    <3>3. CASE InPlace(q, g, at) /\ at = Offset + q.sig_cnt
      <4>1. WellPlaced(r, g)
        BY <1>12, <3>3
      <4>2. r.size = 0 /\ r.remain = ImgLen - SigLen
        BY <1>8, <1>11, <3>3
      <4>3. Expected(r) = r.recv /\ r.recv \in Nat /\ HdrMin <= r.recv
        BY <1>1, <1>5, <1>8, <1>16, <3>3, <4>2 DEF Expected
      <4>4. 0 + (ImgLen - SigLen) = ImgLen - SigLen /\ ~(0 > 0)
            /\ r.recv <= r.recv
        BY <4>3, Sizes
      <4>5. QED
        BY <1>8, <1>11, <3>3, <4>1, <4>2, <4>3, <4>4 DEF InPlace
    <3>4. QED
      BY <1>1, <1>11, <3>1, <3>2, <3>3
  <2>3. QED
    BY <1>1, <1>7, <1>8, <1>14, <2>1, <2>2, GoesOnFact
<1>17. CASE n > need
  <2>1. PICK v \in Int : v = q.remain - (n - need)
    BY <1>1
  <2>2. PICK k \in Nat : k = n - need + Min({0, v})
    BY <1>1, <1>17, <2>1, MinFact
  <2>3. /\ k = (IF v >= 0 THEN n - need ELSE q.remain)
        /\ need + k <= n /\ Min({0, v}) \in Int
    BY <1>1, <1>17, <2>1, <2>2, MinFact
  <2>4. PICK z : z = [r EXCEPT !.remain = v]
    OBVIOUS
  <2>5. /\ z \in DemoOta /\ z.remain = v
        /\ z.sig_cnt = r.sig_cnt /\ z.size = r.size /\ z.sig = r.sig
        /\ z.recv = r.recv /\ z.got_hdr = r.got_hdr
        /\ z.sig_flg = r.sig_flg /\ z.save_done = r.save_done
    BY <1>7, <2>1, <2>4, RemainFact
  <2>6. More(r, g, z, g) /\ (WellPlaced(r, g) => WellPlaced(z, g))
    BY <2>5, SameCells
  <2>7. PICK u : u = [p |-> z, f |-> g, status |-> "done"]
    OBVIOUS
  <2>8. u = [w EXCEPT !.p.remain = @ - (n - need)]
    BY <1>8, <1>14, <2>1, <2>4, <2>7
  <2>9. PICK t : t = Write(u, at, need, k, fault)
    OBVIOUS
  <2>10. SaveSig(s, at, n, fault) = t
    <3>1. ~(n <= need) /\ s.p.sig_cnt = q.sig_cnt
      BY <1>1, <1>17
    <3>2. u.p.remain = v
      BY <2>5, <2>7
    <3>3. QED
      BY <1>3, <1>15, <2>2, <2>8, <2>9, <3>1, <3>2 DEF SaveSig
  <2>11. CASE fault = "flash"
    <3>1. t = Exit(u)
      BY <2>9, <2>11 DEF Write
    <3>2. QED
      BY <1>1, <2>5, <2>7, <2>10, <3>1, ExitFact
  <2>12. CASE fault # "flash"
    <3>1. PICK y \in DemoOta, h \in Flash :
          /\ t = [p |-> y, f |-> h, status |-> "done"]
          /\ Written(z, g, y, h, at, need, k)
      <4>1. at + need + k <= FileLen
        BY <1>1, <2>3, Sizes
      <4>2. QED
        BY <1>1, <2>5, <2>7, <2>9, <2>12, <4>1, WriteFact
    <3>2. /\ y.size \in Nat /\ h.sign = <<>>
          /\ y.size = q.size + k /\ y.sig_cnt = q.sig_cnt + m /\ y.remain = v
          /\ y.recv = q.recv /\ y.got_hdr /\ y.sig_flg /\ y.save_done = q.save_done
      BY <1>1, <1>8, <2>5, <3>1 DEF DemoOta, Written
    <3>3. /\ More(z, g, y, h)
          /\ \A x \in Body : x >= y.size => h.image[x] = g.image[x]
          /\ (\A x \in Body : x >= z.size => g.image[x] = Erased) =>
               \A c : Filled(y, c) /\ ~Filled(z, c) =>
                   /\ c \in Int /\ SigLen + z.size <= c
                   /\ c < SigLen + z.size + k
                   /\ CellAt(y, h, c) = Src(at, need + c - SigLen - z.size)
      <4>1. WrittenCells(z, g, y, h, at, need, k)
        BY <1>1, <2>5, <3>1, WriteCells
      <4>2. QED
        BY <4>1 DEF WrittenCells
    <3>4. Spoiled(r, g) => Spoiled(y, h)
      BY <2>6, <3>3, SpoiledStays
    <3>5. ASSUME v > 0 PROVE InPlace(y, h, y.recv) \/ Spoiled(y, h)
      <4>1. CASE Spoiled(q, g)
        BY <1>10, <3>4, <4>1
      <4>2. CASE InPlace(q, g, at) /\ at < Offset + q.sig_cnt
        BY <1>13, <3>4, <4>2
      <4>3. CASE InPlace(q, g, at) /\ at = Offset + q.sig_cnt
        <5>1. WellPlaced(z, g) /\ z.size = 0
              /\ \A x \in Body : g.image[x] = Erased
          BY <1>8, <1>11, <1>12, <2>5, <2>6, <4>3
        <5>2. k = n - need
          BY <2>1, <2>3, <3>5
        <5>3. ASSUME NEW c, Filled(y, c), ~Filled(z, c)
              PROVE  CellAt(y, h, c) = Offset + c
          <6>1. /\ c \in Int /\ SigLen + 0 <= c /\ c < SigLen + 0 + k
                /\ CellAt(y, h, c) = Src(at, need + c - SigLen - 0)
            BY <3>3, <5>1, <5>3
          <6>2. PICK e \in Int : e = need + c - SigLen - 0
            BY <6>1, Sizes
          <6>3. e >= 0 /\ e < n
            BY <1>2, <5>2, <6>1, <6>2
          <6>4. e = c - q.sig_cnt
            BY <1>2, <1>3, <6>1, <6>2
          <6>5. at + e = Offset + c
            BY <1>2, <4>3, <6>1, <6>4
          <6>6. at + e < FileLen
            BY <1>2, <6>3
          <6>7. QED
            BY <1>1, <6>1, <6>2, <6>3, <6>5, <6>6, SrcFact
        <5>4. WellPlaced(y, h)
          BY <3>3, <5>1, <5>3, PlacedStays
        <5>5. y.size = k /\ y.sig_cnt = SigLen
          <6>1. q.size = 0 /\ m = need
            BY <1>2, <1>5, <1>11, <1>17, <4>3
          <6>2. y.size = 0 + k /\ y.sig_cnt = q.sig_cnt + need
            BY <3>2, <6>1
          <6>3. QED
            BY <1>2, <1>3, <6>2
        <5>6. Expected(y) = y.recv /\ y.recv \in Nat /\ HdrMin <= y.recv
          <6>1. Expected(y) = Offset + SigLen + k
            BY <5>5 DEF Expected
          <6>2. Offset + SigLen + k = at + n
            BY <1>2, <1>3, <4>3, <5>2
          <6>3. QED
            BY <1>1, <3>2, <6>1, <6>2
        <5>7. y.size + y.remain = ImgLen - SigLen /\ y.recv <= y.recv
          <6>1. k + v = q.remain
            BY <1>1, <2>1, <5>2
          <6>2. QED
            BY <1>11, <3>2, <4>3, <5>5, <5>6, <6>1
        <5>8. \A x \in Body : x >= y.size => h.image[x] = Erased
          BY <3>3, <5>1
        <5>9. QED
          BY <3>2, <5>4, <5>5, <5>6, <5>7, <5>8 DEF InPlace
      <4>4. QED
        BY <1>1, <1>11, <4>1, <4>2, <4>3
    <3>6. QED
      BY <1>1, <2>10, <3>1, <3>2, <3>5, GoesOnFact
  <2>13. QED
    BY <2>11, <2>12
<1>18. QED
  BY <1>1, <1>16, <1>17

\* Any other one.
LEMMA BodyFact ==
    ASSUME NEW s, NEW q, NEW g, NEW at, NEW n, Arrives(q, g, at, n),
           s = [p |-> q, f |-> g, status |-> "done"],
           q.sig_flg, ~(q.sig_cnt < SigLen), NEW fault
    PROVE  Outcome(q, g, SaveBody(s, at, n, fault))
<1>1. /\ q \in DemoOta /\ g \in Flash /\ at \in Nat /\ n \in Nat /\ n > 0
      /\ q.recv \in Nat /\ at + n <= FileLen /\ q.remain \in Int
      /\ q.recv = at + n /\ Offset \in Nat
      /\ HdrMin <= q.recv /\ q.got_hdr /\ q.remain > 0 /\ g.sign = <<>>
      /\ q.sig_cnt = SigLen /\ (InPlace(q, g, at) \/ Spoiled(q, g))
      /\ q.size \in Nat /\ cur \in 1 .. 2
  <2>1. q.sig_cnt = SigLen
    BY ArrivesFact, Sizes
  <2>2. QED
    BY <2>1, ArrivesFact, OffsetFact DEF Arrives
<1>2. /\ at \in Int /\ n \in Int /\ FileLen \in Int /\ SigLen \in Int
      /\ Offset \in Int /\ q.sig_cnt \in Int /\ q.size \in Int
      /\ n > 0 /\ at + n <= FileLen
  BY <1>1, Sizes
<1>3. PICK v \in Int : v = q.remain - n
  BY <1>1
<1>4. PICK k \in Nat : k = n + Min({0, v})
  BY <1>1, <1>3, MinFact
<1>5. k = (IF v >= 0 THEN n ELSE q.remain) /\ k > 0 /\ k <= n
  BY <1>1, <1>3, <1>4, MinFact
<1>6. PICK z : z = [q EXCEPT !.remain = v]
  OBVIOUS
<1>7. /\ z \in DemoOta /\ z.remain = v
      /\ z.sig_cnt = q.sig_cnt /\ z.size = q.size /\ z.sig = q.sig
      /\ z.recv = q.recv /\ z.got_hdr = q.got_hdr
      /\ z.sig_flg = q.sig_flg /\ z.save_done = q.save_done
  BY <1>1, <1>6, RemainFact
<1>8. More(q, g, z, g) /\ (WellPlaced(q, g) => WellPlaced(z, g))
  BY <1>7, SameCells
<1>9. PICK r : r = [p |-> z, f |-> g, status |-> "done"]
  OBVIOUS
<1>10. PICK w : w = Write(r, at, 0, k, fault)
  OBVIOUS
<1>11. SaveBody(s, at, n, fault) =
          IF w.status = "done" /\ v <= 0 THEN Finish(w, fault) ELSE w
  <2>1. r = [s EXCEPT !.p.remain = @ - n]
    BY <1>3, <1>6, <1>9
  <2>2. r.p.remain = v /\ n + Min({0, r.p.remain}) = k
    BY <1>4, <1>7, <1>9
  <2>3. w = Write(r, at, 0, n + Min({0, r.p.remain}), fault)
    BY <1>10, <2>2
  <2>4. SaveBody(s, at, n, fault) =
          IF w.status = "done" /\ r.p.remain <= 0 THEN Finish(w, fault) ELSE w
    BY <2>1, <2>3 DEF SaveBody
  <2>5. QED
    BY <2>2, <2>4
<1>12. CASE fault = "flash"
  <2>1. w = Exit(r)
    BY <1>10, <1>12 DEF Write
  <2>2. w.status = "fatal"
    BY <1>9, <2>1 DEF Exit
  <2>3. QED
    BY <1>1, <1>7, <1>9, <1>11, <2>1, <2>2, ExitFact
<1>13. CASE fault # "flash"
  <2>1. PICK y \in DemoOta, h \in Flash :
        /\ w = [p |-> y, f |-> h, status |-> "done"]
        /\ Written(z, g, y, h, at, 0, k)
    <3>1. at + 0 + k <= FileLen /\ 0 \in Int
      BY <1>1, <1>5, Sizes
    <3>2. QED
      BY <1>1, <1>7, <1>9, <1>10, <1>13, <3>1, WriteFact
  <2>2. /\ y.size \in Nat /\ h.sign = <<>>
        /\ y.size = q.size + k /\ y.sig_cnt = SigLen /\ y.remain = v
        /\ y.recv = q.recv /\ y.got_hdr /\ y.sig_flg /\ y.save_done = q.save_done
    BY <1>1, <1>7, <2>1 DEF DemoOta, Written
  <2>3. /\ More(z, g, y, h)
        /\ \A x \in Body : x >= y.size => h.image[x] = g.image[x]
        /\ (\A x \in Body : x >= z.size => g.image[x] = Erased) =>
             /\ \A c : Filled(y, c) /\ ~Filled(z, c) =>
                 /\ c \in Int /\ SigLen + z.size <= c
                 /\ c < SigLen + z.size + k
                 /\ CellAt(y, h, c) = Src(at, 0 + c - SigLen - z.size)
             /\ k > 0 /\ z.size < ImgLen - SigLen =>
                 /\ Filled(y, SigLen + z.size) /\ ~Filled(z, SigLen + z.size)
                 /\ CellAt(y, h, SigLen + z.size) = Src(at, 0)
    <3>1. 0 \in Int
      OBVIOUS
    <3>2. WrittenCells(z, g, y, h, at, 0, k)
      BY <1>1, <1>7, <2>1, <3>1, WriteCells
    <3>3. QED
      BY <3>2 DEF WrittenCells
  <2>4. Spoiled(q, g) => Spoiled(y, h)
    BY <1>8, <2>3, SpoiledStays
  <2>5. InPlace(q, g, at) => /\ WellPlaced(z, g)
                             /\ q.size + q.remain = ImgLen - SigLen
                             /\ at <= Offset + SigLen + q.size
                             /\ \A x \in Body : x >= z.size => g.image[x] = Erased
    BY <1>1, <1>7, <1>8 DEF InPlace, Expected
  <2>6. ASSUME InPlace(q, g, at), at = Offset + SigLen + q.size
        PROVE  WellPlaced(y, h)
    <3>1. ASSUME NEW c, Filled(y, c), ~Filled(z, c)
          PROVE  CellAt(y, h, c) = Offset + c
      <4>1. /\ c \in Int /\ SigLen + q.size <= c /\ c < SigLen + q.size + k
            /\ CellAt(y, h, c) = Src(at, 0 + c - SigLen - q.size)
        BY <1>7, <2>3, <2>5, <2>6, <3>1
      <4>2. PICK e \in Int : e = 0 + c - SigLen - q.size
        BY <1>1, <4>1, Sizes
      <4>3. e >= 0 /\ e < n
        BY <1>1, <1>5, <4>1, <4>2, Sizes
      <4>4. at + e = Offset + c
        BY <1>2, <2>6, <4>1, <4>2
      <4>5. at + e < FileLen
        BY <1>2, <4>3
      <4>6. QED
        BY <1>1, <4>1, <4>2, <4>3, <4>4, <4>5, SrcFact
    <3>2. QED
      BY <2>3, <2>5, <2>6, <3>1, PlacedStays
  <2>7. ASSUME InPlace(q, g, at), at < Offset + SigLen + q.size
        PROVE  Spoiled(y, h)
    <3>1. PICK c : c = SigLen + z.size
      OBVIOUS
    <3>2. Filled(y, c) /\ ~Filled(z, c) /\ CellAt(y, h, c) = Src(at, 0)
      <4>1. k > 0 /\ z.size < ImgLen - SigLen
        BY <1>1, <1>5, <1>7, <2>5, <2>7, Sizes
      <4>2. QED
        BY <2>3, <2>5, <2>7, <3>1, <4>1
    <3>3. CellAt(y, h, c) = at
      <4>1. at + 0 = at /\ at + 0 < FileLen /\ 0 \in Int
        BY <1>1, Sizes
      <4>2. QED
        BY <1>1, <3>2, <4>1, SrcFact
    <3>4. at < Expected(q) /\ at \in Int
      BY <1>1, <2>7 DEF Expected
    <3>5. at \notin ImageBytes \/ Filled(q, at - Offset)
      BY <1>1, <2>7, <3>4, Earlier
    <3>6. at \notin ImageBytes \/ Filled(z, at - Offset)
      BY <1>8, <3>5 DEF More
    <3>7. QED
      BY <1>1, <2>3, <2>5, <2>7, <3>2, <3>3, <3>4, <3>6, Repeated
  <2>8. WellPlaced(y, h) \/ Spoiled(y, h)
    BY <1>1, <2>4, <2>5, <2>6, <2>7, Sizes
  <2>9. CASE v <= 0
    <3>1. SaveBody(s, at, n, fault) = Finish(w, fault)
      BY <1>11, <2>1, <2>9
    <3>2. QED
      BY <1>1, <2>1, <2>2, <2>8, <2>9, <3>1, FinishFact
  <2>10. CASE v > 0
    <3>1. SaveBody(s, at, n, fault) = w
      BY <1>11, <2>10
    <3>2. InPlace(y, h, y.recv) \/ Spoiled(y, h)
      <4>1. CASE Spoiled(q, g)
        BY <2>4, <4>1
      <4>2. CASE InPlace(q, g, at) /\ at < Offset + SigLen + q.size
        BY <2>7, <4>2
      <4>3. CASE InPlace(q, g, at) /\ at = Offset + SigLen + q.size
        <5>1. WellPlaced(y, h)
          BY <2>6, <4>3
        <5>2. k = n
          BY <1>5, <2>10
        <5>3. Expected(y) = y.recv /\ y.recv \in Nat /\ HdrMin <= y.recv
          BY <1>1, <2>2, <4>3, <5>2, Sizes DEF Expected
        <5>4. y.size + y.remain = ImgLen - SigLen /\ y.recv <= y.recv
          <6>1. k + v = q.remain
            BY <1>1, <1>3, <5>2
          <6>2. (q.size + k) + v = q.size + q.remain
            BY <1>1, <6>1
          <6>3. QED
            BY <2>2, <2>5, <4>3, <5>3, <6>2
        <5>5. \A x \in Body : x >= y.size => h.image[x] = Erased
          <6>1. \A x \in Body : x >= y.size => x >= z.size
            BY <1>1, <1>7, <2>2, Sizes DEF Body
          <6>2. QED
            BY <2>3, <2>5, <4>3, <6>1
        <5>6. QED
          BY <2>2, <5>1, <5>3, <5>4, <5>5 DEF InPlace
      <4>4. QED
        BY <1>1, <2>5, <4>1, <4>2, <4>3, Sizes
    <3>3. QED
      BY <1>1, <2>1, <2>2, <3>1, <3>2, GoesOnFact
  <2>11. QED
    BY <2>9, <2>10
<1>14. QED
  BY <1>12, <1>13

\* A packet when the header has been read, or has not come in time.
LEMMA ImageFact ==
    ASSUME NEW s, NEW q \in DemoOta, NEW g \in Flash, NEW at \in Nat, NEW n \in Nat,
           n > 0, s = [p |-> q, f |-> g, status |-> "done"], q.recv = at + n,
           HdrMin <= q.recv, PlugAt(q, g, at), cur \in 1 .. 2, NEW fault
    PROVE  Outcome(q, g, SaveImage(s, at, n, fault))
<1>1. q.remain \in Int /\ q.recv \in Int /\ q.size \in Nat /\ q.sig_cnt \in Nat
  BY DEF DemoOta
<1>2. s.p = q /\ s.f = g /\ s.status = "done"
  OBVIOUS
<1>3. CASE q.remain <= 0 \/ q.recv <= Offset
  <2>1. SaveImage(s, at, n, fault) = s
    BY <1>2, <1>3 DEF SaveImage
  <2>2. PlugInv(q, g)
    <3>1. CASE q.remain <= 0
      <4>1. ~(q.remain > 0)
        BY <1>1, <3>1
      <4>2. QED
        BY <4>1 DEF PlugInv, PlugAt
    <3>2. CASE q.recv <= Offset
      <4>1. q.recv <= Expected(q)
        BY <1>1, <3>2, OffsetFact DEF Expected
      <4>2. InPlace(q, g, at) => InPlace(q, g, q.recv)
        BY <4>1 DEF InPlace
      <4>3. QED
        BY <4>2 DEF PlugInv, PlugAt
    <3>3. QED
      BY <1>3, <3>1, <3>2
  <2>3. QED
    BY <1>2, <2>1, <2>2 DEF Outcome
<1>4. CASE ~(q.remain <= 0 \/ q.recv <= Offset)
  <2>1. q.remain > 0 /\ q.recv > Offset
    BY <1>1, <1>4, OffsetFact
  <2>2. q.got_hdr
    BY <1>1, <2>1 DEF PlugAt
  <2>3. g.sign = <<>>
    BY <1>1, <1>4 DEF PlugAt
  <2>4. Arrives(q, g, at, n)
    BY <2>1, <2>2, <2>3 DEF Arrives, PlugAt
  <2>5. CASE ~q.sig_flg
    <3>1. SaveImage(s, at, n, fault) = SaveFirst(s, at, n, fault)
      BY <1>2, <1>4, <2>5 DEF SaveImage
    <3>2. QED
      BY <2>4, <2>5, <3>1, FirstFact
  <2>6. CASE q.sig_flg /\ q.sig_cnt < SigLen
    <3>1. SaveImage(s, at, n, fault) = SaveSig(s, at, n, fault)
      BY <1>2, <1>4, <2>6 DEF SaveImage
    <3>2. QED
      BY <2>4, <2>6, <3>1, SigFact
  <2>7. CASE q.sig_flg /\ ~(q.sig_cnt < SigLen)
    <3>1. SaveImage(s, at, n, fault) = SaveBody(s, at, n, fault)
      BY <1>2, <1>4, <2>7 DEF SaveImage
    <3>2. QED
      BY <2>4, <2>7, <3>1, BodyFact
  <2>8. QED
    BY <2>5, <2>6, <2>7
<1>5. QED
  BY <1>3, <1>4

\* The plug counts a packet.
LEMMA CountFact ==
    ASSUME NEW q \in DemoOta, NEW v \in 0 .. FileLen,
           NEW r, r = [q EXCEPT !.recv = v]
    PROVE  /\ r \in DemoOta /\ r.recv = v /\ r.remain = q.remain
           /\ r.sig_cnt = q.sig_cnt /\ r.size = q.size /\ r.sig = q.sig
           /\ r.got_hdr = q.got_hdr /\ r.sig_flg = q.sig_flg
           /\ r.save_done = q.save_done /\ r.hdr_count = q.hdr_count
  BY ZenonT(60) DEF DemoOta

\* What is so of a plug is so of one that differs in what PlugAt ignores.
LEMMA PlugSame ==
    ASSUME NEW q, NEW g, NEW e, NEW r, PlugAt(q, g, e),
           r.sig_cnt = q.sig_cnt, r.size = q.size, r.sig = q.sig,
           r.remain = q.remain, r.got_hdr = q.got_hdr, r.sig_flg = q.sig_flg
    PROVE  PlugAt(r, g, e)
<1>1. \A c : Filled(r, c) <=> Filled(q, c)
  BY DEF Filled
<1>2. \A c : CellAt(r, g, c) = CellAt(q, g, c)
  BY DEF CellAt
<1>3. WellPlaced(q, g) => WellPlaced(r, g)
  BY <1>1, <1>2 DEF WellPlaced
<1>4. Spoiled(q, g) => Spoiled(r, g)
  BY <1>1, <1>2 DEF Spoiled
<1>5. InPlace(q, g, e) => InPlace(r, g, e)
  BY <1>3 DEF InPlace, Expected
<1>6. QED
  BY <1>4, <1>5 DEF PlugAt

\* The header is read, and the flash is erased: what was counted as written in
\* an earlier update is not there.
HeaderRead(s, q, at, r) ==
    /\ ReadHeader(s) = [p |-> r, f |-> Blank, status |-> "done"]
    /\ r.recv = q.recv /\ r.save_done = q.save_done
    /\ PlugAt(r, Blank, at)

LEMMA HeaderFact ==
    ASSUME NEW q \in DemoOta, NEW g, NEW at \in Nat, NEW s, ~q.got_hdr,
           s = [p |-> q, f |-> g, status |-> "done"], PlugAt(q, g, at),
           cur \in 1 .. 2
    PROVE  \E r \in DemoOta : HeaderRead(s, q, at, r)
<1>1. PICK v \in Int : v = ImgLen - SigLen
  BY Sizes
<1>2. PICK r : r = [q EXCEPT !.remain = v, !.got_hdr = TRUE]
  OBVIOUS
<1>3. /\ r \in DemoOta /\ r.recv = q.recv /\ r.remain = v
      /\ r.sig_cnt = q.sig_cnt /\ r.size = q.size /\ r.sig = q.sig
      /\ r.got_hdr /\ r.sig_flg = q.sig_flg /\ r.save_done = q.save_done
  BY <1>2, ZenonT(60) DEF DemoOta
<1>4. ReadHeader(s) = [p |-> r, f |-> Blank, status |-> "done"]
  <2>1. PICK b : b = Blank
    OBVIOUS
  <2>2. ReadHeader(s) = [s EXCEPT !.p.remain = v, !.p.got_hdr = TRUE, !.f = b]
    BY <1>1, <2>1 DEF ReadHeader
  <2>3. s.p = q
    OBVIOUS
  <2>4. QED
    BY <1>2, <2>1, <2>2, <2>3
<1>5. ~r.sig_flg /\ r.sig_cnt = 0 /\ r.size \in Nat /\ v > 0
  BY <1>1, <1>3, Sizes DEF PlugAt, DemoOta
<1>6. Blank.sign = <<>> /\ \A x \in Body : Blank.image[x] = Erased
  BY DEF Blank
<1>7. CASE r.size = 0
  <2>1. WellPlaced(r, Blank)
    BY <1>5, <1>7, Sizes DEF WellPlaced, Filled
  <2>2. r.size + r.remain = ImgLen - SigLen /\ ~(r.size > 0)
    BY <1>1, <1>3, <1>7, Sizes
  <2>3. InPlace(r, Blank, at)
    BY <1>5, <1>6, <1>7, <2>1, <2>2 DEF InPlace
  <2>4. QED
    BY <1>3, <1>4, <1>5, <1>6, <2>3 DEF PlugAt, HeaderRead
<1>8. CASE r.size > 0
  <2>1. PICK c \in Nat : c = SigLen
    BY Sizes
  <2>2. Filled(r, c) /\ CellAt(r, Blank, c) = Erased
    <3>1. c \in 0 .. ImgLen - 1 /\ SigLen <= c /\ c < SigLen + r.size
          /\ ~(c < SigLen) /\ c - SigLen = 0 /\ 0 \in Body
      BY <1>5, <1>8, <2>1, Sizes DEF Body
    <3>2. QED
      BY <1>6, <3>1 DEF Filled, CellAt
  <2>3. Spoiled(r, Blank)
    BY <2>2, OffsetFact DEF Spoiled
  <2>4. QED
    BY <1>3, <1>4, <1>5, <1>6, <2>3 DEF PlugAt, HeaderRead
<1>9. QED
  BY <1>5, <1>7, <1>8

\* A packet.
LEMMA SaveFact ==
    ASSUME NEW at \in Nat, NEW n \in Nat, n > 0, at + n <= FileLen, NEW fault,
           p \in DemoOta, f \in Flash, cur \in 1 .. 2, PlugInv(p, f), p.recv = at,
           NEW q, q = [p EXCEPT !.recv = @ + n]
    PROVE  Outcome(q, f, Save(at, n, fault)) /\ q.recv = at + n
           /\ q.save_done = p.save_done
<1>1. PICK v \in 0 .. FileLen : v = at + n
  BY Sizes
<1>2. q = [p EXCEPT !.recv = v]
  BY <1>1
<1>3. /\ q \in DemoOta /\ q.recv = v /\ q.remain = p.remain
      /\ q.sig_cnt = p.sig_cnt /\ q.size = p.size /\ q.sig = p.sig
      /\ q.got_hdr = p.got_hdr /\ q.sig_flg = p.sig_flg
      /\ q.save_done = p.save_done /\ q.hdr_count = p.hdr_count
  BY <1>2, CountFact
<1>4. PlugAt(q, f, at)
  BY <1>3, PlugSame DEF PlugInv
<1>5. PICK s : s = [p |-> q, f |-> f, status |-> "done"]
  OBVIOUS
<1>6. PICK r : r = Save(at, n, fault)
  OBVIOUS
<1>7. r = IF fault = "malloc" THEN [s EXCEPT !.p = p, !.status = "state"]
          ELSE IF v < HdrMin THEN [s EXCEPT !.p.hdr_count = @ + n]
          ELSE IF v >= HdrBuf \/ p.got_hdr THEN SaveImage(s, at, n, fault)
          ELSE IF file = "badhdr" \/ p.hdr_count # p.recv THEN Exit(s)
          ELSE SaveImage(ReadHeader(s), at, n, fault)
  <2>1. s.p.recv = v
    BY <1>3, <1>5
  <2>2. s = [p |-> [p EXCEPT !.recv = @ + n], f |-> f, status |-> "done"]
    BY <1>5
  <2>3. QED
    BY <1>6, <2>1, <2>2 DEF Save
<1>8. Outcome(q, f, r)
  <2>1. CASE fault = "malloc"
    <3>1. r = [p |-> p, f |-> f, status |-> "state"]
      BY <1>5, <1>7, <2>1
    <3>2. r.p = p /\ r.f = f /\ r.status = "state"
      BY <3>1
    <3>3. QED
      BY <3>2 DEF Outcome
  <2>2. CASE fault # "malloc" /\ v < HdrMin
    <3>1. PICK z : z = [q EXCEPT !.hdr_count = @ + n]
      OBVIOUS
    <3>2. /\ z \in DemoOta /\ z.recv = v /\ z.remain = q.remain
          /\ z.sig_cnt = q.sig_cnt /\ z.size = q.size /\ z.sig = q.sig
          /\ z.got_hdr = q.got_hdr /\ z.sig_flg = q.sig_flg
          /\ z.save_done = q.save_done
      <4>1. q.hdr_count \in Nat
        BY <1>3 DEF DemoOta
      <4>2. PICK c \in Nat : c = q.hdr_count + n
        BY <4>1
      <4>3. z = [q EXCEPT !.hdr_count = c]
        BY <3>1, <4>2
      <4>4. QED
        BY <1>3, <4>3, ZenonT(60) DEF DemoOta
    <3>3. r = [p |-> z, f |-> f, status |-> "done"]
      BY <1>5, <1>7, <2>2, <3>1
    <3>4. InPlace(q, f, at) => InPlace(q, f, v)
      <4>1. q.sig_cnt \in Int /\ q.size \in Int
        BY <1>3 DEF DemoOta
      <4>2. HdrMin <= Expected(q) => v <= Expected(q)
        BY <2>2, <4>1, OffsetFact, Sizes DEF Expected
      <4>3. QED
        BY <4>2 DEF InPlace
    <3>5. PlugAt(q, f, v)
      BY <1>4, <3>4 DEF PlugAt
    <3>6. PlugInv(z, f)
      BY <3>2, <3>5, PlugSame DEF PlugInv
    <3>7. r.p = z /\ r.f = f /\ r.status = "done"
      BY <3>3
    <3>8. QED
      BY <1>3, <3>2, <3>6, <3>7 DEF Outcome
  <2>3. CASE /\ fault # "malloc" /\ ~(v < HdrMin)
             /\ v >= HdrBuf \/ p.got_hdr
    <3>1. r = SaveImage(s, at, n, fault)
      BY <1>7, <2>3
    <3>2. HdrMin <= q.recv /\ q.recv = at + n
      BY <1>1, <1>3, <2>3, Sizes
    <3>3. QED
      BY <1>3, <1>4, <1>5, <3>1, <3>2, ImageFact
  <2>4. CASE /\ fault # "malloc" /\ ~(v < HdrMin)
             /\ ~(v >= HdrBuf \/ p.got_hdr)
    <3>1. ~q.got_hdr
      BY <1>3, <2>4
    <3>2. f.sign = <<>>
      BY <1>4, <3>1 DEF PlugAt
    <3>3. CASE file = "badhdr" \/ p.hdr_count # p.recv
      <4>1. r = Exit(s)
        BY <1>7, <2>4, <3>3
      <4>2. QED
        BY <1>3, <1>5, <3>2, <4>1, ExitFact
    <3>4. CASE ~(file = "badhdr" \/ p.hdr_count # p.recv)
      <4>1. r = SaveImage(ReadHeader(s), at, n, fault)
        BY <1>7, <2>4, <3>4
      <4>2. PICK z \in DemoOta : HeaderRead(s, q, at, z)
        BY <1>3, <1>4, <1>5, <3>1, HeaderFact
      <4>3. /\ ReadHeader(s) = [p |-> z, f |-> Blank, status |-> "done"]
            /\ z.recv = q.recv /\ z.save_done = q.save_done
            /\ PlugAt(z, Blank, at)
        BY <4>2 DEF HeaderRead
      <4>4. HdrMin <= z.recv /\ z.recv = at + n
        BY <1>1, <1>3, <2>4, <4>3, Sizes
      <4>5. Blank \in Flash
        BY DEF Blank, Flash, Byte
      <4>6. Outcome(z, Blank, r)
        BY <4>1, <4>3, <4>4, <4>5, ImageFact
      <4>7. QED
        BY <3>2, <4>3, <4>6 DEF Outcome
    <3>5. QED
      BY <3>3, <3>4
  <2>5. QED
    BY <2>1, <2>2, <2>3, <2>4
<1>9. QED
  BY <1>1, <1>3, <1>6, <1>8

-----------------------------------------------------------------------------
(* The agent.                                                              *)

\* An update is in progress until it has a status.
StatusInv(b) ==
    /\ b.ota.in_prog = "prog" => b.ota.http_status = "none"
    /\ b.ota.in_prog = "status" => b.ota.http_status # "none"
    /\ b.ota.in_prog = "none" => b.ota = NoOta

OtaInv(b) ==
    /\ StatusInv(b)
    /\ b.ota.in_prog = "prog" =>
        b.ota_status = "none" /\ b.ota.chunk_retries <= ChunkRetries

\* The request that is sent is of the step the update is at.
ConnInv(b) ==
    b.busy => \/ /\ b.conn = "otaget" /\ b.ota.in_prog = "prog"
                 /\ b.left <= FileLen - b.ota.off
              \/ b.conn = "otaput"
              \/ b.conn = "stsput" /\ b.ota.in_prog = "status"

\* A handler starts no update, moves no offset, and turns no error into success.
Keeps(b, r) ==
    /\ r.ota.in_prog = "prog" => b.ota.in_prog = "prog" /\ r.ota.off = b.ota.off
    /\ r.ota.in_prog = "status" =>
        \/ b.ota.in_prog = "prog" \/ r.ota.http_status = "err"
        \/ b.ota.in_prog = "status" /\ r.ota.http_status = b.ota.http_status

Handled(b, r) == r \in ClientState /\ OtaInv(r) /\ Keeps(b, r)

\* When the image has been received and is not signed, the update has failed.
DoneFails(b, q, g) ==
    q.save_done /\ g.sign = <<>> =>
        /\ b.ota.in_prog # "prog"
        /\ b.ota.in_prog = "status" => b.ota.http_status = "err"

Inv ==
    /\ OtaTypeOK /\ OtaInv(a) /\ ConnInv(a)
    /\ InStep /\ DoneFails(a, p, f) /\ PlugInv(p, f)

LEMMA HandledTrans ==
    ASSUME NEW b, NEW r, NEW t, Handled(b, r), Handled(r, t)
    PROVE  Handled(b, t)
  BY DEF Handled, Keeps

\* What is reported to the agent, and the status an update gets.
Reportable == Error \cup {"none"}
Result == {"ok", "err"}

\* client_ota_set_sts_rpt().
LEMMA SetStatusFact ==
    ASSUME NEW b \in ClientState, NEW sts \in Result, StatusInv(b),
           sts = "err" \/ b.ota.in_prog = "prog" \/ b.ota.http_status # "none",
           NEW r, r = SetStatus(b, sts)
    PROVE  /\ Handled(b, r) /\ r.conn = b.conn /\ r.busy = b.busy
           /\ r.ota.in_prog = "status"
           /\ b.ota.in_prog = "prog" => r.ota.http_status = sts
<1>1. b.ota \in OtaState
  BY DEF ClientState
<1>2. CASE b.ota.http_status # "none"
  <2>1. r = b
    BY <1>2 DEF SetStatus
  <2>2. b.ota.in_prog = "status"
    BY <1>1, <1>2 DEF StatusInv, NoOta, OtaState
  <2>3. QED
    BY <1>2, <2>1, <2>2 DEF Handled, OtaInv, StatusInv, Keeps
<1>3. CASE b.ota.http_status = "none"
  <2>1. PICK o : o = [b.ota EXCEPT !.http_status = sts, !.in_prog = "status"]
    OBVIOUS
  <2>2. o \in OtaState /\ o.in_prog = "status" /\ o.http_status = sts
    <3>1. sts \in {"none", "ok", "err"}
      BY DEF Result
    <3>2. QED
      BY <1>1, <2>1, <3>1, ZenonT(60) DEF OtaState
  <2>3. r = [b EXCEPT !.ota = o]
    BY <1>3, <2>1 DEF SetStatus, ClientState
  <2>4. r \in ClientState /\ r.ota = o /\ r.conn = b.conn /\ r.busy = b.busy
    BY <2>2, <2>3, ZenonT(60) DEF ClientState
  <2>5. OtaInv(r)
    BY <2>2, <2>4 DEF OtaInv, StatusInv, Result
  <2>6. Keeps(b, r)
    BY <1>3, <2>2, <2>4 DEF Keeps
  <2>7. QED
    BY <2>2, <2>4, <2>5, <2>6 DEF Handled
<1>4. QED
  BY <1>2, <1>3

\* The request is over.
LEMMA QuietFact ==
    ASSUME NEW b \in ClientState,
           NEW r, r = Quiet(b)
    PROVE  /\ r \in ClientState /\ ~r.busy /\ r.ota = b.ota /\ r.conn = b.conn
           /\ r.ota_status = b.ota_status /\ r.retries = b.retries
<1>1. FALSE \in BOOLEAN /\ 0 \in 0 .. ChunkLen
  BY Sizes
<1>2. QED
  BY <1>1, ZenonT(60) DEF ClientState, Quiet

\* ada_ota_report_int().
LEMMA ReportFact ==
    ASSUME NEW b \in ClientState, OtaInv(b), NEW status \in Reportable,
           NEW r, r = Report(b, status)
    PROVE  /\ Handled(b, r) /\ r.conn = b.conn
           /\ r.busy => b.busy
           /\ b.ota.in_prog = "prog" /\ status # "none" =>
                r.ota.in_prog = "status" /\ r.ota.http_status = "err"
<1>1. PICK z : z = [b EXCEPT !.ota_status = status]
  OBVIOUS
<1>2. /\ z \in ClientState /\ z.ota = b.ota /\ z.conn = b.conn
      /\ z.busy = b.busy /\ z.ota_status = status
  BY <1>1, ZenonT(60) DEF ClientState, Reportable
<1>3. b.ota \in OtaState
  BY DEF ClientState
<1>4. CASE status # "none" /\ b.ota_status # "none"
  <2>1. r = b
    BY <1>4 DEF Report
  <2>2. QED
    BY <1>4, <2>1 DEF OtaInv, Handled, Keeps
<1>5. CASE ~(status # "none" /\ b.ota_status # "none") /\ b.ota.in_prog = "none"
  <2>1. r = z
    BY <1>1, <1>5 DEF Report
  <2>2. QED
    BY <1>2, <1>5, <2>1 DEF OtaInv, StatusInv, Handled, Keeps
<1>6. CASE ~(status # "none" /\ b.ota_status # "none") /\ b.ota.in_prog = "prog"
  <2>1. PICK y : y = Quiet(z)
    OBVIOUS
  <2>2. PICK sts \in Result : sts = IF status = "none" THEN "ok" ELSE "err"
    BY DEF Result
  <2>3. r = SetStatus(y, sts)
    BY <1>1, <1>6, <2>1, <2>2 DEF Report
  <2>4. y \in ClientState /\ ~y.busy /\ y.ota = b.ota /\ y.conn = b.conn
    BY <1>2, <2>1, QuietFact
  <2>5. StatusInv(y)
    BY <2>4 DEF OtaInv, StatusInv
  <2>6. /\ Handled(y, r) /\ r.conn = y.conn /\ r.busy = y.busy
        /\ r.ota.in_prog = "status" /\ r.ota.http_status = sts
    BY <1>6, <2>3, <2>4, <2>5, SetStatusFact
  <2>7. QED
    BY <2>2, <2>4, <2>6 DEF Handled, Keeps
<1>7. CASE ~(status # "none" /\ b.ota_status # "none") /\ b.ota.in_prog = "status"
  <2>1. PICK sts \in Result : sts = IF status = "none" THEN "ok" ELSE "err"
    BY DEF Result
  <2>2. r = SetStatus(z, sts)
    BY <1>1, <1>7, <2>1 DEF Report
  <2>3. StatusInv(z) /\ z.ota.http_status # "none"
    BY <1>2, <1>7 DEF OtaInv, StatusInv
  <2>4. Handled(z, r) /\ r.conn = z.conn /\ r.busy = z.busy
    BY <1>2, <2>2, <2>3, SetStatusFact
  <2>5. QED
    BY <1>2, <1>7, <2>4 DEF Handled, Keeps
<1>8. QED
  BY <1>3, <1>4, <1>5, <1>6, <1>7 DEF OtaState

\* The connection is left for the next step, or closed.
LEMMA LeaveFact ==
    ASSUME NEW b \in ClientState, OtaInv(b),
           NEW c \in {"event", "retry", "down"}, NEW v \in 0 .. ConnRetries + 1,
           NEW r, r = [Quiet(b) EXCEPT !.retries = v, !.conn = c]
    PROVE  Handled(b, r) /\ ~r.busy /\ r.ota = b.ota
<1>1. PICK y : y = Quiet(b)
  OBVIOUS
<1>2. /\ y \in ClientState /\ ~y.busy /\ y.ota = b.ota
      /\ y.ota_status = b.ota_status
  BY <1>1, QuietFact
<1>3. /\ r \in ClientState /\ r.busy = y.busy /\ r.ota = y.ota
      /\ r.ota_status = y.ota_status
  <2>1. c \in {"event", "otaget", "otaput", "stsput", "retry", "down", "assert"}
    OBVIOUS
  <2>2. r = [y EXCEPT !.retries = v, !.conn = c]
    BY <1>1
  <2>3. QED
    BY <1>2, <2>1, <2>2, ZenonT(60) DEF ClientState
<1>4. OtaInv(r) /\ Keeps(b, r)
  BY <1>2, <1>3 DEF OtaInv, StatusInv, Keeps
<1>5. QED
  BY <1>2, <1>3, <1>4 DEF Handled

LEMMA RecvDoneFact ==
    ASSUME NEW b \in ClientState, OtaInv(b), NEW r, r = RecvDone(b)
    PROVE  Handled(b, r) /\ ~r.busy
<1>1. 0 \in 0 .. ConnRetries + 1
  BY Sizes
<1>2. QED
  BY <1>1, LeaveFact DEF RecvDone

LEMMA NextAgainFact ==
    ASSUME NEW b \in ClientState, OtaInv(b), NEW c \in {"event", "down"},
           NEW r, r = [Quiet(b) EXCEPT !.conn = c]
    PROVE  Handled(b, r) /\ ~r.busy
<1>1. PICK v \in 0 .. ConnRetries + 1 : v = b.retries
  BY DEF ClientState
<1>2. r = [Quiet(b) EXCEPT !.retries = v, !.conn = c]
  <2>1. PICK y : y = Quiet(b)
    OBVIOUS
  <2>2. y \in ClientState /\ y.retries = v
    BY <1>1, <2>1, QuietFact
  <2>3. QED
    BY <2>1, <2>2 DEF ClientState
<1>3. QED
  BY <1>2, LeaveFact

LEMMA RetryFact ==
    ASSUME NEW b \in ClientState, OtaInv(b), NEW r, r = Retry(b)
    PROVE  Handled(b, r) /\ ~r.busy
<1>1. PICK z : z = IF b.conn = "otaget" /\ b.retries > ConnRetries
                   THEN Report(b, "connect") ELSE b
  OBVIOUS
<1>2. Handled(b, z)
  <2>1. "connect" \in Reportable
    BY DEF Error, Reportable
  <2>2. Handled(b, b)
    BY DEF Handled, Keeps
  <2>3. CASE b.conn = "otaget" /\ b.retries > ConnRetries
    <3>1. z = Report(b, "connect")
      BY <1>1, <2>3
    <3>2. QED
      BY <2>1, <3>1, ReportFact
  <2>4. CASE ~(b.conn = "otaget" /\ b.retries > ConnRetries)
    BY <1>1, <2>2, <2>4
  <2>5. QED
    BY <2>3, <2>4
<1>3. z \in ClientState /\ OtaInv(z) /\ z.retries \in 0 .. ConnRetries + 1
  BY <1>2 DEF Handled, ClientState
<1>4. PICK v \in 0 .. ConnRetries + 1 : v = Min({z.retries + 1, ConnRetries + 1})
  BY <1>3, Sizes, MinFact
<1>5. r = [Quiet(z) EXCEPT !.retries = v, !.conn = "retry"]
  <2>1. PICK y : y = Quiet(z)
    OBVIOUS
  <2>2. y \in ClientState /\ y.retries = z.retries
    BY <1>3, <2>1, QuietFact
  <2>3. r = [y EXCEPT !.conn = "retry",
                      !.retries = Min({@ + 1, ConnRetries + 1})]
    BY <1>1, <2>1 DEF Retry
  <2>4. QED
    BY <1>4, <2>1, <2>2, <2>3 DEF ClientState
<1>6. Handled(z, r) /\ ~r.busy
  BY <1>3, <1>5, LeaveFact
<1>7. QED
  BY <1>2, <1>6, HandledTrans

\* client_recv_ota_get(), when the response has ended.
LEMMA RecvEndFact ==
    ASSUME NEW b \in ClientState, OtaInv(b), b.ota.in_prog = "prog",
           NEW r, r = RecvEnd(b)
    PROVE  Handled(b, r) /\ ~r.busy
<1>1. PICK z : z = IF b.ota.data_recvd THEN b ELSE Report(b, "get")
  OBVIOUS
<1>2. /\ Handled(b, z)
      /\ ~b.ota.data_recvd => z.ota.in_prog = "status" /\ z.ota.http_status = "err"
  <2>1. "get" \in Reportable /\ "get" # "none"
    BY DEF Error, Reportable
  <2>2. Handled(b, b)
    BY DEF Handled, Keeps
  <2>3. CASE b.ota.data_recvd
    BY <1>1, <2>2, <2>3
  <2>4. CASE ~b.ota.data_recvd
    <3>1. z = Report(b, "get")
      BY <1>1, <2>4
    <3>2. QED
      BY <2>1, <3>1, ReportFact
  <2>5. QED
    BY <2>3, <2>4
<1>3. z \in ClientState /\ OtaInv(z)
  BY <1>2 DEF Handled
<1>4. CASE b.ota.off >= FileLen \/ ~b.ota.data_recvd
  <2>1. PICK y : y = SetStatus(z, "ok")
    OBVIOUS
  <2>2. z.ota.in_prog = "prog" \/ z.ota.http_status # "none"
    BY <1>1, <1>2
  <2>3. Handled(z, y)
    <3>1. "ok" \in Result /\ StatusInv(z)
      BY <1>3 DEF Result, OtaInv
    <3>2. QED
      BY <1>3, <2>1, <2>2, <3>1, SetStatusFact
  <2>4. r = RecvDone(y)
    BY <1>1, <1>4, <2>1 DEF RecvEnd
  <2>5. Handled(y, r) /\ ~r.busy
    BY <2>3, <2>4, RecvDoneFact DEF Handled
  <2>6. QED
    BY <1>2, <2>3, <2>5, HandledTrans
<1>5. CASE ~(b.ota.off >= FileLen \/ ~b.ota.data_recvd)
  <2>1. r = RecvDone(b)
    BY <1>5 DEF RecvEnd
  <2>2. QED
    BY <2>1, RecvDoneFact
<1>6. QED
  BY <1>4, <1>5

-----------------------------------------------------------------------------
(* The inductive invariant.                                                *)

\* The plug's part of it in the next state.
LEMMA NextPlug ==
    ASSUME NEW q, NEW g, PlugInv(q, g), p' = q, f' = g, UNCHANGED cur
    PROVE  PlugInv(p, f)'
<1>1. Offset' = Offset /\ ImageBytes' = ImageBytes
  BY DEF Offset, ImageBytes
<1>2. (PlugInv(p, f))' <=> PlugInv(q, g)
  BY <1>1 DEF PlugInv, PlugAt, InPlace, WellPlaced, Spoiled, Whole, Expected,
              Filled, CellAt
<1>3. QED
  BY <1>2

\* The rest of it.
LEMMA NextInv ==
    ASSUME NEW b, a' = b, b \in ClientState, OtaInv(b), ConnInv(b),
           NEW q \in DemoOta, NEW g \in Flash, PlugInv(q, g), p' = q, f' = g,
           b.ota.in_prog = "prog" => q.recv = b.ota.off, DoneFails(b, q, g),
           cur \in 1 .. 2, UNCHANGED cur, file' \in Files,
           otas' \in 0 .. MaxOtas, faults' \in 0 .. MaxFaults
    PROVE  Inv'
<1>1. OtaTypeOK' /\ InStep'
  BY DEF OtaTypeOK, InStep
<1>2. (OtaInv(a) /\ ConnInv(a) /\ DoneFails(a, p, f))'
  BY DEF OtaInv, StatusInv, ConnInv, DoneFails
<1>3. PlugInv(p, f)'
  BY NextPlug
<1>4. QED
  BY <1>1, <1>2, <1>3 DEF Inv

\* A handler of the agent that does not touch the plug.
LEMMA AgentStep ==
    ASSUME Inv, NEW b, a' = b, Handled(a, b), ConnInv(b), UNCHANGED <<p, f, cur>>,
           file' \in Files, otas' \in 0 .. MaxOtas, faults' \in 0 .. MaxFaults
    PROVE  Inv'
<1>1. PICK q : q = p
  OBVIOUS
<1>2. PICK g : g = f
  OBVIOUS
<1>3. p' = q /\ f' = g
  BY <1>1, <1>2
<1>4. q \in DemoOta /\ g \in Flash /\ cur \in 1 .. 2 /\ UNCHANGED cur
  BY <1>1, <1>2 DEF Inv, OtaTypeOK
<1>5. PlugInv(q, g)
  BY <1>1, <1>2 DEF Inv
<1>6. b \in ClientState /\ OtaInv(b)
  BY DEF Handled
<1>7. b.ota.in_prog = "prog" => q.recv = b.ota.off
  BY <1>1 DEF Inv, InStep, Handled, Keeps
<1>8. DoneFails(b, q, g)
  BY <1>1, <1>2 DEF Inv, DoneFails, Handled, Keeps
<1>9. QED
  BY <1>3, <1>4, <1>5, <1>6, <1>7, <1>8, NextInv

\* The device starts.
LEMMA BootStep ==
    ASSUME Inv, Boot, faults' \in 0 .. MaxFaults
    PROVE  Inv'
<1>1. NoOta \in OtaState
  BY Sizes DEF NoOta, OtaState
<1>2. AgentUp \in ClientState
  BY <1>1, Sizes DEF AgentUp, ClientState
<1>3. PlugUp \in DemoOta
  BY Sizes DEF PlugUp, DemoOta, Byte
<1>4. Blank \in Flash /\ Blank.sign = <<>>
  BY DEF Blank, Flash, Byte
<1>5. f' \in Flash /\ cur' \in 1 .. 2 /\ f'.sign = <<>>
  BY <1>4 DEF Inv, OtaTypeOK, Boot
<1>6. a' = AgentUp /\ p' = PlugUp /\ file' = file /\ otas' = otas
  BY DEF Boot
<1>7. OtaTypeOK'
  BY <1>2, <1>3, <1>5, <1>6 DEF Inv, OtaTypeOK
<1>8. a'.ota = NoOta /\ a'.busy = FALSE
  BY <1>6 DEF AgentUp
<1>9. (OtaInv(a) /\ ConnInv(a))' /\ InStep'
  BY <1>8 DEF OtaInv, StatusInv, ConnInv, InStep, NoOta
<1>10. /\ p'.got_hdr = FALSE /\ p'.remain = 0 /\ p'.sig_flg = FALSE
       /\ p'.sig_cnt = 0 /\ p'.save_done = FALSE
  BY <1>6 DEF PlugUp
<1>11. PlugInv(p, f)' /\ DoneFails(a, p, f)'
  BY <1>5, <1>10 DEF PlugInv, PlugAt, DoneFails
<1>12. QED
  BY <1>7, <1>9, <1>11 DEF Inv

LEMMA InitInv == Init => Inv
<1> SUFFICES ASSUME Init PROVE Inv
  OBVIOUS
<1>1. NoOta \in OtaState
  BY Sizes DEF NoOta, OtaState
<1>2. AgentUp \in ClientState
  BY <1>1, Sizes DEF AgentUp, ClientState
<1>3. PlugUp \in DemoOta
  BY Sizes DEF PlugUp, DemoOta, Byte
<1>4. Blank \in Flash /\ Blank.sign = <<>>
  BY DEF Blank, Flash, Byte
<1>5. OtaTypeOK
  BY <1>2, <1>3, <1>4, Sizes DEF Init, OtaTypeOK
<1>6. a.ota = NoOta /\ a.busy = FALSE
  BY DEF Init, AgentUp
<1>7. OtaInv(a) /\ ConnInv(a) /\ InStep
  BY <1>6 DEF OtaInv, StatusInv, ConnInv, InStep, NoOta
<1>8. /\ p.got_hdr = FALSE /\ p.remain = 0 /\ p.sig_flg = FALSE
      /\ p.sig_cnt = 0 /\ p.save_done = FALSE
  BY DEF Init, PlugUp
<1>9. PlugInv(p, f) /\ DoneFails(a, p, f)
  BY <1>4, <1>8 DEF Init, PlugInv, PlugAt, DoneFails
<1>10. QED
  BY <1>5, <1>7, <1>9 DEF Inv

\* An update is started: what is in flash is of an earlier one, or not there.
LEMMA CommandStep ==
    ASSUME Inv, Command
    PROVE  Inv'
<1>1. /\ ~a.busy /\ a.ota.in_prog = "none" /\ a.ota_status = "none"
      /\ otas' \in 0 .. MaxOtas /\ faults' \in 0 .. MaxFaults
      /\ UNCHANGED <<f, cur>>
  <2>1. otas' \in 0 .. MaxOtas /\ faults' \in 0 .. MaxFaults
    BY Sizes DEF Inv, OtaTypeOK, Command
  <2>2. QED
    BY <2>1 DEF Command, Idle
<1>2. a \in ClientState /\ a.ota = NoOta /\ OtaInv(a)
  BY <1>1 DEF Inv, OtaTypeOK, OtaInv, StatusInv
<1>3. PICK k \in Files :
        LET parsed == IF k = "incomplete" THEN a
                      ELSE [a EXCEPT !.host = TRUE, !.uri = TRUE]
        IN  /\ file' = k
            /\ \/ /\ k = "module"
                  /\ a' = Report(SetStatus(parsed, "err"), "type")
                  /\ UNCHANGED p
               \/ /\ k # "module"
                  /\ a' = Started(parsed)
                  /\ p' = Notified(p)
  BY DEF Command
<1>4. PICK b : b = IF k = "incomplete" THEN a
                   ELSE [a EXCEPT !.host = TRUE, !.uri = TRUE]
  OBVIOUS
<1>5. b \in ClientState /\ b.ota = a.ota /\ b.busy = a.busy
      /\ b.ota_status = a.ota_status /\ b.conn = a.conn
  <2>1. CASE k = "incomplete"
    BY <1>2, <1>4, <2>1
  <2>2. CASE k # "incomplete"
    <3>1. b = [a EXCEPT !.host = TRUE, !.uri = TRUE]
      BY <1>4, <2>2
    <3>2. QED
      BY <1>2, <3>1, ZenonT(60) DEF ClientState
  <2>3. QED
    BY <2>1, <2>2
<1>6. file' = k /\ k \in Files
  BY <1>3
<1>7. CASE a' = Report(SetStatus(b, "err"), "type") /\ UNCHANGED p
  <2>1. PICK z : z = SetStatus(b, "err")
    OBVIOUS
  <2>2. StatusInv(b) /\ OtaInv(b) /\ "err" \in Result /\ "type" \in Reportable
    BY <1>2, <1>5 DEF OtaInv, StatusInv, Result, Reportable, Error
  <2>3. Handled(b, z) /\ z.busy = b.busy
    BY <1>5, <2>1, <2>2, SetStatusFact
  <2>4. PICK r : r = Report(z, "type")
    OBVIOUS
  <2>5. z \in ClientState /\ OtaInv(z)
    BY <2>3 DEF Handled
  <2>6. Handled(z, r)
    BY <2>2, <2>4, <2>5, ReportFact
  <2>7. r.busy => z.busy
    BY <2>2, <2>4, <2>5, ReportFact
  <2>8. Handled(b, r)
    BY <2>3, <2>6, HandledTrans
  <2>9. Handled(a, r) /\ ConnInv(r) /\ a' = r
    BY <1>1, <1>5, <1>7, <2>1, <2>3, <2>4, <2>7, <2>8
       DEF Handled, Keeps, ConnInv
  <2>10. QED
    BY <1>1, <1>6, <1>7, <2>9, AgentStep
<1>8. CASE a' = Started(b) /\ p' = Notified(p)
  <2>1. PICK o : o = [b.ota EXCEPT !.in_prog = "prog", !.off = 0,
                                   !.http_status = "none"]
    OBVIOUS
  <2>2. /\ o \in OtaState /\ o.in_prog = "prog" /\ o.off = 0
        /\ o.http_status = "none" /\ o.chunk_retries = b.ota.chunk_retries
    <3>1. b.ota \in OtaState /\ 0 \in 0 .. FileLen
      BY <1>5, Sizes DEF ClientState
    <3>2. QED
      BY <2>1, <3>1, ZenonT(60) DEF OtaState
  <2>3. PICK r : r = Started(b)
    OBVIOUS
  <2>4. r = [b EXCEPT !.ota = o, !.ota_status = "none"]
    BY <1>5, <2>1, <2>3 DEF Started, ClientState
  <2>5. r \in ClientState /\ r.ota = o /\ r.ota_status = "none" /\ r.busy = b.busy
    BY <1>5, <2>2, <2>4, ZenonT(60) DEF ClientState
  <2>6. o.chunk_retries = 0 /\ 0 <= ChunkRetries
    BY <1>2, <1>5, <2>2, Sizes DEF NoOta
  <2>7. OtaInv(r) /\ ConnInv(r)
    BY <1>1, <1>5, <2>2, <2>5, <2>6 DEF OtaInv, StatusInv, ConnInv
  <2>8. PICK q : q = Notified(p)
    OBVIOUS
  <2>9. p \in DemoOta /\ 0 \in 0 .. FileLen
    BY Sizes DEF Inv, OtaTypeOK
  <2>10. /\ q \in DemoOta /\ q.recv = 0 /\ q.save_done = FALSE
         /\ q.sig_cnt = p.sig_cnt /\ q.size = p.size /\ q.sig = p.sig
         /\ q.remain = p.remain /\ q.got_hdr = p.got_hdr /\ q.sig_flg = p.sig_flg
    BY <2>8, <2>9, ZenonT(60) DEF Notified, DemoOta
  <2>11. PICK g : g = f
    OBVIOUS
  <2>12. g \in Flash /\ cur \in 1 .. 2 /\ PlugAt(p, g, p.recv)
    BY <2>11 DEF Inv, OtaTypeOK, PlugInv
  <2>13. 0 <= Expected(p)
    BY <2>9, <2>12, OffsetFact DEF Expected, DemoOta
  <2>14. PlugAt(p, g, 0)
    BY <2>12, <2>13 DEF PlugAt, InPlace
  <2>15. PlugInv(q, g)
    BY <2>10, <2>14, PlugSame DEF PlugInv
  <2>16. DoneFails(r, q, g) /\ (r.ota.in_prog = "prog" => q.recv = r.ota.off)
    BY <2>2, <2>5, <2>10 DEF DoneFails
  <2>17. a' = r /\ p' = q /\ f' = g /\ UNCHANGED cur /\ file' \in Files
    BY <1>1, <1>6, <1>8, <2>3, <2>8, <2>11
  <2>18. QED
    BY <1>1, <2>5, <2>7, <2>10, <2>12, <2>15, <2>16, <2>17, NextInv
<1>9. QED
  BY <1>3, <1>4, <1>7, <1>8

\* A packet, and what the plug makes of it.
LEMMA RecvStep ==
    ASSUME Inv, NEW n \in Packets, NEW fault, Recv(n, fault),
           faults' \in 0 .. MaxFaults
    PROVE  Inv'
<1>1. /\ a \in ClientState /\ p \in DemoOta /\ f \in Flash /\ cur \in 1 .. 2
      /\ OtaInv(a) /\ a.conn = "otaget" /\ a.busy /\ a.ota.in_prog = "prog"
      /\ a.left <= FileLen - a.ota.off /\ p.recv = a.ota.off
      /\ PlugInv(p, f) /\ DoneFails(a, p, f) /\ n <= a.left
  BY DEF Inv, OtaTypeOK, ConnInv, InStep, Recv
<1>2. PICK at \in Nat : at = a.ota.off
  BY <1>1, Sizes DEF ClientState, OtaState
<1>3. /\ n \in Nat /\ n > 0 /\ a.left \in 0 .. ChunkLen /\ a.ota \in OtaState
      /\ at + n <= FileLen
  <2>1. n \in Nat /\ n > 0
    BY OtaAssumption
  <2>2. a.left \in 0 .. ChunkLen /\ a.ota \in OtaState
    BY <1>1 DEF ClientState
  <2>3. QED
    BY <1>1, <1>2, <2>1, <2>2, Sizes
<1>4. PICK q : q = [p EXCEPT !.recv = @ + n]
  OBVIOUS
<1>5. PICK s : s = Save(at, n, fault)
  OBVIOUS
<1>6. Outcome(q, f, s) /\ q.recv = at + n /\ q.save_done = p.save_done
  BY <1>1, <1>2, <1>3, <1>4, <1>5, SaveFact
<1>7. PICK y : y = s.p
  OBVIOUS
<1>8. PICK h : h = s.f
  OBVIOUS
<1>9. y \in DemoOta /\ h \in Flash /\ PlugInv(y, h)
      /\ s.status \in {"done", "fatal", "state"}
  BY <1>6, <1>7, <1>8 DEF Outcome
<1>10. PICK got : got = [a EXCEPT !.ota.off = @ + n, !.ota.data_recvd = TRUE,
                                  !.left = @ - n]
  OBVIOUS
<1>11. PICK failed : failed = [a EXCEPT !.ota.data_recvd = TRUE, !.uri = FALSE]
  OBVIOUS
<1>12. /\ p' = y /\ f' = h
       /\ a' = IF s.status # "done" THEN Retry(Report(failed, s.status))
               ELSE IF n = a.left THEN RecvEnd(got) ELSE got
       /\ UNCHANGED <<cur, file, otas>>
  BY <1>2, <1>5, <1>7, <1>8, <1>10, <1>11 DEF Recv
<1>13. file' \in Files /\ otas' \in 0 .. MaxOtas /\ UNCHANGED cur
  BY <1>12 DEF Inv, OtaTypeOK
<1>14. CASE s.status # "done"
  <2>1. PICK o : o = [a.ota EXCEPT !.data_recvd = TRUE]
    OBVIOUS
  <2>2. /\ o \in OtaState /\ o.in_prog = "prog" /\ o.off = a.ota.off
        /\ o.http_status = a.ota.http_status
        /\ o.chunk_retries = a.ota.chunk_retries
    BY <1>1, <1>3, <2>1, ZenonT(60) DEF OtaState
  <2>3. failed = [a EXCEPT !.ota = o, !.uri = FALSE]
    BY <1>1, <1>11, <2>1 DEF ClientState
  <2>4. failed \in ClientState /\ failed.ota = o
        /\ failed.ota_status = a.ota_status
    BY <1>1, <2>2, <2>3, ZenonT(60) DEF ClientState
  <2>5. OtaInv(failed)
    BY <1>1, <2>2, <2>4 DEF OtaInv, StatusInv
  <2>6. s.status \in Reportable /\ s.status # "none"
    BY <1>9, <1>14 DEF Reportable, Error
  <2>7. PICK z : z = Report(failed, s.status)
    OBVIOUS
  <2>8. Handled(failed, z) /\ z.ota.in_prog = "status" /\ z.ota.http_status = "err"
    <3>1. Handled(failed, z)
      BY <2>4, <2>5, <2>6, <2>7, ReportFact
    <3>2. z.ota.in_prog = "status" /\ z.ota.http_status = "err"
      <4>1. failed.ota.in_prog = "prog"
        BY <2>2, <2>4
      <4>2. QED
        BY <2>4, <2>5, <2>6, <2>7, <4>1, ReportFact
    <3>3. QED
      BY <3>1, <3>2
  <2>9. PICK r : r = Retry(z)
    OBVIOUS
  <2>10. Handled(z, r) /\ ~r.busy
    BY <2>8, <2>9, RetryFact DEF Handled
  <2>11. /\ r \in ClientState /\ OtaInv(r) /\ ConnInv(r)
         /\ r.ota.in_prog # "prog" /\ DoneFails(r, y, h)
    BY <2>8, <2>10 DEF Handled, Keeps, ConnInv, DoneFails
  <2>12. a' = r
    BY <1>12, <1>14, <2>7, <2>9
  <2>13. QED
    BY <1>1, <1>9, <1>12, <1>13, <2>11, <2>12, NextInv
<1>15. CASE s.status = "done"
  <2>1. y.recv = at + n /\ ~(y.save_done /\ h.sign = <<>>)
    BY <1>1, <1>6, <1>7, <1>8, <1>15 DEF Outcome, DoneFails
  <2>2. PICK v \in 0 .. FileLen : v = at + n
    BY <1>3, Sizes
  <2>3. PICK l \in 0 .. ChunkLen : l = a.left - n
    BY <1>1, <1>3, Sizes
  <2>4. PICK o : o = [a.ota EXCEPT !.off = v, !.data_recvd = TRUE]
    OBVIOUS
  <2>5. /\ o \in OtaState /\ o.in_prog = "prog" /\ o.off = v
        /\ o.http_status = a.ota.http_status
        /\ o.chunk_retries = a.ota.chunk_retries
    BY <1>1, <1>3, <2>4, ZenonT(60) DEF OtaState
  <2>6. got = [a EXCEPT !.ota = o, !.left = l]
    BY <1>1, <1>2, <1>10, <2>2, <2>3, <2>4 DEF ClientState
  <2>7. got \in ClientState /\ got.ota = o /\ got.left = l
        /\ got.ota_status = a.ota_status /\ got.conn = a.conn
    BY <1>1, <2>5, <2>6, ZenonT(60) DEF ClientState
  <2>8. OtaInv(got)
    BY <1>1, <2>5, <2>7 DEF OtaInv, StatusInv
  <2>9. CASE n = a.left
    <3>1. PICK r : r = RecvEnd(got)
      OBVIOUS
    <3>2. Handled(got, r) /\ ~r.busy
      BY <2>5, <2>7, <2>8, <3>1, RecvEndFact
    <3>3. /\ r \in ClientState /\ OtaInv(r) /\ ConnInv(r)
          /\ r.ota.in_prog = "prog" => y.recv = r.ota.off
          /\ DoneFails(r, y, h)
      BY <2>1, <2>2, <2>5, <2>7, <3>2 DEF Handled, Keeps, ConnInv, DoneFails
    <3>4. a' = r
      BY <1>12, <1>15, <2>9, <3>1
    <3>5. QED
      BY <1>1, <1>9, <1>12, <1>13, <3>3, <3>4, NextInv
  <2>10. CASE n # a.left
    <3>1. a' = got
      BY <1>12, <1>15, <2>10
    <3>2. got.left <= FileLen - got.ota.off
      <4>1. l <= FileLen - v
        BY <1>1, <1>2, <1>3, <2>2, <2>3, Sizes
      <4>2. QED
        BY <2>5, <2>7, <4>1
    <3>3. /\ ConnInv(got) /\ DoneFails(got, y, h) /\ y.recv = got.ota.off
      BY <1>1, <2>1, <2>2, <2>5, <2>7, <3>2 DEF ConnInv, DoneFails
    <3>4. QED
      BY <1>1, <1>9, <1>12, <1>13, <2>7, <2>8, <3>1, <3>3, NextInv
  <2>11. QED
    BY <2>9, <2>10
<1>16. QED
  BY <1>14, <1>15

\* The next chunk is asked for.
LEMMA FetchStep ==
    ASSUME Inv, Fetch
    PROVE  Inv'
<1>1. /\ a \in ClientState /\ OtaInv(a) /\ a.ota.in_prog = "prog" /\ ~a.busy
      /\ a.ota_status = "none" /\ a.ota.http_status = "none"
      /\ file' \in Files /\ otas' \in 0 .. MaxOtas /\ faults' \in 0 .. MaxFaults
      /\ UNCHANGED <<p, f, cur>>
  BY DEF Inv, OtaTypeOK, OtaInv, StatusInv, Fetch, Idle
<1>2. /\ a.ota \in OtaState /\ a.ota.off \in 0 .. FileLen
      /\ a.ota.chunk_retries \in 0 .. ChunkRetries
  <2>1. a.ota \in OtaState
    BY <1>1 DEF ClientState
  <2>2. a.ota.chunk_retries <= ChunkRetries
    BY <1>1 DEF OtaInv
  <2>3. QED
    BY <2>1, <2>2, Sizes DEF OtaState
<1>3. PICK again \in 0 .. ChunkRetries + 1 :
        again = IF a.ota.off = a.ota.prev_off THEN a.ota.chunk_retries + 1 ELSE 0
  BY <1>2, Sizes
<1>4. PICK o : o = [a.ota EXCEPT !.data_recvd = FALSE, !.chunk_retries = again]
  OBVIOUS
<1>5. /\ o \in OtaState /\ o.in_prog = "prog" /\ o.off = a.ota.off
      /\ o.http_status = "none" /\ o.chunk_retries = again
  BY <1>1, <1>2, <1>4, ZenonT(60) DEF OtaState
<1>6. PICK r : r = [a EXCEPT !.conn = "otaget", !.ota.data_recvd = FALSE,
                             !.ota.chunk_retries = again]
  OBVIOUS
<1>7. r = [a EXCEPT !.conn = "otaget", !.ota = o]
  BY <1>1, <1>4, <1>6 DEF ClientState
<1>8. /\ r \in ClientState /\ r.ota = o /\ r.conn = "otaget" /\ r.busy = a.busy
      /\ r.ota_status = "none"
  <2>1. "otaget" \in {"event", "otaget", "otaput", "stsput", "retry", "down",
                      "assert"}
    OBVIOUS
  <2>2. QED
    BY <1>1, <1>5, <1>7, <2>1, ZenonT(60) DEF ClientState
<1>9. a' = IF again > ChunkRetries THEN Report(r, "get")
           ELSE IF ~a.uri THEN [r EXCEPT !.conn = "assert"]
           ELSE [r EXCEPT !.ota.prev_off = a.ota.off, !.busy = TRUE,
                          !.left = RangeLen(a)]
  BY <1>3, <1>6 DEF Fetch, FetchImage
<1>10. CASE again > ChunkRetries
  <2>1. PICK b : b = Report(r, "get")
    OBVIOUS
  <2>2. a' = b
    BY <1>9, <1>10, <2>1
  <2>3. "get" \in Reportable /\ "get" # "none"
    BY DEF Reportable, Error
  <2>4. PICK z : z = [r EXCEPT !.ota_status = "get"]
    OBVIOUS
  <2>5. z \in ClientState /\ z.ota = o /\ z.busy = a.busy
    <3>1. "get" \in Error \cup {"none"}
      BY DEF Error
    <3>2. QED
      BY <1>8, <2>4, <3>1, ZenonT(60) DEF ClientState
  <2>6. PICK y : y = Quiet(z)
    OBVIOUS
  <2>7. y \in ClientState /\ ~y.busy /\ y.ota = o
    BY <2>5, <2>6, QuietFact
  <2>8. b = SetStatus(y, "err")
    BY <1>5, <1>8, <2>1, <2>4, <2>6 DEF Report
  <2>9. StatusInv(y) /\ "err" \in Result
    BY <1>5, <2>7 DEF StatusInv, Result
  <2>10. Handled(y, b) /\ b.busy = y.busy
    BY <2>7, <2>8, <2>9, SetStatusFact
  <2>11. Handled(a, b) /\ ConnInv(b)
    BY <1>1, <1>5, <2>7, <2>10 DEF Handled, Keeps, ConnInv
  <2>12. QED
    BY <1>1, <2>2, <2>11, AgentStep
<1>11. CASE ~(again > ChunkRetries)
  <2>1. again <= ChunkRetries
    BY <1>11, Sizes
  <2>2. CASE ~a.uri
    <3>1. PICK b : b = [r EXCEPT !.conn = "assert"]
      OBVIOUS
    <3>2. b \in ClientState /\ b.ota = o /\ b.busy = a.busy /\ b.ota_status = "none"
      <4>1. "assert" \in {"event", "otaget", "otaput", "stsput", "retry", "down",
                          "assert"}
        OBVIOUS
      <4>2. QED
        BY <1>8, <3>1, <4>1, ZenonT(60) DEF ClientState
    <3>3. Handled(a, b) /\ ConnInv(b)
      BY <1>1, <1>5, <2>1, <3>2 DEF Handled, Keeps, ConnInv, OtaInv, StatusInv
    <3>4. a' = b
      BY <1>9, <1>11, <2>2, <3>1
    <3>5. QED
      BY <1>1, <3>3, <3>4, AgentStep
  <2>3. CASE a.uri
    <3>1. PICK w : w = [o EXCEPT !.prev_off = a.ota.off]
      OBVIOUS
    <3>2. /\ w \in OtaState /\ w.in_prog = "prog" /\ w.off = a.ota.off
          /\ w.http_status = "none" /\ w.chunk_retries = again
      BY <1>2, <1>5, <3>1, ZenonT(60) DEF OtaState
    <3>3. PICK l \in 0 .. ChunkLen : l = RangeLen(a)
      BY <1>2, Sizes, MinFact DEF RangeLen
    <3>4. l <= FileLen - a.ota.off
      BY <1>2, <3>3, Sizes, MinFact DEF RangeLen
    <3>5. PICK b : b = [r EXCEPT !.ota.prev_off = a.ota.off, !.busy = TRUE,
                                 !.left = RangeLen(a)]
      OBVIOUS
    <3>6. b = [r EXCEPT !.ota = w, !.busy = TRUE, !.left = l]
      BY <1>8, <3>1, <3>3, <3>5 DEF ClientState
    <3>7. /\ b \in ClientState /\ b.ota = w /\ b.left = l
          /\ b.conn = "otaget" /\ b.ota_status = "none"
      BY <1>8, <3>2, <3>6, ZenonT(60) DEF ClientState
    <3>8. ConnInv(b)
      BY <3>2, <3>4, <3>7 DEF ConnInv
    <3>9. Handled(a, b)
      BY <1>1, <2>1, <3>2, <3>7 DEF Handled, Keeps, OtaInv, StatusInv
    <3>10. a' = b
      BY <1>9, <1>11, <2>3, <3>5
    <3>11. QED
      BY <1>1, <3>8, <3>9, <3>10, AgentStep
  <2>4. QED
    BY <2>2, <2>3
<1>12. QED
  BY <1>10, <1>11

\* One more thing that goes wrong.
LEMMA FaultFact ==
    ASSUME OtaTypeOK, Fault
    PROVE  faults' \in 0 .. MaxFaults
  BY Sizes DEF OtaTypeOK, Fault

\* The requests, their answers, and what may happen instead.
LEMMA RequestStep ==
    ASSUME Inv, PutOtaStatus \/ PutCmdSts
    PROVE  Inv'
<1>1. /\ a \in ClientState /\ OtaInv(a)
      /\ file' \in Files /\ otas' \in 0 .. MaxOtas /\ faults' \in 0 .. MaxFaults
      /\ UNCHANGED <<p, f, cur>>
  BY DEF Inv, OtaTypeOK, PutOtaStatus, PutCmdSts
<1>2. PICK c \in {"otaput", "stsput"} :
        /\ a' = [a EXCEPT !.conn = c, !.busy = TRUE]
        /\ c = "stsput" => a.ota.in_prog = "status"
  BY DEF PutOtaStatus, PutCmdSts
<1>3. PICK b : b = [a EXCEPT !.conn = c, !.busy = TRUE]
  OBVIOUS
<1>4. /\ b \in ClientState /\ b.ota = a.ota /\ b.conn = c
      /\ b.ota_status = a.ota_status
  <2>1. c \in {"event", "otaget", "otaput", "stsput", "retry", "down", "assert"}
    OBVIOUS
  <2>2. QED
    BY <1>1, <1>3, <2>1, ZenonT(60) DEF ClientState
<1>5. Handled(a, b) /\ ConnInv(b)
  BY <1>1, <1>2, <1>4 DEF Handled, Keeps, ConnInv, OtaInv, StatusInv
<1>6. a' = b
  BY <1>2, <1>3
<1>7. QED
  BY <1>1, <1>5, <1>6, AgentStep

LEMMA AnswerStep ==
    ASSUME Inv, RecvOtaPut \/ RecvStsPut
    PROVE  Inv'
<1>1. /\ a \in ClientState /\ OtaInv(a)
      /\ file' \in Files /\ otas' \in 0 .. MaxOtas /\ faults' \in 0 .. MaxFaults
      /\ UNCHANGED <<p, f, cur>>
  BY DEF Inv, OtaTypeOK, RecvOtaPut, RecvStsPut
<1>2. CASE RecvOtaPut
  <2>1. PICK b : b = [a EXCEPT !.ota_status = "none"]
    OBVIOUS
  <2>2. b \in ClientState /\ b.ota = a.ota /\ b.ota_status = "none"
    <3>1. "none" \in Error \cup {"none"}
      OBVIOUS
    <3>2. QED
      BY <1>1, <2>1, <3>1, ZenonT(60) DEF ClientState
  <2>3. Handled(a, b)
    BY <1>1, <2>2 DEF Handled, Keeps, OtaInv, StatusInv
  <2>4. PICK r : r = RecvDone(b)
    OBVIOUS
  <2>5. Handled(b, r) /\ ~r.busy
    BY <2>3, <2>4, RecvDoneFact DEF Handled
  <2>6. Handled(a, r) /\ ConnInv(r) /\ a' = r
    BY <1>2, <2>1, <2>3, <2>4, <2>5, HandledTrans DEF ConnInv, RecvOtaPut
  <2>7. QED
    BY <1>1, <2>6, AgentStep
<1>3. CASE RecvStsPut
  <2>1. PICK b : b = [a EXCEPT !.ota = NoOta, !.uri = FALSE]
    OBVIOUS
  <2>2. b \in ClientState /\ b.ota = NoOta
    <3>1. NoOta \in OtaState
      BY Sizes DEF NoOta, OtaState
    <3>2. QED
      BY <1>1, <2>1, <3>1, ZenonT(60) DEF ClientState
  <2>3. Handled(a, b)
    BY <2>2 DEF Handled, Keeps, OtaInv, StatusInv, NoOta
  <2>4. PICK z : (z = b \/ z = Report(b, "fatal")) /\ a' = RecvDone(z)
    BY <1>3, <2>1 DEF RecvStsPut
  <2>5. Handled(b, z)
    <3>1. "fatal" \in Reportable
      BY DEF Reportable, Error
    <3>2. OtaInv(b) /\ Handled(b, b)
      BY <2>3 DEF Handled, Keeps
    <3>3. CASE z = b
      BY <3>2, <3>3
    <3>4. CASE z = Report(b, "fatal")
      BY <2>2, <3>1, <3>2, <3>4, ReportFact
    <3>5. QED
      BY <2>4, <3>3, <3>4
  <2>6. PICK r : r = RecvDone(z)
    OBVIOUS
  <2>7. Handled(z, r) /\ ~r.busy
    BY <2>5, <2>6, RecvDoneFact DEF Handled
  <2>8. Handled(a, r) /\ ConnInv(r) /\ a' = r
    BY <2>3, <2>4, <2>5, <2>6, <2>7, HandledTrans DEF ConnInv
  <2>9. QED
    BY <1>1, <2>8, AgentStep
<1>4. QED
  BY <1>2, <1>3

LEMMA ErrorStep ==
    ASSUME Inv, Closed \/ ClosedEarly \/ BadStatus \/ ConnFails
    PROVE  Inv'
<1>1. Fault
  BY DEF Closed, ClosedEarly, BadStatus, ConnFails
<1>2. /\ a \in ClientState /\ OtaInv(a) /\ a.busy /\ ConnInv(a)
      /\ file' \in Files /\ otas' \in 0 .. MaxOtas /\ UNCHANGED <<p, f, cur>>
  BY DEF Inv, OtaTypeOK, Closed, ClosedEarly, BadStatus, ConnFails
<1>3. faults' \in 0 .. MaxFaults
  BY <1>1, FaultFact DEF Inv
<1>4. ASSUME NEW r, a' = r, Handled(a, r), ~r.busy PROVE Inv'
  BY <1>2, <1>3, <1>4, AgentStep DEF ConnInv
<1>5. CASE Closed
  <2>1. PICK r : r = [Quiet(a) EXCEPT !.conn = "event"]
    OBVIOUS
  <2>2. a' = r
    BY <1>5, <2>1 DEF Closed, NextAgain
  <2>3. Handled(a, r) /\ ~r.busy
    BY <1>2, <2>1, NextAgainFact
  <2>4. QED
    BY <1>4, <2>2, <2>3
<1>6. CASE ClosedEarly
  <2>1. PICK r : r = RecvEnd(a)
    OBVIOUS
  <2>2. a' = r /\ a.ota.in_prog = "prog"
    BY <1>2, <1>6, <2>1 DEF ClosedEarly, ConnInv
  <2>3. Handled(a, r) /\ ~r.busy
    BY <1>2, <2>1, <2>2, RecvEndFact
  <2>4. QED
    BY <1>4, <2>2, <2>3
<1>7. CASE BadStatus
  <2>1. PICK z : z = CASE a.conn = "otaget" -> Report(a, "get")
                       [] a.conn = "otaput" -> Report(a, "none")
                       [] a.conn = "stsput" -> SetStatus(a, "ok")
    OBVIOUS
  <2>2. Handled(a, z)
    <3>1. "get" \in Reportable /\ "none" \in Reportable /\ "ok" \in Result
      BY DEF Reportable, Result, Error
    <3>2. CASE a.conn = "otaget"
      <4>1. z = Report(a, "get")
        BY <2>1, <3>2
      <4>2. QED
        BY <1>2, <3>1, <4>1, ReportFact
    <3>3. CASE a.conn = "otaput"
      <4>1. z = Report(a, "none")
        BY <2>1, <3>3
      <4>2. QED
        BY <1>2, <3>1, <4>1, ReportFact
    <3>4. CASE a.conn = "stsput"
      <4>1. z = SetStatus(a, "ok")
        BY <2>1, <3>4
      <4>2. a.ota.http_status # "none" /\ StatusInv(a)
        BY <1>2, <3>4 DEF ConnInv, OtaInv, StatusInv
      <4>3. QED
        BY <1>2, <3>1, <4>1, <4>2, SetStatusFact
    <3>5. QED
      BY <1>2, <3>2, <3>3, <3>4 DEF ConnInv
  <2>3. PICK r : r = [Quiet(z) EXCEPT !.conn = "event"]
    OBVIOUS
  <2>4. a' = r
    BY <1>7, <2>1, <2>3 DEF BadStatus, NextAgain
  <2>5. z \in ClientState /\ OtaInv(z)
    BY <2>2 DEF Handled
  <2>6. Handled(z, r) /\ ~r.busy
    BY <2>3, <2>5, NextAgainFact
  <2>7. Handled(a, r)
    BY <2>2, <2>6, HandledTrans
  <2>8. QED
    BY <1>4, <2>4, <2>6, <2>7
<1>8. CASE ConnFails
  <2>1. PICK r : r = Retry(a)
    OBVIOUS
  <2>2. a' = r
    BY <1>8, <2>1 DEF ConnFails
  <2>3. Handled(a, r) /\ ~r.busy
    BY <1>2, <2>1, RetryFact
  <2>4. QED
    BY <1>4, <2>2, <2>3
<1>9. QED
  BY <1>5, <1>6, <1>7, <1>8

LEMMA LinkStep ==
    ASSUME Inv, Timeout \/ Down \/ Up
    PROVE  Inv'
<1>1. /\ a \in ClientState /\ OtaInv(a) /\ ConnInv(a)
      /\ file' \in Files /\ otas' \in 0 .. MaxOtas /\ UNCHANGED <<p, f, cur>>
  BY DEF Inv, OtaTypeOK, Timeout, Down, Up
<1>2. faults' \in 0 .. MaxFaults
  <2>1. CASE Down
    BY <2>1, FaultFact DEF Inv, Down
  <2>2. CASE Timeout \/ Up
    BY <2>2 DEF Inv, OtaTypeOK, Timeout, Up
  <2>3. QED
    BY <2>1, <2>2
<1>3. ASSUME NEW r, a' = r, Handled(a, r), ~r.busy PROVE Inv'
  BY <1>1, <1>2, <1>3, AgentStep DEF ConnInv
<1>4. "event" \in {"event", "otaget", "otaput", "stsput", "retry", "down",
                   "assert"}
  OBVIOUS
<1>5. CASE Timeout
  <2>1. PICK r : r = [a EXCEPT !.conn = "event"]
    OBVIOUS
  <2>2. a' = r /\ ~a.busy
    BY <1>1, <1>5, <2>1 DEF Timeout, ConnInv
  <2>3. /\ r \in ClientState /\ r.ota = a.ota /\ r.busy = a.busy
        /\ r.ota_status = a.ota_status
    BY <1>1, <1>4, <2>1, ZenonT(60) DEF ClientState
  <2>4. Handled(a, r)
    BY <1>1, <2>3 DEF Handled, Keeps, OtaInv, StatusInv
  <2>5. QED
    BY <1>3, <2>2, <2>3, <2>4
<1>6. CASE Down
  <2>1. PICK r : r = [Quiet(a) EXCEPT !.conn = "down"]
    OBVIOUS
  <2>2. a' = r
    BY <1>6, <2>1 DEF Down
  <2>3. Handled(a, r) /\ ~r.busy
    BY <1>1, <2>1, NextAgainFact
  <2>4. QED
    BY <1>3, <2>2, <2>3
<1>7. CASE Up
  <2>1. PICK r : r = [a EXCEPT !.conn = "event", !.retries = 0]
    OBVIOUS
  <2>2. a' = r /\ ~a.busy
    BY <1>1, <1>7, <2>1 DEF Up, ConnInv
  <2>3. /\ r \in ClientState /\ r.ota = a.ota /\ r.busy = a.busy
        /\ r.ota_status = a.ota_status
    <3>1. 0 \in 0 .. ConnRetries + 1
      BY Sizes
    <3>2. QED
      BY <1>1, <1>4, <2>1, <3>1, ZenonT(60) DEF ClientState
  <2>4. Handled(a, r)
    BY <1>1, <2>3 DEF Handled, Keeps, OtaInv, StatusInv
  <2>5. QED
    BY <1>3, <2>2, <2>3, <2>4
<1>8. QED
  BY <1>5, <1>6, <1>7

\* Nothing happens.
LEMMA StutterStep ==
    ASSUME Inv, UNCHANGED vars
    PROVE  Inv'
<1>1. Handled(a, a) /\ ConnInv(a)
  BY DEF Inv, OtaTypeOK, Handled, Keeps
<1>2. /\ file' \in Files /\ otas' \in 0 .. MaxOtas /\ faults' \in 0 .. MaxFaults
      /\ UNCHANGED <<p, f, cur>>
  BY DEF Inv, OtaTypeOK, vars
<1>3. PICK b : b = a
  OBVIOUS
<1>4. a' = b /\ Handled(a, b) /\ ConnInv(b)
  BY <1>1, <1>3 DEF vars
<1>5. QED
  BY <1>2, <1>4, AgentStep

LEMMA NextStep == Inv /\ [Next]_vars => Inv'
<1> SUFFICES ASSUME Inv, [Next]_vars PROVE Inv'
  OBVIOUS
<1>1. CASE Command
  BY <1>1, CommandStep
<1>2. CASE PutOtaStatus \/ PutCmdSts
  BY <1>2, RequestStep
<1>3. CASE Fetch
  BY <1>3, FetchStep
<1>4. CASE RecvOtaGet
  <2>1. PICK n \in Packets : Recv(n, "none")
    BY <1>4 DEF RecvOtaGet
  <2>2. faults' \in 0 .. MaxFaults
    BY <1>4 DEF Inv, OtaTypeOK, RecvOtaGet
  <2>3. QED
    BY <2>1, <2>2, RecvStep
<1>5. CASE SaveFails
  <2>1. PICK n \in Packets, fault \in {"malloc", "flash", "sign"} : Recv(n, fault)
    BY <1>5 DEF SaveFails
  <2>2. faults' \in 0 .. MaxFaults
    BY <1>5, FaultFact DEF Inv, SaveFails
  <2>3. QED
    BY <2>1, <2>2, RecvStep
<1>6. CASE RecvOtaPut \/ RecvStsPut
  BY <1>6, AnswerStep
<1>7. CASE PlugResets
  <2>1. Boot /\ faults' \in 0 .. MaxFaults
    BY <1>7 DEF Inv, OtaTypeOK, PlugResets
  <2>2. QED
    BY <2>1, BootStep
<1>8. CASE Closed \/ ClosedEarly \/ BadStatus \/ ConnFails
  BY <1>8, ErrorStep
<1>9. CASE Timeout \/ Down \/ Up
  BY <1>9, LinkStep
<1>10. CASE PowerCut
  <2>1. Boot /\ Fault
    BY <1>10 DEF PowerCut
  <2>2. faults' \in 0 .. MaxFaults
    BY <2>1, FaultFact DEF Inv
  <2>3. QED
    BY <2>1, <2>2, BootStep
<1>11. CASE UNCHANGED vars
  BY <1>11, StutterStep
<1>12. QED
  BY <1>1, <1>2, <1>3, <1>4, <1>5, <1>6, <1>7, <1>8, <1>9, <1>10, <1>11 DEF Next

-----------------------------------------------------------------------------
(* The theorems.                                                           *)

THEOREM InvHolds == Spec => []Inv
  BY InitInv, NextStep, PTL DEF Spec

\* The agent, the plug and the flash keep their types, whatever fails.
THEOREM TypeCorrect == Spec => []OtaTypeOK
<1>1. Inv => OtaTypeOK
  BY DEF Inv
<1>2. QED
  BY <1>1, InvHolds, PTL

\* The agent resumes a file where the plug's count of it is (client_ota_save,
\* demo_ota_notify), in every order of packets, errors and restarts.
THEOREM InStepHolds == Spec => []InStep
<1>1. Inv => InStep
  BY DEF Inv
<1>2. QED
  BY <1>1, InvHolds, PTL

\* A partition that is signed holds its whole image in order, whatever the
\* sizes of the packets and of the image and whatever fails: the sum of its
\* bytes suffices, for bytes that were misplaced would be too many or too few.
THEOREM SignedIsWholeHolds == Spec => []SignedIsWhole
<1>1. Inv => SignedIsWhole
  BY DEF Inv, PlugInv, PlugAt, Whole, SignedIsWhole
<1>2. QED
  BY <1>1, InvHolds, PTL

\* The plug resets only into an image that is signed: a save_done that it has
\* without one was not reported as success (client_recv_sts_put).
THEOREM ResetsIntoImageHolds == Spec => ResetsIntoImage
<1>1. Inv /\ PlugResets => f.sign # <<>>
  BY DEF Inv, DoneFails, ConnInv, PlugResets
<1>2. Inv /\ [Next]_vars => [PlugResets => f.sign # <<>>]_vars
  BY <1>1
<1>3. QED
  BY <1>2, InvHolds, PTL DEF Spec, ResetsIntoImage
=============================================================================
