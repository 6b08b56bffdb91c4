------------------------- MODULE ImageLayoutProofs -------------------------
(***************************************************************************)
(* Facts about the layout arithmetic of ImageLayout, for every size and   *)
(* every alignment unit: the offset the code reaches by writing           *)
(* PadTo(size, unit) zeros after the bootloader is the smallest multiple  *)
(* of the unit at or above the bootloader size, which is what the         *)
(* specification calls kernelOffset; and the prefix relation on image     *)
(* contents is kept by truncation.                                         *)
(***************************************************************************)
EXTENDS ImageLayout, SequenceTheorems, TLAPS

(* The property RoundUp chooses by. *)
IsRoundUp(m, n, unit) ==
    /\ m \in n..(n + unit)
    /\ m % unit = 0
    /\ \A p \in n..(m - 1) : p % unit # 0

(* Euclidean division is unique: q * u + r with 0 <= r < u leaves r. *)
LEMMA ModUnique ==
    ASSUME NEW u \in Nat \ {0}, NEW q \in Int, NEW r \in 0..(u - 1)
    PROVE  (q * u + r) % u = r
BY SMT

(* The padding the code writes brings the size to a multiple of the unit, *)
(* and adds less than one unit.                                            *)
LEMMA PadToBounds ==
    ASSUME NEW n \in Nat, NEW u \in Nat \ {0}
    PROVE  /\ PadTo(n, u) \in 0..(u - 1)
           /\ (n + PadTo(n, u)) % u = 0
           /\ \A p \in n..(n + PadTo(n, u) - 1) : p % u # 0
<1> DEFINE q == n \div u
           r == n % u
<1>1. q \in Nat /\ r \in 0..(u - 1) /\ n = q * u + r
  BY SMT
<1>2. CASE r = 0
  BY <1>1, <1>2, SMT DEF PadTo
<1>3. CASE r # 0
  <2>1. PadTo(n, u) = u - r
    BY <1>1, <1>3, SMT DEF PadTo
  <2>2. PadTo(n, u) \in 0..(u - 1)
    BY <1>1, <1>3, <2>1, SMT
  <2>3. (n + PadTo(n, u)) % u = 0
    <3>1. n + PadTo(n, u) = (q + 1) * u + 0
      BY <1>1, <2>1, SMT
    <3>2. QED
      BY <3>1, ModUnique, SMT
  <2>4. ASSUME NEW p \in n..(n + PadTo(n, u) - 1)
        PROVE  p % u # 0
    <3> DEFINE d == p - q * u
    <3>1. d \in 1..(u - 1) /\ p = q * u + d
      BY <1>1, <1>3, <2>1, SMT
    <3>2. q \in Int /\ d \in 0..(u - 1)
      BY <1>1, <3>1, SMT
    <3>3. (q * u + d) % u = d
      BY <3>2, ModUnique, Zenon
    <3>4. QED
      BY <3>1, <3>3
  <2>5. QED
    BY <2>2, <2>3, <2>4
<1>4. QED
  BY <1>2, <1>3

(* At most one number has the property RoundUp chooses by. *)
LEMMA RoundUpUnique ==
    ASSUME NEW n \in Nat, NEW u \in Nat \ {0}, NEW a, NEW b,
           IsRoundUp(a, n, u), IsRoundUp(b, n, u)
    PROVE  a = b
<1>1. a \in Int /\ b \in Int
  BY DEF IsRoundUp
<1>2. ~(a < b)
  <2> SUFFICES ASSUME a < b PROVE FALSE
    OBVIOUS
  <2>1. a \in n..(b - 1)
    BY <1>1, SMT DEF IsRoundUp
  <2>2. QED
    BY <2>1 DEF IsRoundUp
<1>3. ~(b < a)
  <2> SUFFICES ASSUME b < a PROVE FALSE
    OBVIOUS
  <2>1. b \in n..(a - 1)
    BY <1>1, SMT DEF IsRoundUp
  <2>2. QED
    BY <2>1 DEF IsRoundUp
<1>4. QED
  BY <1>1, <1>2, <1>3, SMT

(* The padded size has the property RoundUp chooses by. *)
LEMMA PaddedIsRoundUp ==
    ASSUME NEW n \in Nat, NEW u \in Nat \ {0}
    PROVE  IsRoundUp(n + PadTo(n, u), n, u)
<1>1. /\ PadTo(n, u) \in 0..(u - 1)
      /\ (n + PadTo(n, u)) % u = 0
      /\ \A p \in n..(n + PadTo(n, u) - 1) : p % u # 0
  BY PadToBounds
<1>2. QED
  BY <1>1, SMT DEF IsRoundUp

(* RoundUp picks a number with the property it is defined by. *)
LEMMA RoundUpIsRoundUp ==
    ASSUME NEW n \in Nat, NEW u \in Nat \ {0}
    PROVE  IsRoundUp(RoundUp(n, u), n, u)
<1>1. IsRoundUp(n + PadTo(n, u), n, u)
  BY PaddedIsRoundUp
<1>2. QED
  BY <1>1 DEF RoundUp, IsRoundUp

(* kernelOffset = len(bootloader) + padding_needed: the code's offset is  *)
(* the specified one.                                                      *)
THEOREM SpecOffsetIsPadded ==
    ASSUME NEW n \in Nat, NEW u \in Nat \ {0}
    PROVE  SpecOffset(n, u) = n + PadTo(n, u)
<1>1. IsRoundUp(n + PadTo(n, u), n, u)
  BY PaddedIsRoundUp
<1>2. IsRoundUp(RoundUp(n, u), n, u)
  BY RoundUpIsRoundUp
<1>3. QED
  BY <1>1, <1>2, RoundUpUnique DEF SpecOffset

(* The blobs and the padding are byte sequences. *)
LEMMA BlobType ==
    ASSUME NEW tag \in {"kernel", "bootloader"}, NEW n \in Nat
    PROVE  /\ Blob(tag, n) \in Seq(Byte)
           /\ Len(Blob(tag, n)) = n
           /\ \A j \in 1..n : Blob(tag, n)[j] = <<tag, j>>
BY SMT DEF Blob, Byte

LEMMA ZerosType ==
    ASSUME NEW n \in Nat
    PROVE  /\ Zeros(n) \in Seq(Byte)
           /\ Len(Zeros(n)) = n
           /\ \A j \in 1..n : Zeros(n)[j] = ZeroByte
BY SMT DEF Zeros, ZeroByte, Byte

(* The bootloader is at least as long as its padded offset. *)
LEMMA OffsetAtLeastBl ==
    ASSUME NEW bl \in Nat, NEW u \in Nat \ {0}
    PROVE  SpecOffset(bl, u) \in Nat /\ bl <= SpecOffset(bl, u)
<1>1. SpecOffset(bl, u) = bl + PadTo(bl, u) /\ PadTo(bl, u) \in 0..(u - 1)
  BY SpecOffsetIsPadded, PadToBounds
<1>2. QED
  BY <1>1, SMT

(* The regions of the specified image: bootloader bytes up to bl, kernel  *)
(* bytes from the offset for k bytes, zeros after the kernel.              *)
LEMMA SpecByteBootloader ==
    ASSUME NEW bl \in Nat, NEW k, NEW u, NEW i \in 1..bl
    PROVE  SpecByte(bl, k, u, i) = <<"bootloader", i>>
BY SMT DEF SpecByte

LEMMA SpecByteKernel ==
    ASSUME NEW bl \in Nat, NEW k \in Nat, NEW u \in Nat \ {0}, NEW i \in Nat,
           SpecOffset(bl, u) < i, i <= SpecOffset(bl, u) + k
    PROVE  SpecByte(bl, k, u, i) = <<"kernel", i - SpecOffset(bl, u)>>
<1>1. SpecOffset(bl, u) \in Nat /\ bl <= SpecOffset(bl, u)
  BY OffsetAtLeastBl
<1>2. ~(i <= bl)
  BY <1>1, SMT
<1>3. QED
  BY <1>2 DEF SpecByte

LEMMA SpecByteTail ==
    ASSUME NEW bl \in Nat, NEW k \in Nat, NEW u \in Nat \ {0}, NEW i \in Nat,
           SpecOffset(bl, u) + k < i
    PROVE  SpecByte(bl, k, u, i) = ZeroByte
<1>1. SpecOffset(bl, u) \in Nat /\ bl <= SpecOffset(bl, u)
  BY OffsetAtLeastBl
<1>2. ~(i <= bl) /\ ~(SpecOffset(bl, u) < i /\ i <= SpecOffset(bl, u) + k)
  BY <1>1, SMT
<1>3. QED
  BY <1>2 DEF SpecByte

(* Concatenating byte sequences adds their lengths. *)
LEMMA ConcatLen ==
    ASSUME NEW s \in Seq(Byte), NEW d \in Seq(Byte)
    PROVE  s \o d \in Seq(Byte) /\ Len(s \o d) = Len(s) + Len(d)
BY ConcatProperties

(* Appending bytes that are the image's next bytes extends a prefix. *)
LEMMA AppendPrefix ==
    ASSUME NEW s \in Seq(Byte), NEW d \in Seq(Byte), NEW bl, NEW k, NEW u,
           IsImagePrefix(s, bl, k, u),
           \A j \in 1..Len(d) : d[j] = SpecByte(bl, k, u, Len(s) + j)
    PROVE  IsImagePrefix(s \o d, bl, k, u)
<1>1. /\ Len(s \o d) = Len(s) + Len(d)
      /\ \A i \in 1..(Len(s) + Len(d)) :
            (s \o d)[i] = IF i <= Len(s) THEN s[i] ELSE d[i - Len(s)]
  BY ConcatProperties
<1> SUFFICES ASSUME NEW i \in 1..(Len(s) + Len(d))
             PROVE  (s \o d)[i] = SpecByte(bl, k, u, i)
  BY <1>1 DEF IsImagePrefix
<1>2. CASE i <= Len(s)
  BY <1>1, <1>2 DEF IsImagePrefix
<1>3. CASE ~(i <= Len(s))
  <2>1. i - Len(s) \in 1..Len(d) /\ Len(s) + (i - Len(s)) = i
    BY <1>3, SMT
  <2>2. QED
    BY <1>1, <1>3, <2>1
<1>4. QED
  BY <1>2, <1>3

(* A truncation of an image prefix is an image prefix. *)
LEMMA PrefixOfPrefix ==
    ASSUME NEW S, NEW s \in Seq(S), NEW bl, NEW k, NEW u,
           NEW n \in 0..Len(s),
           IsImagePrefix(s, bl, k, u)
    PROVE  IsImagePrefix(SubSeq(s, 1, n), bl, k, u)
BY SMT DEF IsImagePrefix

(* A content that agrees with the layout and is no longer than len is    *)
(* the first bytes of the image cut at len ...                            *)
LEMMA PrefixOfImage ==
    ASSUME NEW s \in Seq(Byte), NEW len \in Nat, NEW bl, NEW k, NEW u,
           IsImagePrefix(s, bl, k, u), Len(s) <= len
    PROVE  /\ Len(s) \in 0..Len(SpecImage(len, bl, k, u))
           /\ SubSeq(SpecImage(len, bl, k, u), 1, Len(s)) = s
<1> DEFINE T == SpecImage(len, bl, k, u)
<1>1. T \in Seq(Byte \cup {SpecByte(bl, k, u, i) : i \in 1..len})
      /\ Len(T) = len
  BY DEF SpecImage
<1>2. Len(SubSeq(T, 1, Len(s))) = Len(s)
  BY <1>1, SMT
<1>3. \A i \in 1..Len(s) : SubSeq(T, 1, Len(s))[i] = s[i]
  BY <1>1, SMT DEF IsImagePrefix, SpecImage
<1>4. SubSeq(T, 1, Len(s)) = s
  BY <1>1, <1>2, <1>3, SMT
<1>5. Len(s) \in 0..Len(T)
  BY <1>1, SMT
<1>6. QED
  BY <1>4, <1>5

(* ... and the whole of it when it has length len. *)
LEMMA WholeImage ==
    ASSUME NEW s \in Seq(Byte), NEW len \in Nat, NEW bl, NEW k, NEW u,
           IsImagePrefix(s, bl, k, u), Len(s) = len
    PROVE  s = SpecImage(len, bl, k, u)
<1>1. DOMAIN s = 1..len
  BY SMT
<1>2. \A i \in 1..len : s[i] = SpecImage(len, bl, k, u)[i]
  BY DEF IsImagePrefix, SpecImage
<1>3. QED
  BY <1>1, <1>2 DEF SpecImage
=============================================================================
