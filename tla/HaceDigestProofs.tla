-------------------------- MODULE HaceDigestProofs --------------------------
(***************************************************************************)
(* Proofs about HaceDigest: types, the stream that the engine is fed, and  *)
(* the digest of the owned interface, for every block size, buffer, word   *)
(* width and set of input lengths.                                         *)
(***************************************************************************)
EXTENDS HaceDigest, SequenceTheorems, TLAPS

(* The invariant. A digest uses the scatter list, and less than a block is *)
(* held back; with the owned interface as much as is left of the message,  *)
(* whose length is what digcnt counts.                                     *)
Hashing == pc = "open" /\ api # "mac"

CountOK == Hashing => use_sg /\ bufcnt < block_size

LengthOK ==
  (pc = "open" /\ api = "owned") =>
    /\ bufcnt = Len(msg) % block_size
    /\ digcnt[1] = Len(msg) % Modulus /\ digcnt[2] = Len(msg) \div Modulus

Inv ==
  /\ TypeOK /\ CountOK /\ LengthOK /\ StreamIntact
  /\ OwnedDigest /\ OnlyLongMacsPanic

-----------------------------------------------------------------------------
(* Division.                                                               *)

(* Quotient and remainder are what they should be.                         *)
LEMMA DivMod ==
  ASSUME NEW a \in Nat, NEW b \in Nat \ {0}
  PROVE  /\ a \div b \in Nat /\ a % b \in 0 .. b - 1
         /\ a = b * (a \div b) + (a % b)
OBVIOUS

(* and there are no others.                                                *)
LEMMA DivUnique ==
  ASSUME NEW b \in Nat \ {0}, NEW q \in Nat, NEW r \in 0 .. b - 1
  PROVE  (b * q + r) \div b = q /\ (b * q + r) % b = r
OBVIOUS

(* The remainder of a sum.                                                 *)
LEMMA ModOfSum ==
  ASSUME NEW b \in Nat \ {0}, NEW l \in Nat, NEW n \in Nat
  PROVE  /\ (l + n) % b = ((l % b) + n) % b
         /\ (l % b) + n < b => (l + n) % b = (l % b) + n
<1> DEFINE q == l \div b
           c == l % b
           t == (c + n) \div b
           r == (c + n) % b
<1>1. q \in Nat /\ c \in 0 .. b - 1 /\ l = b * q + c
  BY DivMod
<1> HIDE DEF q, c
<1>2. t \in Nat /\ r \in 0 .. b - 1 /\ c + n = b * t + r
  <2>1. c + n \in Nat
    BY <1>1
  <2> QED
    BY <2>1, DivMod
<1>3. ASSUME c + n < b PROVE r = c + n
  <2>1. c + n \in 0 .. b - 1 /\ b * 0 + (c + n) = c + n
    BY <1>1, <1>3
  <2> QED
    BY <2>1, DivUnique
<1> HIDE DEF t, r
<1>4. l + n = b * (q + t) + r
  BY <1>1, <1>2
<1>5. (l + n) % b = r
  <2>1. q + t \in Nat
    BY <1>1, <1>2
  <2>2. (b * (q + t) + r) % b = r
    BY <1>2, <2>1, DivUnique
  <2> QED
    BY <1>4, <2>2
<1> QED
  BY <1>3, <1>5 DEF c, r

-----------------------------------------------------------------------------
(* Constants, cells and pieces of the buffer.                              *)

(* Blocks are longer than the length field and the one before it, and two  *)
(* of them fit the buffer.                                                 *)
LEMMA BlockFacts ==
  ASSUME TypeOK
  PROVE  /\ block_size \in Nat /\ LenCells \in 1 .. 2
         /\ LenCells + DigestSize < block_size
         /\ 2 * block_size <= BufSize
         /\ block_size + DigestSize < Modulus
BY HaceAssumption DEF TypeOK, Algo, block_size, LenCells

LEMMA Positive ==
  ASSUME TypeOK
  PROVE  block_size \in Nat \ {0} /\ Modulus \in Nat \ {0}
<1>1. LenCells \in Nat /\ DigestSize \in Nat
  BY BlockFacts, HaceAssumption
<1> QED
  BY <1>1, BlockFacts, HaceAssumption

LEMMA NamedCell ==
  ASSUME NEW t \in {"msg", "zero", "one", "len", "iv", "ipad", "opad", "inner",
                    "stray"}
  PROVE  Named(t) \in Cell
BY DEF Named, Cell

LEMMA ZeroCell == Zero \in Cell
BY NamedCell DEF Zero

LEMMA LenCellCell ==
  ASSUME NEW w \in Nat
  PROVE  LenCell(w) \in Cell
BY DEF LenCell, Cell

LEMMA ConcatCells ==
  ASSUME NEW s \in Seq(Cell), NEW t \in Seq(Cell)
  PROVE  /\ s \o t \in Seq(Cell) /\ Len(s \o t) = Len(s) + Len(t)
         /\ \A i \in 1 .. Len(s) + Len(t) : (s \o t)[i] =
               IF i <= Len(s) THEN s[i] ELSE t[i - Len(s)]
BY ConcatProperties

LEMMA Associate ==
  ASSUME NEW s \in Seq(Cell), NEW t \in Seq(Cell), NEW u \in Seq(Cell)
  PROVE  (s \o t) \o u = s \o (t \o u)
BY ConcatAssociative

LEMMA SplitInput ==
  ASSUME NEW s \in Seq(Cell), NEW k \in 0 .. Len(s)
  PROVE  /\ SubSeq(s, 1, k) \in Seq(Cell) /\ Len(SubSeq(s, 1, k)) = k
         /\ SubSeq(s, k + 1, Len(s)) \in Seq(Cell)
         /\ Len(SubSeq(s, k + 1, Len(s))) = Len(s) - k
         /\ SubSeq(s, 1, k) \o SubSeq(s, k + 1, Len(s)) = s
<1>1. Len(s) \in Nat /\ k \in Int /\ k + 1 \in Int
  BY LenProperties
<1>2. \A i \in 1 .. Len(s) : s[i] \in Cell
  BY ElementOfSeq
<1>3. SubSeq(s, 1, k) \in Seq(Cell) /\ Len(SubSeq(s, 1, k)) = k
  BY <1>1, <1>2, SubSeqProperties
<1>4. /\ SubSeq(s, k + 1, Len(s)) \in Seq(Cell)
      /\ Len(SubSeq(s, k + 1, Len(s))) = Len(s) - k
  BY <1>1, <1>2, SubSeqProperties
<1>5. SubSeq(s, 1, k) \o SubSeq(s, k + 1, Len(s)) = SubSeq(s, 1, Len(s))
  <2>1. /\ 1 \in 1 .. Len(s) + 1 /\ k \in 1 - 1 .. Len(s)
        /\ Len(s) \in k .. Len(s)
    BY <1>1
  <2> QED
    BY <2>1, ConcatAdjacentSubSeq, Zenon
<1> QED
  BY <1>3, <1>4, <1>5, SubSeqFull

LEMMA FillFacts ==
  ASSUME NEW c \in Cell, NEW n \in Nat
  PROVE  /\ Fill(c, n) \in Seq(Cell) /\ Len(Fill(c, n)) = n
BY DEF Fill

LEMMA HeldFacts ==
  ASSUME NEW b \in [0 .. BufSize - 1 -> Cell], NEW n \in 0 .. BufSize
  PROVE  /\ Held(b, n) \in Seq(Cell) /\ Len(Held(b, n)) = n
         /\ \A i \in 1 .. n : Held(b, n)[i] = b[i - 1]
BY HaceAssumption DEF Held

LEMMA StoredFacts ==
  ASSUME NEW b \in [0 .. BufSize - 1 -> Cell], NEW k \in Nat, NEW s \in Seq(Cell)
  PROVE  /\ Stored(b, k, s) \in [0 .. BufSize - 1 -> Cell]
         /\ \A i \in 0 .. BufSize - 1 :
              Stored(b, k, s)[i] = IF k <= i /\ i < k + Len(s) THEN s[i - k + 1] ELSE b[i]
BY HaceAssumption DEF Stored

(* What was stored behind the cells held before is held behind them.       *)
LEMMA HeldStored ==
  ASSUME NEW b \in [0 .. BufSize - 1 -> Cell], NEW k \in Nat, NEW s \in Seq(Cell),
         k + Len(s) <= BufSize
  PROVE  Held(Stored(b, k, s), k + Len(s)) = Held(b, k) \o s
<1> DEFINE n == k + Len(s)
<1>1. /\ n \in 0 .. BufSize /\ k \in 0 .. BufSize /\ Len(s) \in Nat
      /\ BufSize \in Nat /\ n \in Nat
  BY HaceAssumption, LenProperties
<1>2. /\ Held(Stored(b, k, s), n) \in Seq(Cell) /\ Len(Held(Stored(b, k, s), n)) = n
      /\ \A i \in 1 .. n : Held(Stored(b, k, s), n)[i] = Stored(b, k, s)[i - 1]
  BY <1>1, StoredFacts, HeldFacts
<1>3. /\ Held(b, k) \in Seq(Cell) /\ Len(Held(b, k)) = k
      /\ \A i \in 1 .. k : Held(b, k)[i] = b[i - 1]
  BY <1>1, HeldFacts
<1>4. /\ Held(b, k) \o s \in Seq(Cell) /\ Len(Held(b, k) \o s) = n
      /\ \A i \in 1 .. n : (Held(b, k) \o s)[i] =
            IF i <= k THEN Held(b, k)[i] ELSE s[i - k]
  <2>1. \A t \in Seq(Cell) : Len(t) = k =>
          /\ t \o s \in Seq(Cell) /\ Len(t \o s) = k + Len(s)
          /\ \A i \in 1 .. k + Len(s) : (t \o s)[i] = IF i <= k THEN t[i] ELSE s[i - k]
    BY ConcatCells
  <2> QED
    BY <1>3, <2>1
<1>5. ASSUME NEW i \in 1 .. n
      PROVE  Held(Stored(b, k, s), n)[i] = (Held(b, k) \o s)[i]
  <2>1. Held(Stored(b, k, s), n)[i] = Stored(b, k, s)[i - 1]
    BY <1>2
  <2>2. i - 1 \in 0 .. BufSize - 1
    BY <1>1
  <2>3. Stored(b, k, s)[i - 1] =
          IF k <= i - 1 /\ i - 1 < k + Len(s) THEN s[(i - 1) - k + 1] ELSE b[i - 1]
    BY <2>2, StoredFacts
  <2>4. CASE i <= k
    BY <2>1, <2>3, <2>4, <1>1, <1>3, <1>4
  <2>5. CASE i > k
    <3>1. (i - 1) - k + 1 = i - k
      BY <1>1
    <3> QED
      BY <2>1, <2>3, <2>5, <3>1, <1>1, <1>4
  <2>6. i <= k \/ i > k
    BY <1>1
  <2> QED
    BY <2>4, <2>5, <2>6
<1> QED
  BY <1>2, <1>4, <1>5, SeqEqual

LEMMA StoredAtStart ==
  ASSUME NEW b \in [0 .. BufSize - 1 -> Cell], NEW s \in Seq(Cell), Len(s) <= BufSize
  PROVE  Held(Stored(b, 0, s), Len(s)) = s
<1> DEFINE z == 0
<1>1. z \in Nat /\ z + Len(s) = Len(s) /\ z + Len(s) <= BufSize
  BY LenProperties
<1>2. Held(b, z) = << >>
  BY DEF Held
<1>3. << >> \o s = s
  BY ConcatEmptySeq
<1> HIDE DEF z
<1>4. Held(Stored(b, z, s), z + Len(s)) = Held(b, z) \o s
  BY <1>1, HeldStored
<1>5. Held(Stored(b, z, s), Len(s)) = s
  BY <1>1, <1>2, <1>3, <1>4
<1> QED
  BY <1>5 DEF z

(* The message grows by cells.                                             *)
LEMMA InputFacts ==
  ASSUME TypeOK, NEW n \in Lens
  PROVE  /\ n \in 0 .. Modulus - 1
         /\ Input(n) \in Seq(Cell) /\ Len(Input(n)) = n
<1>1. n \in 0 .. Modulus - 1 /\ n \in Nat
  BY HaceAssumption
<1>2. op \in Nat /\ Len(msg) \in Nat
  BY HaceAssumption DEF TypeOK
<1>3. \A i \in 1 .. n : [tag |-> "msg", op |-> op, n |-> Len(msg) + i] \in Cell
  BY <1>2 DEF Cell
<1> QED
  BY <1>1, <1>3 DEF Input

(* fill_padding ends on a block boundary.                                  *)
LEMMA PadLenFacts ==
  ASSUME TypeOK, NEW c \in Nat
  PROVE  /\ PadLen(c) \in 1 .. block_size
         /\ c < block_size => c + PadLen(c) + LenCells <= 2 * block_size
<1>1. /\ block_size \in Nat /\ LenCells \in 1 .. 2 /\ LenCells < block_size
  BY BlockFacts, HaceAssumption
<1>2. c % block_size \in 0 .. block_size - 1
  BY <1>1, DivMod
<1>3. c < block_size => c % block_size = c
  <2>1. SUFFICES ASSUME c < block_size PROVE c % block_size = c
    OBVIOUS
  <2>2. block_size * 0 + c = c
    BY <1>1
  <2> QED
    BY <1>1, <2>1, <2>2, DivUnique
<1> QED
  BY <1>1, <1>2, <1>3 DEF PadLen

LEMMA PaddingFacts ==
  ASSUME TypeOK, NEW c \in Nat, NEW dig, dig[1] \in Nat, dig[2] \in Nat
  PROVE  /\ Padding(c, dig) \in Seq(Cell)
         /\ Len(Padding(c, dig)) = PadLen(c) + LenCells
         /\ PaddedCount(c) \in Nat
         /\ PaddedCount(c) = c + Len(Padding(c, dig))
<1> DEFINE w1 == (dig[1] * 8) % Modulus
           w2 == ((dig[2] * 8) % Modulus) + dig[1] \div (Modulus \div 8)
           body == <<Named("one")>> \o Fill(Zero, PadLen(c) - 1)
           tail == IF algo = "small" THEN <<LenCell(w1)>>
                   ELSE <<LenCell(w2), LenCell(w1)>>
<1>1. PadLen(c) \in Nat /\ PadLen(c) - 1 \in Nat
  BY PadLenFacts, BlockFacts
<1>2. body \in Seq(Cell) /\ Len(body) = PadLen(c)
  <2>1. <<Named("one")>> \in Seq(Cell) /\ Len(<<Named("one")>>) = 1
    BY NamedCell
  <2>2. Fill(Zero, PadLen(c) - 1) \in Seq(Cell) /\ Len(Fill(Zero, PadLen(c) - 1)) = PadLen(c) - 1
    BY <1>1, ZeroCell, FillFacts
  <2>3. /\ <<Named("one")>> \o Fill(Zero, PadLen(c) - 1) \in Seq(Cell)
        /\ Len(<<Named("one")>> \o Fill(Zero, PadLen(c) - 1)) = 1 + (PadLen(c) - 1)
    BY <2>1, <2>2, ConcatCells
  <2> QED
    BY <2>3, <1>1
<1>3. w1 \in Nat /\ w2 \in Nat
  <2>1. Modulus \in Nat \ {0} /\ Modulus \div 8 \in Nat \ {0}
    BY HaceAssumption, DivMod
  <2>2. w1 \in Nat
    BY <2>1, DivMod
  <2>3. (dig[2] * 8) % Modulus \in Nat
    BY <2>1, DivMod
  <2>4. dig[1] \div (Modulus \div 8) \in Nat
    BY <2>1, DivMod
  <2> QED
    BY <2>2, <2>3, <2>4
<1>4. tail \in Seq(Cell) /\ Len(tail) = LenCells
  BY <1>3, LenCellCell DEF LenCells
<1>5. Padding(c, dig) = body \o tail
  BY DEF Padding
<1> HIDE DEF body, tail
<1>7. body \o tail \in Seq(Cell) /\ Len(body \o tail) = Len(body) + Len(tail)
  BY <1>2, <1>4, ConcatCells
<1>8. LenCells \in Nat
  BY BlockFacts
<1>9. PaddedCount(c) = c + (PadLen(c) + LenCells) /\ PaddedCount(c) \in Nat
  BY <1>1, <1>8 DEF PaddedCount
<1> QED
  BY <1>2, <1>4, <1>5, <1>7, <1>9

-----------------------------------------------------------------------------
(* The engine.                                                             *)

(* From the buffer it takes what was held there.                           *)
LEMMA FetchedHeld ==
  ASSUME NEW b \in [0 .. BufSize - 1 -> Cell], NEW len \in 0 .. BufSize,
         NEW input, NEW list
  PROVE  Fetched(FALSE, b, input, list, len) = Held(b, len)
<1>1. Held(b, len) \in Seq(Cell) /\ Len(Held(b, len)) = len
  BY HeldFacts
<1>2. SubSeq(Held(b, len), 1, len) = Held(b, len)
  BY <1>1, SubSeqFull
<1> QED
  BY <1>1, <1>2 DEF Fetched

(* From a list whose first entry is the last, and in the buffer, too.      *)
LEMMA FetchedLast ==
  ASSUME NEW b \in [0 .. BufSize - 1 -> Cell], NEW len \in 0 .. BufSize,
         NEW input, NEW list, list[1] = [src |-> "buffer", len |-> len, last |-> TRUE]
  PROVE  Fetched(TRUE, b, input, list, len) = Held(b, len)
<1>1. Held(b, len) \in Seq(Cell) /\ Len(Held(b, len)) = len
  BY HeldFacts
<1>2. SubSeq(Held(b, len), 1, len) = Held(b, len)
  BY <1>1, SubSeqFull
<1>3. Gathered(b, input, list) = Held(b, len)
  BY DEF Gathered, Source
<1> QED
  BY <1>1, <1>2, <1>3 DEF Fetched

(* The bytes of an update that completes a block: first those held back,   *)
(* then those of the input, as many as make whole blocks.                  *)
LEMMA FetchedUpdate ==
  ASSUME TypeOK, CountOK, Hashing, NEW input \in Seq(Cell),
         NEW total \in Nat, bufcnt < total, total - bufcnt <= Len(input)
  PROVE  /\ UpdateSg(total) \in [1 .. 2 -> SgEntry]
         /\ Fetched(TRUE, buffer, input, UpdateSg(total), total)
              = Held(buffer, bufcnt) \o SubSeq(input, 1, total - bufcnt)
<1> DEFINE k == total - bufcnt
           list == UpdateSg(total)
<1>1. /\ bufcnt \in 0 .. BufSize /\ bufcnt \in Nat /\ k \in Nat /\ k \in 1 .. Len(input)
      /\ buffer \in [0 .. BufSize - 1 -> Cell] /\ sg \in [1 .. 2 -> SgEntry]
      /\ bufcnt + k = total /\ Len(input) \in Nat
  BY HaceAssumption, LenProperties DEF TypeOK
<1>2. /\ Held(buffer, bufcnt) \in Seq(Cell) /\ Len(Held(buffer, bufcnt)) = bufcnt
      /\ SubSeq(input, 1, k) \in Seq(Cell) /\ Len(SubSeq(input, 1, k)) = k
  BY <1>1, HeldFacts, SubSeqProperties
<1> DEFINE bytes == Held(buffer, bufcnt) \o SubSeq(input, 1, k)
<1>3. bytes \in Seq(Cell) /\ Len(bytes) = total
  BY <1>1, <1>2, ConcatCells
<1>4. list \in [1 .. 2 -> SgEntry] /\ Gathered(buffer, input, list) = bytes
  <2>1. CASE bufcnt = 0
    <3>1. /\ list = [sg EXCEPT ![1] = [src |-> "input", len |-> total, last |-> TRUE]]
          /\ k = total
      BY <2>1, <1>1 DEF UpdateSg
    <3>2. [src |-> "input", len |-> total, last |-> TRUE] \in SgEntry
      BY DEF SgEntry
    <3>3. list \in [1 .. 2 -> SgEntry]
      BY <3>1, <3>2, <1>1
    <3>4. list[1] = [src |-> "input", len |-> total, last |-> TRUE]
      BY <3>1, <1>1
    <3>5. Gathered(buffer, input, list) = SubSeq(input, 1, k)
      BY <3>1, <3>4, <1>1 DEF Gathered, Source
    <3>6. Held(buffer, bufcnt) = << >>
      BY <2>1, <1>2, EmptySeq
    <3> QED
      BY <3>3, <3>5, <3>6, <1>2, ConcatEmptySeq
  <2>2. CASE bufcnt # 0
    <3>1. list = <<[src |-> "buffer", len |-> bufcnt, last |-> FALSE],
                   [src |-> "input", len |-> k, last |-> TRUE]>>
      BY <2>2 DEF UpdateSg
    <3>2. list \in [1 .. 2 -> SgEntry]
      <4>1. /\ [src |-> "buffer", len |-> bufcnt, last |-> FALSE] \in SgEntry
            /\ [src |-> "input", len |-> k, last |-> TRUE] \in SgEntry
        BY <1>1 DEF SgEntry
      <4>2. \A e, f \in SgEntry : <<e, f>> \in [1 .. 2 -> SgEntry]
        OBVIOUS
      <4> QED
        BY <3>1, <4>1, <4>2
    <3>5. ~ list[1].last
      BY <3>1
    <3>3. Source(buffer, input, list[1]) = Held(buffer, bufcnt)
      BY <3>1 DEF Source
    <3>4. Source(buffer, input, list[2]) = SubSeq(input, 1, k)
      BY <3>1, <1>1 DEF Source
    <3> QED
      BY <3>2, <3>3, <3>4, <3>5 DEF Gathered
  <2> QED
    BY <2>1, <2>2
<1>5. SubSeq(bytes, 1, total) = bytes
  BY <1>3, SubSeqFull
<1> HIDE DEF bytes, list
<1>6. Fetched(TRUE, buffer, input, list, total) = bytes
  BY <1>3, <1>4, <1>5 DEF Fetched
<1> QED
  BY <1>4, <1>6 DEF bytes, list

-----------------------------------------------------------------------------
(* The padding of the code is that of the definition.                      *)

(* fill_padding adds the fewest zeros that make whole blocks.              *)
LEMMA PadLenIsLeast ==
  ASSUME TypeOK, NEW m \in Nat
  PROVE  PadLen(m % block_size) - 1
           = (block_size - ((m + 1 + LenCells) % block_size)) % block_size
<1> DEFINE b == block_size
           c == m % b
           q == m \div b
           L == LenCells
<1>1. /\ b \in Nat \ {0} /\ L \in 1 .. 2 /\ L < b
  BY BlockFacts, HaceAssumption
<1>2. q \in Nat /\ c \in 0 .. b - 1 /\ m = b * q + c
  BY <1>1, DivMod
<1> HIDE DEF b, c, q, L
<1>3. c % b = c
  <2>1. b * 0 + c = c
    BY <1>1, <1>2
  <2> QED
    BY <1>1, <1>2, <2>1, DivUnique
<1>4. CASE c + 1 + L < b
  <2>1. m + 1 + L = b * q + (c + 1 + L)
    BY <1>1, <1>2
  <2>2. (m + 1 + L) % b = c + 1 + L
    BY <1>1, <1>2, <1>4, <2>1, DivUnique, SMTT(30)
  <2>3. b - (c + 1 + L) \in 0 .. b - 1 /\ b * 0 + (b - (c + 1 + L)) = b - (c + 1 + L)
    BY <1>1, <1>2, <1>4
  <2>4. (b - (c + 1 + L)) % b = b - (c + 1 + L)
    BY <1>1, <2>3, DivUnique
  <2>5. PadLen(c) = b - L - c
    BY <1>1, <1>2, <1>3, <1>4 DEF PadLen, b, L
  <2>6. PadLen(c) - 1 = b - (c + 1 + L)
    BY <1>1, <1>2, <2>5
  <2> QED
    BY <2>2, <2>4, <2>6 DEF b, c, L
<1>5. CASE c + 1 + L = b
  <2>1. m + 1 + L = b * (q + 1) + 0
    BY <1>1, <1>2, <1>5
  <2>2. (m + 1 + L) % b = 0
    BY <1>1, <1>2, <2>1, DivUnique
  <2>3. b - 0 = b * 1 + 0
    BY <1>1
  <2>4. (b - 0) % b = 0
    BY <1>1, <2>3, DivUnique
  <2>5. PadLen(c) = 1
    BY <1>1, <1>2, <1>3, <1>5 DEF PadLen, b, L
  <2> QED
    BY <2>2, <2>4, <2>5 DEF b, c, L
<1>6. CASE c + 1 + L > b
  <2>1. c + 1 + L - b \in 0 .. b - 1
    BY <1>1, <1>2, <1>6
  <2>2. m + 1 + L = b * (q + 1) + (c + 1 + L - b)
    BY <1>1, <1>2
  <2>3. (m + 1 + L) % b = c + 1 + L - b
    BY <1>1, <1>2, <2>1, <2>2, DivUnique
  <2>4. /\ b - (c + 1 + L - b) \in 0 .. b - 1
        /\ b * 0 + (b - (c + 1 + L - b)) = b - (c + 1 + L - b)
    BY <1>1, <1>2, <1>6
  <2>5. (b - (c + 1 + L - b)) % b = b - (c + 1 + L - b)
    BY <1>1, <2>4, DivUnique
  <2>6. PadLen(c) = b + (b - L) - c
    BY <1>1, <1>2, <1>3, <1>6 DEF PadLen, b, L
  <2>7. PadLen(c) - 1 = b - (c + 1 + L - b)
    BY <1>1, <1>2, <2>6
  <2> QED
    BY <2>3, <2>5, <2>7 DEF b, c, L
<1> QED
  BY <1>1, <1>2, <1>4, <1>5, <1>6

(* Shifting the words of digcnt by three, with the bits carried over, is   *)
(* the length in bits.                                                     *)
LEMMA LengthInBits ==
  ASSUME NEW m \in Nat
  PROVE  /\ ((m % Modulus) * 8) % Modulus = (8 * m) % Modulus
         /\ (((m \div Modulus) * 8) % Modulus) + ((m % Modulus) \div (Modulus \div 8))
              = ((8 * m) \div Modulus) % Modulus
<1> DEFINE M == Modulus
           K == M \div 8
           h == m \div M
           l == m % M
           c == l \div K
           d == l % K
           e == h \div K
           f == h % K
<1>1. M \in Nat \ {0} /\ K \in Nat \ {0} /\ M = 8 * K
  <2>1. M \in Nat \ {0} /\ M % 8 = 0
    BY HaceAssumption
  <2>2. K \in Nat /\ M = 8 * K + (M % 8)
    BY <2>1, DivMod
  <2> QED
    BY <2>1, <2>2
<1>2. h \in Nat /\ l \in 0 .. M - 1 /\ m = M * h + l
  BY <1>1, DivMod
<1> HIDE DEF M, K, h, l
<1>3. c \in Nat /\ d \in 0 .. K - 1 /\ l = K * c + d
  <2>1. l \in Nat
    BY <1>2
  <2> QED
    BY <1>1, <2>1, DivMod
<1>4. e \in Nat /\ f \in 0 .. K - 1 /\ h = K * e + f
  BY <1>1, <1>2, DivMod
<1> HIDE DEF c, d, e, f
<1>5. c < 8
  <2>1. SUFFICES ASSUME c >= 8 PROVE FALSE
    BY <1>3
  <2>2. K * c >= K * 8
    BY <1>1, <1>3, <2>1
  <2> QED
    BY <1>1, <1>2, <1>3, <2>2
<1>6. 8 * d \in 0 .. M - 1 /\ 8 * f + c \in 0 .. M - 1 /\ 8 * f \in 0 .. M - 1
  BY <1>1, <1>3, <1>4, <1>5
<1>7. l * 8 = M * c + 8 * d
  BY <1>1, <1>3
<1>8. (l * 8) % M = 8 * d
  <2>1. (M * c + 8 * d) % M = 8 * d
    BY <1>1, <1>3, <1>6, DivUnique
  <2> QED
    BY <1>7, <2>1
<1>9. 8 * m = M * (8 * h + c) + 8 * d
  <2>1. 8 * m = 8 * (M * h) + l * 8
    BY <1>1, <1>2
  <2>2. M * (8 * h + c) = 8 * (M * h) + M * c
    BY <1>1, <1>2, <1>3
  <2> QED
    BY <1>1, <1>2, <1>3, <1>7, <2>1, <2>2
<1>10. 8 * h + c \in Nat
  BY <1>2, <1>3
<1>11. (8 * m) % M = 8 * d /\ (8 * m) \div M = 8 * h + c
  <2>1. /\ (M * (8 * h + c) + 8 * d) % M = 8 * d
        /\ (M * (8 * h + c) + 8 * d) \div M = 8 * h + c
    BY <1>1, <1>6, <1>10, DivUnique
  <2> QED
    BY <1>9, <2>1
<1>12. h * 8 = M * e + 8 * f /\ 8 * h + c = M * e + (8 * f + c)
  BY <1>1, <1>3, <1>4
<1>13. (h * 8) % M = 8 * f /\ (8 * h + c) % M = 8 * f + c
  <2>1. (M * e + 8 * f) % M = 8 * f
    BY <1>1, <1>4, <1>6, DivUnique
  <2>2. (M * e + (8 * f + c)) % M = 8 * f + c
    BY <1>1, <1>4, <1>6, DivUnique
  <2> QED
    BY <1>12, <2>1, <2>2
<1>14. /\ (l * 8) % M = (8 * m) % M
       /\ ((h * 8) % M) + c = ((8 * m) \div M) % M
  BY <1>8, <1>11, <1>13
<1> QED
  BY <1>14 DEF M, K, h, l, c

(* So the padding computed from the held count and the words of digcnt is  *)
(* that of the message.                                                    *)
LEMMA PaddingIsPadded ==
  ASSUME TypeOK, NEW m \in Seq(Cell), NEW dig,
         dig[1] = Len(m) % Modulus, dig[2] = Len(m) \div Modulus
  PROVE  m \o Padding(Len(m) % block_size, dig) = Padded(m)
<1> DEFINE c == Len(m) % block_size
           w1 == (dig[1] * 8) % Modulus
           w2 == ((dig[2] * 8) % Modulus) + dig[1] \div (Modulus \div 8)
           one == <<Named("one")>>
           zeros == Fill(Zero, PadLen(c) - 1)
           tail == IF algo = "small" THEN <<LenCell(w1)>>
                   ELSE <<LenCell(w2), LenCell(w1)>>
<1>1. Len(m) \in Nat
  BY LenProperties
<1>2. /\ block_size \in Nat \ {0} /\ Modulus \in Nat \ {0} /\ Modulus \div 8 \in Nat \ {0}
  <2>1. block_size \in Nat \ {0}
    BY Positive
  <2>2. Modulus \in Nat \ {0} /\ Modulus % 8 = 0
    BY Positive, HaceAssumption
  <2>3. Modulus \div 8 \in Nat /\ Modulus = 8 * (Modulus \div 8) + (Modulus % 8)
    BY <2>2, DivMod
  <2> QED
    BY <2>1, <2>2, <2>3
<1>3. c \in Nat /\ dig[1] \in Nat /\ dig[2] \in Nat
  <2>1. Len(m) % block_size \in Nat
    BY <1>1, <1>2, DivMod
  <2>2. (Len(m) \div Modulus) \in Nat /\ (Len(m) % Modulus) \in 0 .. Modulus - 1
    BY <1>1, <1>2, DivMod
  <2>3. (Len(m) % Modulus) \in Nat
    BY <1>2, <2>2
  <2> QED
    BY <2>1, <2>2, <2>3
<1> HIDE DEF c
<1>4. PadLen(c) - 1 \in Nat
  <2>1. PadLen(c) \in 1 .. block_size
    BY <1>3, PadLenFacts
  <2> QED
    BY <1>2, <2>1
<1>5. w1 = (8 * Len(m)) % Modulus /\ w2 = ((8 * Len(m)) \div Modulus) % Modulus
  BY <1>1, LengthInBits
<1>6. w1 \in Nat /\ w2 \in Nat
  <2>1. 8 * Len(m) \in Nat
    BY <1>1
  <2>2. (8 * Len(m)) \div Modulus \in Nat
    BY <1>2, <2>1, DivMod
  <2>3. /\ (8 * Len(m)) % Modulus \in Nat
        /\ ((8 * Len(m)) \div Modulus) % Modulus \in Nat
    BY <1>2, <2>1, <2>2, DivMod
  <2> QED
    BY <1>5, <2>3
<1>7. PadLen(c) - 1
        = (block_size - ((Len(m) + 1 + LenCells) % block_size)) % block_size
  BY <1>1, PadLenIsLeast DEF c
<1>8. Padded(m) = ((m \o one) \o zeros) \o tail
  BY <1>5, <1>7 DEF Padded, c
<1>9. Padding(c, dig) = (one \o zeros) \o tail
  BY DEF Padding
<1>10. one \in Seq(Cell) /\ zeros \in Seq(Cell) /\ tail \in Seq(Cell)
  BY <1>4, <1>6, NamedCell, ZeroCell, FillFacts, LenCellCell
<1> HIDE DEF one, zeros, tail
<1>11. (m \o one) \o zeros = m \o (one \o zeros)
  BY <1>10, ConcatAssociative, SMTT(30)
<1>12. one \o zeros \in Seq(Cell)
  BY <1>10, ConcatCells
<1>13. (m \o (one \o zeros)) \o tail = m \o ((one \o zeros) \o tail)
  <2> DEFINE oz == one \o zeros
  <2>1. oz \in Seq(Cell)
    BY <1>12
  <2> HIDE DEF oz
  <2>2. (m \o oz) \o tail = m \o (oz \o tail)
    BY <1>10, <2>1, Associate, ZenonT(40)
  <2> QED
    BY <2>2 DEF oz
<1> QED
  BY <1>8, <1>9, <1>11, <1>13 DEF c

-----------------------------------------------------------------------------
(* The arithmetic of an update.                                            *)

(* digcnt counts the message, in two words.                                *)
LEMMA CountedFacts ==
  ASSUME TypeOK, NEW n \in 0 .. Modulus - 1
  PROVE  /\ Counted(n)[1] \in 0 .. Modulus - 1 /\ Counted(n)[2] \in Nat
         /\ \A l \in Nat :
              digcnt[1] = (l % Modulus) /\ digcnt[2] = (l \div Modulus) =>
                /\ Counted(n)[1] = ((l + n) % Modulus)
                /\ Counted(n)[2] = ((l + n) \div Modulus)
<1>1. /\ Modulus \in Nat \ {0}
      /\ digcnt[1] \in 0 .. Modulus - 1 /\ digcnt[2] \in Nat
  BY Positive DEF TypeOK
<1> DEFINE sum == digcnt[1] + n
<1>2. CASE sum >= Modulus
  <2>1. sum - Modulus \in 0 .. Modulus - 1 /\ sum = Modulus * 1 + (sum - Modulus)
    BY <1>1, <1>2
  <2>2. sum % Modulus = sum - Modulus
    <3>1. (Modulus * 1 + (sum - Modulus)) % Modulus = sum - Modulus
      BY <1>1, <2>1, DivUnique
    <3> QED
      BY <2>1, <3>1
  <2>3. Counted(n)[1] = sum - Modulus /\ Counted(n)[2] = digcnt[2] + 1
    BY <1>2, <2>2 DEF Counted
  <2>4. ASSUME NEW l \in Nat, digcnt[1] = (l % Modulus), digcnt[2] = (l \div Modulus)
        PROVE  /\ sum - Modulus = ((l + n) % Modulus)
               /\ digcnt[2] + 1 = ((l + n) \div Modulus)
    <3>1. l = Modulus * digcnt[2] + digcnt[1]
      BY <1>1, <2>4, DivMod
    <3>2. l + n = Modulus * (digcnt[2] + 1) + (sum - Modulus)
      BY <1>1, <3>1
    <3>3. digcnt[2] + 1 \in Nat
      BY <1>1
    <3>4. /\ (Modulus * (digcnt[2] + 1) + (sum - Modulus)) % Modulus = sum - Modulus
          /\ (Modulus * (digcnt[2] + 1) + (sum - Modulus)) \div Modulus = digcnt[2] + 1
      BY <1>1, <2>1, <3>3, DivUnique
    <3> QED
      BY <3>2, <3>4
  <2> QED
    BY <1>1, <2>1, <2>3, <2>4
<1>3. CASE sum < Modulus
  <2>1. sum \in 0 .. Modulus - 1
    BY <1>1, <1>3
  <2>2. Counted(n)[1] = sum /\ Counted(n)[2] = digcnt[2]
    BY <1>1, <1>3 DEF Counted
  <2>3. ASSUME NEW l \in Nat, digcnt[1] = (l % Modulus), digcnt[2] = (l \div Modulus)
        PROVE  sum = ((l + n) % Modulus) /\ digcnt[2] = ((l + n) \div Modulus)
    <3>1. l = Modulus * digcnt[2] + digcnt[1]
      BY <1>1, <2>3, DivMod
    <3>2. l + n = Modulus * digcnt[2] + sum
      BY <1>1, <3>1
    <3>3. /\ (Modulus * digcnt[2] + sum) % Modulus = sum
          /\ (Modulus * digcnt[2] + sum) \div Modulus = digcnt[2]
      BY <1>1, <2>1, DivUnique
    <3> QED
      BY <3>2, <3>3
  <2> QED
    BY <1>1, <2>1, <2>2, <2>3
<1> QED
  BY <1>1, <1>2, <1>3

(* What is fed and what remains of an input that completes a block.        *)
LEMMA FeedFacts ==
  ASSUME TypeOK, CountOK, Hashing, NEW n \in Nat, bufcnt + n >= block_size
  PROVE  LET all       == bufcnt + n
             remaining == all % block_size
             total     == all - remaining
         IN /\ remaining \in 0 .. block_size - 1
            /\ total \in Nat /\ bufcnt < total /\ total - bufcnt \in 0 .. n
            /\ (total - bufcnt) + remaining = n
<1> DEFINE b == block_size
           q == (bufcnt + n) \div b
           r == (bufcnt + n) % b
<1>1. b \in Nat \ {0} /\ bufcnt \in Nat /\ bufcnt < b
  BY Positive, HaceAssumption DEF TypeOK, CountOK
<1>2. q \in Nat /\ r \in 0 .. b - 1 /\ bufcnt + n = b * q + r
  BY <1>1, DivMod
<1> HIDE DEF b, q, r
<1>3. q >= 1
  <2>1. SUFFICES ASSUME q = 0 PROVE FALSE
    BY <1>2
  <2>2. bufcnt + n = r
    BY <1>1, <1>2, <2>1
  <2>3. bufcnt + n >= b
    BY DEF b
  <2> QED
    BY <1>1, <1>2, <2>2, <2>3
<1>4. b * q >= b
  BY <1>1, <1>2, <1>3
<1>5. /\ r \in 0 .. b - 1
      /\ (bufcnt + n) - r \in Nat /\ bufcnt < (bufcnt + n) - r
      /\ ((bufcnt + n) - r) - bufcnt \in 0 .. n
      /\ (((bufcnt + n) - r) - bufcnt) + r = n
  BY <1>1, <1>2, <1>4
<1> QED
  BY <1>5 DEF b, r

(* An update that is held back, and one that is fed, leave the stream and  *)
(* the count as they should be.                                            *)
LEMMA HoldStep ==
  ASSUME TypeOK, CountOK, Hashing, NEW s \in Seq(Cell), Hold(s)
  PROVE  /\ buffer' \in [0 .. BufSize - 1 -> Cell] /\ bufcnt' \in 0 .. BufSize
         /\ bufcnt' < block_size /\ bufcnt' = bufcnt + Len(s)
         /\ digest' = digest
         /\ Held(buffer', bufcnt') = Held(buffer, bufcnt) \o s
<1>1. /\ buffer \in [0 .. BufSize - 1 -> Cell] /\ bufcnt \in Nat
      /\ BufSize \in Nat /\ Len(s) \in Nat
  BY HaceAssumption, LenProperties DEF TypeOK
<1>2. block_size \in Nat /\ 2 * block_size <= BufSize
  BY BlockFacts
<1>3. /\ bufcnt + Len(s) < block_size /\ bufcnt' = bufcnt + Len(s)
      /\ buffer' = Stored(buffer, bufcnt, s) /\ digest' = digest
  BY DEF Hold
<1>4. bufcnt + Len(s) <= BufSize
  BY <1>1, <1>2, <1>3
<1>5. buffer' \in [0 .. BufSize - 1 -> Cell]
  BY <1>1, <1>3, StoredFacts
<1>6. Held(buffer', bufcnt') = Held(buffer, bufcnt) \o s
  BY <1>1, <1>3, <1>4, HeldStored
<1> QED
  BY <1>1, <1>3, <1>4, <1>5, <1>6

LEMMA FeedStep ==
  ASSUME TypeOK, CountOK, Hashing, NEW s \in Seq(Cell), Feed(s)
  PROVE  /\ buffer' \in [0 .. BufSize - 1 -> Cell] /\ bufcnt' \in 0 .. BufSize
         /\ sg' \in [1 .. 2 -> SgEntry] /\ digest' \in Seq(Cell)
         /\ bufcnt' < block_size
         /\ api = "owned" =>
              /\ bufcnt' = ((bufcnt + Len(s)) % block_size)
              /\ digest' \o Held(buffer', bufcnt')
                   = (digest \o Held(buffer, bufcnt)) \o s
<1> DEFINE all == bufcnt + Len(s)
           r == all % block_size
           total == all - r
           k == total - bufcnt
           front == SubSeq(s, 1, k)
           rest == SubSeq(s, k + 1, Len(s))
           held == Held(buffer, bufcnt)
<1>1. /\ buffer \in [0 .. BufSize - 1 -> Cell] /\ bufcnt \in 0 .. BufSize
      /\ bufcnt \in Nat /\ BufSize \in Nat /\ Len(s) \in Nat
      /\ digest \in Seq(Cell) /\ use_sg
  BY HaceAssumption, LenProperties DEF TypeOK, CountOK
<1>2. block_size \in Nat /\ 2 * block_size <= BufSize /\ bufcnt < block_size
  BY BlockFacts DEF CountOK
<1>3. all >= block_size
  BY DEF Feed
<1>4. /\ r \in 0 .. block_size - 1 /\ total \in Nat /\ bufcnt < total
      /\ k \in 0 .. Len(s) /\ k + r = Len(s)
  BY <1>1, <1>3, FeedFacts
<1>5. /\ sg' = UpdateSg(total)
      /\ digest' = digest \o Fetched(use_sg, buffer, s, sg', total)
      /\ buffer' = Stored(buffer, 0, SubSeq(s, k + 1, k + r))
      /\ bufcnt' = CountAfter(r)
  BY DEF Feed
<1> HIDE DEF r, total, k
<1>6. /\ front \in Seq(Cell) /\ rest \in Seq(Cell) /\ Len(rest) = r
      /\ front \o rest = s
  <2>1. /\ front \in Seq(Cell) /\ rest \in Seq(Cell) /\ Len(rest) = Len(s) - k
        /\ front \o rest = s
    BY <1>4, SplitInput, Zenon
  <2>2. Len(s) - k = r
    BY <1>1, <1>4
  <2> QED
    BY <2>1, <2>2
<1>7. held \in Seq(Cell)
  BY <1>1, HeldFacts
<1>8. /\ sg' \in [1 .. 2 -> SgEntry]
      /\ digest' = digest \o (held \o front)
  <2>1. total - bufcnt <= Len(s)
    BY <1>1, <1>4 DEF k
  <2>2. /\ UpdateSg(total) \in [1 .. 2 -> SgEntry]
        /\ Fetched(TRUE, buffer, s, UpdateSg(total), total)
             = held \o SubSeq(s, 1, total - bufcnt)
    BY <1>4, <2>1, FetchedUpdate
  <2>3. use_sg = TRUE
    BY <1>1 DEF TypeOK
  <2> QED
    BY <1>5, <2>2, <2>3 DEF k
<1>9. buffer' = Stored(buffer, 0, rest)
  BY <1>4, <1>5
<1> HIDE DEF front, rest, held
<1>10. buffer' \in [0 .. BufSize - 1 -> Cell]
  BY <1>1, <1>6, <1>9, StoredFacts
<1>11. bufcnt' \in 0 .. BufSize /\ bufcnt' < block_size
  BY <1>1, <1>2, <1>4, <1>5 DEF CountAfter
<1>12. held \o front \in Seq(Cell) /\ digest' \in Seq(Cell)
  BY <1>1, <1>6, <1>7, <1>8, ConcatCells
<1>13. ASSUME api = "owned"
       PROVE  /\ bufcnt' = r
              /\ digest' \o Held(buffer', bufcnt') = (digest \o held) \o s
  <2>1. bufcnt' = r
    BY <1>5, <1>13 DEF CountAfter
  <2>2. Len(rest) <= BufSize
    BY <1>1, <1>2, <1>4, <1>6
  <2>5. Held(buffer', r) = rest
    BY <1>1, <1>6, <1>9, <2>2, StoredAtStart
  <2>6. (digest \o (held \o front)) \o rest = digest \o ((held \o front) \o rest)
    <3> DEFINE mid == held \o front
    <3>1. mid \in Seq(Cell) /\ digest \in Seq(Cell) /\ rest \in Seq(Cell)
      BY <1>1, <1>6, <1>12
    <3> HIDE DEF mid
    <3>2. (digest \o mid) \o rest = digest \o (mid \o rest)
      BY <3>1, Associate
    <3> QED
      BY <3>2 DEF mid
  <2>7. (held \o front) \o rest = held \o s
    BY <1>6, <1>7, Associate
  <2>8. digest \o (held \o s) = (digest \o held) \o s
    BY <1>1, <1>7, Associate
  <2> QED
    BY <1>8, <2>1, <2>5, <2>6, <2>7, <2>8
<1> QED
  BY <1>8, <1>10, <1>11, <1>12, <1>13 DEF r, held

-----------------------------------------------------------------------------
(* The steps.                                                              *)

LEMMA InitInv == Init => Inv
<1> SUFFICES ASSUME Init PROVE Inv
  OBVIOUS
<1>1. [src |-> "buffer", len |-> 0, last |-> FALSE] \in SgEntry
  BY DEF SgEntry
<1>2. sg \in [1 .. 2 -> SgEntry]
  BY <1>1 DEF Init, Fill
<1>3. buffer \in [0 .. BufSize - 1 -> Cell] /\ digest \in Seq(Cell)
  BY ZeroCell DEF Init
<1>4. digcnt[1] \in 0 .. Modulus - 1 /\ digcnt[2] \in Nat
  BY HaceAssumption DEF Init
<1>5. bufcnt \in 0 .. BufSize /\ op \in 0 .. MaxOps /\ nupd \in 0 .. MaxUpdates
  BY HaceAssumption DEF Init
<1>6. msg \in Seq(Cell) /\ inner \in Seq(Cell) /\ out \in Seq(Cell)
  BY DEF Init
<1>7. TypeOK
  BY <1>2, <1>3, <1>4, <1>5, <1>6 DEF TypeOK, Init
<1> QED
  BY <1>7 DEF Inv, CountOK, LengthOK, StreamIntact, OwnedDigest, DigestBy, Init, Hashing,
     OnlyLongMacsPanic

(* A new operation starts from the initial value and holds nothing back,   *)
(* whatever the one before left.                                           *)
LEMMA HashInitInv ==
  ASSUME Inv, NEW i \in Apis \ {"mac"}, NEW a \in Algo, HashInit(i, a)
  PROVE  Inv'
<1> USE DEF HashInit, InitOp, FreshContext
<1>1. TypeOK'
  <2>1. digest' \in Seq(Cell)
    BY NamedCell
  <2>2. op' \in 0 .. MaxOps
    BY HaceAssumption DEF Inv, TypeOK
  <2> QED
    BY <2>1, <2>2, HaceAssumption DEF Inv, TypeOK
<1>2. (block_size \in Nat \ {0})'
  BY <1>1, Positive, HaceAssumption DEF TypeOK, Algo, block_size
<1>3. 0 % block_size' = 0 /\ 0 % Modulus = 0 /\ 0 \div Modulus = 0
  <2>1. \A b \in Nat \ {0} : b * 0 + 0 = 0 /\ 0 \in 0 .. b - 1
    OBVIOUS
  <2>2. \A b \in Nat \ {0} : 0 % b = 0 /\ 0 \div b = 0
    BY <2>1, DivUnique
  <2> QED
    BY <1>2, <2>2, Positive DEF Inv
<1>4. LengthOK' /\ CountOK'
  <2>1. /\ Len(msg') = 0 /\ bufcnt' = 0 /\ use_sg'
        /\ digcnt'[1] = 0 /\ digcnt'[2] = 0
    OBVIOUS
  <2>2. /\ bufcnt' = (Len(msg') % block_size')
        /\ digcnt'[1] = (Len(msg') % Modulus) /\ digcnt'[2] = (Len(msg') \div Modulus)
    BY <1>3, <2>1
  <2>3. 0 < block_size'
    BY <1>2
  <2> QED
    BY <2>1, <2>2, <2>3 DEF LengthOK, CountOK
<1>5. StreamIntact'
  <2>1. Held(buffer', bufcnt') = << >> /\ bufcnt' < block_size'
    BY <1>2 DEF Held
  <2>2. digest' = <<Named("iv")>> /\ msg' = << >>
    OBVIOUS
  <2> QED
    BY <2>1, <2>2 DEF StreamIntact
<1>6. OwnedDigest'
  BY DEF OwnedDigest, DigestBy
<1>7. OnlyLongMacsPanic'
  BY DEF OnlyLongMacsPanic
<1> QED
  BY <1>1, <1>4, <1>5, <1>6, <1>7 DEF Inv

LEMMA MacInitInv ==
  ASSUME Inv, "mac" \in Apis, NEW a \in Algo, MacInit(a)
  PROVE  Inv'
<1> USE DEF MacInit, InitOp
<1>1. TypeOK'
  <2>1. digest' \in Seq(Cell) /\ buffer' \in [0 .. BufSize - 1 -> Cell]
    BY ZeroCell
  <2>2. op' \in 0 .. MaxOps
    BY HaceAssumption DEF Inv, TypeOK
  <2> QED
    BY <2>1, <2>2, HaceAssumption DEF Inv, TypeOK
<1> QED
  BY <1>1 DEF Inv, CountOK, LengthOK, StreamIntact, OwnedDigest, DigestBy, Hashing,
     OnlyLongMacsPanic

(* An update appends its input to the stream, be it held back or fed.      *)
LEMMA HashUpdateInv ==
  ASSUME Inv, NEW n \in Lens, HashUpdate(n)
  PROVE  Inv'
<1> DEFINE s == Input(n)
<1>1. /\ Hashing /\ TypeOK /\ CountOK /\ pc = "open" /\ api # "mac"
      /\ Len(msg) \in Nat /\ msg \in Seq(Cell) /\ digest \in Seq(Cell)
  BY LenProperties DEF Inv, TypeOK, Hashing, HashUpdate
<1>2. n \in Nat /\ n \in 0 .. Modulus - 1 /\ s \in Seq(Cell) /\ Len(s) = n
  BY <1>1, InputFacts, Positive
<1>3. /\ nupd' \in 0 .. MaxUpdates /\ msg' = msg \o s /\ digcnt' = Counted(n)
      /\ UNCHANGED <<pc, op, api, algo, inner, out>>
      /\ Hold(s) \/ Feed(s)
  BY <1>1, HaceAssumption DEF HashUpdate, TypeOK
<1> HIDE DEF s
<1>4. msg' \in Seq(Cell) /\ Len(msg') = Len(msg) + n
  BY <1>1, <1>2, <1>3, ConcatCells
<1>5. /\ digcnt'[1] \in 0 .. Modulus - 1 /\ digcnt'[2] \in Nat
      /\ api = "owned" => /\ digcnt'[1] = (Len(msg') % Modulus)
                          /\ digcnt'[2] = (Len(msg') \div Modulus)
  BY <1>1, <1>2, <1>3, <1>4, CountedFacts DEF Inv, LengthOK
<1>6. block_size' = block_size /\ block_size \in Nat \ {0}
  BY <1>1, <1>3, Positive DEF block_size
<1>7. /\ buffer' \in [0 .. BufSize - 1 -> Cell] /\ bufcnt' \in 0 .. BufSize
      /\ sg' \in [1 .. 2 -> SgEntry] /\ digest' \in Seq(Cell)
      /\ bufcnt' < block_size /\ use_sg' = use_sg
  <2>1. CASE Hold(s)
    <3>1. sg' = sg /\ use_sg' = use_sg
      BY <2>1 DEF Hold
    <3>2. sg \in [1 .. 2 -> SgEntry]
      BY <1>1 DEF TypeOK
    <3> QED
      BY <1>1, <1>2, <2>1, <3>1, <3>2, HoldStep
  <2>2. CASE Feed(s)
    <3>1. use_sg' = use_sg
      BY <2>2 DEF Feed
    <3> QED
      BY <1>1, <1>2, <2>2, <3>1, FeedStep
  <2> QED
    BY <1>3, <2>1, <2>2
<1>8. TypeOK'
  BY <1>1, <1>3, <1>4, <1>5, <1>7 DEF TypeOK
<1>9. CountOK'
  BY <1>1, <1>3, <1>6, <1>7 DEF CountOK, Hashing
<1>10. ASSUME api = "owned"
       PROVE  /\ bufcnt' = (Len(msg') % block_size)
              /\ digest' \o Held(buffer', bufcnt') = <<Named("iv")>> \o msg'
  <2>1. /\ bufcnt = (Len(msg) % block_size)
        /\ digest \o Held(buffer, bufcnt) = <<Named("iv")>> \o msg
    BY <1>1, <1>10 DEF Inv, LengthOK, StreamIntact
  <2>2. <<Named("iv")>> \in Seq(Cell) /\ Held(buffer, bufcnt) \in Seq(Cell)
    BY <1>1, NamedCell, HeldFacts, SMTT(30) DEF TypeOK
  <2>3. (<<Named("iv")>> \o msg) \o s = <<Named("iv")>> \o msg'
    BY <1>1, <1>2, <1>3, <2>2, Associate
  <2>4. CASE Hold(s)
    <3>1. /\ bufcnt' = bufcnt + n /\ bufcnt + n < block_size /\ digest' = digest
          /\ Held(buffer', bufcnt') = Held(buffer, bufcnt) \o s
      BY <1>1, <1>2, <2>4, HoldStep
    <3>2. bufcnt' = ((Len(msg) + n) % block_size)
      BY <1>1, <1>2, <1>6, <2>1, <3>1, ModOfSum
    <3>3. digest \o (Held(buffer, bufcnt) \o s) = (digest \o Held(buffer, bufcnt)) \o s
      BY <1>1, <1>2, <2>2, Associate
    <3> QED
      BY <1>4, <2>1, <2>3, <3>1, <3>2, <3>3
  <2>5. CASE Feed(s)
    <3>1. /\ bufcnt' = ((bufcnt + n) % block_size)
          /\ digest' \o Held(buffer', bufcnt') = (digest \o Held(buffer, bufcnt)) \o s
      BY <1>1, <1>2, <1>10, <2>5, FeedStep
    <3>2. ((Len(msg) + n) % block_size) = ((Len(msg) % block_size) + n) % block_size
      BY <1>1, <1>2, <1>6, ModOfSum
    <3> QED
      BY <1>4, <2>1, <2>3, <3>1, <3>2
  <2> QED
    BY <1>3, <2>4, <2>5
<1>11. LengthOK'
  BY <1>3, <1>5, <1>6, <1>10 DEF LengthOK
<1>12. StreamIntact'
  BY <1>3, <1>6, <1>7, <1>10 DEF StreamIntact
<1>13. OwnedDigest'
  BY <1>1, <1>3 DEF OwnedDigest, DigestBy
<1>14. OnlyLongMacsPanic'
  BY <1>1, <1>3 DEF OnlyLongMacsPanic
<1> QED
  BY <1>8, <1>9, <1>11, <1>12, <1>13, <1>14 DEF Inv

LEMMA CleanupTypes ==
  ASSUME Cleanup
  PROVE  /\ bufcnt' \in 0 .. BufSize /\ buffer' \in [0 .. BufSize - 1 -> Cell]
         /\ digest' \in Seq(Cell)
         /\ digcnt'[1] \in 0 .. Modulus - 1 /\ digcnt'[2] \in Nat
<1>1. 0 \in 0 .. BufSize /\ 0 \in 0 .. Modulus - 1
  BY HaceAssumption
<1> QED
  BY <1>1, ZeroCell DEF Cleanup

(* finalize never overruns the buffer, and what it returns is computed     *)
(* from the stream, then the padding.                                      *)
LEMMA FinalizeStep ==
  ASSUME Inv, HashFinalize
  PROVE  /\ pc' = "done" /\ Cleanup /\ sg' \in [1 .. 2 -> SgEntry]
         /\ out' \in Seq(Cell)
         /\ api = "owned" => out' = <<Named("iv")>> \o Padded(msg)
<1> DEFINE P == Padding(bufcnt, digcnt)
           buf == Stored(buffer, bufcnt, P)
           len == PaddedCount(bufcnt)
           held == Held(buffer, bufcnt)
<1>1. /\ TypeOK /\ Hashing /\ bufcnt \in Nat /\ bufcnt \in 0 .. BufSize /\ BufSize \in Nat
      /\ buffer \in [0 .. BufSize - 1 -> Cell] /\ digest \in Seq(Cell)
      /\ digcnt[1] \in Nat /\ digcnt[2] \in Nat /\ sg \in [1 .. 2 -> SgEntry]
      /\ msg \in Seq(Cell) /\ pc = "open"
  BY HaceAssumption DEF Inv, TypeOK, Hashing, HashFinalize
<1>2. bufcnt < block_size /\ use_sg = TRUE
  BY <1>1 DEF Inv, CountOK, TypeOK
<1>3. /\ P \in Seq(Cell) /\ len \in Nat /\ len = bufcnt + Len(P)
  BY <1>1, PaddingFacts
<1>4. len \in 0 .. BufSize
  <2>1. bufcnt + PadLen(bufcnt) + LenCells <= 2 * block_size
    BY <1>1, <1>2, PadLenFacts
  <2>2. len <= 2 * block_size /\ 2 * block_size <= BufSize /\ block_size \in Nat
    BY <1>1, <2>1, BlockFacts DEF PaddedCount
  <2> QED
    BY <1>1, <1>3, <2>2
<1>5. ~ (len > BufSize)
  BY <1>1, <1>4
<1>6. /\ pc' = "done" /\ Cleanup
      /\ sg' = [sg EXCEPT ![1] = [src |-> "buffer", len |-> len, last |-> TRUE]]
      /\ out' = digest \o Fetched(use_sg, buf, << >>, sg', len)
  BY <1>5 DEF HashFinalize
<1> HIDE DEF P, len
<1>7. sg' \in [1 .. 2 -> SgEntry]
  <2>1. [src |-> "buffer", len |-> len, last |-> TRUE] \in SgEntry
    BY <1>3 DEF SgEntry
  <2> QED
    BY <1>1, <1>6, <2>1
<1>8. sg'[1] = [src |-> "buffer", len |-> len, last |-> TRUE]
  BY <1>1, <1>6
<1>9. buf \in [0 .. BufSize - 1 -> Cell]
  BY <1>1, <1>3, StoredFacts
<1>10. Held(buf, len) = held \o P
  <2>1. bufcnt + Len(P) <= BufSize
    BY <1>1, <1>3, <1>4
  <2> QED
    BY <1>1, <1>3, <2>1, HeldStored
<1> HIDE DEF buf, held
<1>11. Fetched(TRUE, buf, << >>, sg', len) = Held(buf, len)
  BY <1>4, <1>8, <1>9, FetchedLast
<1>12. out' = digest \o (held \o P)
  BY <1>2, <1>6, <1>10, <1>11
<1>13. held \in Seq(Cell)
  BY <1>1, HeldFacts DEF held
<1>14. out' \in Seq(Cell)
  <2>1. held \o P \in Seq(Cell)
    BY <1>3, <1>13, ConcatCells
  <2> QED
    BY <1>1, <1>12, <2>1, ConcatCells
<1>15. ASSUME api = "owned" PROVE out' = <<Named("iv")>> \o Padded(msg)
  <2>1. /\ bufcnt = (Len(msg) % block_size)
        /\ digcnt[1] = (Len(msg) % Modulus) /\ digcnt[2] = (Len(msg) \div Modulus)
        /\ digest \o held = <<Named("iv")>> \o msg
    BY <1>1, <1>15 DEF Inv, LengthOK, StreamIntact, held
  <2>2. msg \o P = Padded(msg)
    BY <1>1, <2>1, PaddingIsPadded DEF P
  <2>3. <<Named("iv")>> \in Seq(Cell)
    BY NamedCell
  <2>4. digest \o (held \o P) = (digest \o held) \o P
    BY <1>1, <1>3, <1>13, Associate, ZenonT(40)
  <2>5. (<<Named("iv")>> \o msg) \o P = <<Named("iv")>> \o (msg \o P)
    BY <1>1, <1>3, <2>3, Associate
  <2> QED
    BY <1>12, <2>1, <2>2, <2>4, <2>5
<1> QED
  BY <1>6, <1>7, <1>14, <1>15

LEMMA HashFinalizeInv ==
  ASSUME Inv, HashFinalize
  PROVE  Inv'
<1>1. /\ pc' = "done" /\ Cleanup /\ sg' \in [1 .. 2 -> SgEntry] /\ out' \in Seq(Cell)
      /\ api = "owned" => out' = <<Named("iv")>> \o Padded(msg)
  BY FinalizeStep
<1>2. use_sg' = use_sg /\ UNCHANGED <<op, api, algo, nupd, msg, inner>>
  BY <1>1 DEF HashFinalize
<1>3. TypeOK'
  BY <1>1, <1>2, CleanupTypes DEF Inv, TypeOK
<1>4. OwnedDigest'
  BY <1>1, <1>2 DEF OwnedDigest, DigestBy, Padded, LenCells, block_size
<1> QED
  BY <1>1, <1>3, <1>4 DEF Inv, CountOK, LengthOK, StreamIntact, Hashing, OnlyLongMacsPanic

(* A MAC leaves the digests alone, and its pieces fit the buffer when they *)
(* do not panic.                                                           *)
LEMMA PieceFacts ==
  ASSUME TypeOK, NEW b \in [0 .. BufSize - 1 -> Cell], NEW s \in Seq(Cell)
  PROVE  /\ MacPiece(b, s) \in [0 .. BufSize - 1 -> Cell]
         /\ PaddedCount(Len(s)) \in Nat
         /\ PaddedCount(Len(s)) <= BufSize => MacHash(b, s) \in Seq(Cell)
<1> DEFINE dig == <<Len(s), digcnt[2]>>
           P == Padding(Len(s), dig)
           len == PaddedCount(Len(s))
<1>1. Len(s) \in Nat /\ dig[1] \in Nat /\ dig[2] \in Nat /\ BufSize \in Nat
  BY HaceAssumption, LenProperties DEF TypeOK
<1> HIDE DEF dig
<1>2. P \in Seq(Cell) /\ len \in Nat
  BY <1>1, PaddingFacts
<1>3. s \o P \in Seq(Cell)
  BY <1>2, ConcatCells
<1>4. MacPiece(b, s) = Stored(b, 0, s \o P)
  BY DEF MacPiece, dig
<1> HIDE DEF P, len
<1>5. MacPiece(b, s) \in [0 .. BufSize - 1 -> Cell]
  <2> DEFINE t == s \o P
  <2>1. t \in Seq(Cell)
    BY <1>3
  <2> HIDE DEF t
  <2>2. Stored(b, 0, t) \in [0 .. BufSize - 1 -> Cell]
    BY <2>1, StoredFacts
  <2> QED
    BY <1>4, <2>2 DEF t
<1>6. ASSUME len <= BufSize PROVE MacHash(b, s) \in Seq(Cell)
  <2>1. len \in 0 .. BufSize
    BY <1>1, <1>2, <1>6
  <2>2. Fetched(FALSE, MacPiece(b, s), << >>, sg, len) = Held(MacPiece(b, s), len)
    BY <1>5, <2>1, FetchedHeld
  <2>3. Held(MacPiece(b, s), len) \in Seq(Cell)
    BY <1>5, <2>1, HeldFacts
  <2>4. <<Named("iv")>> \in Seq(Cell)
    BY NamedCell
  <2>5. MacHash(b, s) = <<Named("iv")>> \o Held(MacPiece(b, s), len)
    BY <2>2 DEF MacHash, len
  <2> QED
    BY <2>3, <2>4, <2>5, ConcatCells
<1> QED
  BY <1>2, <1>5, <1>6 DEF len

LEMMA PaddedCountFits ==
  ASSUME TypeOK, NEW n \in Nat, PaddedCount(block_size + n) > BufSize
  PROVE  block_size + n + 1 + LenCells > BufSize
<1> DEFINE b == block_size
           c == b + n
           i == c % b
           q == c \div b
           L == LenCells
           k == BufSize \div b
<1>1. /\ b \in Nat \ {0} /\ L \in Nat /\ L < b /\ BufSize \in Nat /\ c \in Nat
  BY Positive, BlockFacts, HaceAssumption
<1>2. BufSize % b = 0
  BY HaceAssumption DEF block_size, TypeOK, Algo
<1>3. q \in Nat /\ i \in 0 .. b - 1 /\ c = b * q + i
  BY <1>1, DivMod
<1>4. k \in Nat /\ BufSize = b * k
  <2>1. k \in Nat /\ BufSize = b * k + (BufSize % b)
    BY <1>1, DivMod
  <2> QED
    BY <1>1, <1>2, <2>1
<1>5. PaddedCount(c) = IF i < b - L THEN b * q + b ELSE b * q + (b + b)
  <2>1. PadLen(c) = IF i < b - L THEN b - L - i ELSE b + (b - L) - i
    BY DEF PadLen
  <2> HIDE DEF b, c, i, q, L
  <2>2. b * q \in Nat
    BY <1>1, <1>3
  <2>3. PaddedCount(c) = c + PadLen(c) + L
    BY DEF PaddedCount, L
  <2> QED
    BY <1>1, <1>3, <2>1, <2>2, <2>3
<1>6. PaddedCount(c) > b * k
  BY <1>4
<1> HIDE DEF b, c, i, q, L, k
<1>7. CASE i < b - L
  <2>1. b * (q + 1) > b * k
    BY <1>1, <1>3, <1>4, <1>5, <1>6, <1>7
  <2>2. q >= k
    BY <1>1, <1>3, <1>4, <2>1
  <2>3. b * q >= b * k
    BY <1>1, <1>3, <1>4, <2>2
  <2>4. b * q \in Nat /\ b * k \in Nat
    BY <1>1, <1>3, <1>4
  <2>5. c + 1 + L > b * k
    BY <1>1, <1>3, <2>3, <2>4
  <2> QED
    BY <1>4, <2>5 DEF b, c, L, k
<1>8. CASE ~ (i < b - L)
  <2>1. b * (q + 2) > b * k
    BY <1>1, <1>3, <1>4, <1>5, <1>6, <1>8
  <2>2. q + 1 >= k
    BY <1>1, <1>3, <1>4, <2>1
  <2>3. b * (q + 1) >= b * k
    BY <1>1, <1>3, <1>4, <2>2
  <2>4. b * q \in Nat /\ b * k \in Nat /\ b * (q + 1) = b * q + b
    BY <1>1, <1>3, <1>4
  <2>5. c + 1 + L > b * k
    BY <1>1, <1>3, <1>8, <2>3, <2>4
  <2> QED
    BY <1>4, <2>5 DEF b, c, L, k
<1> QED
  BY <1>7, <1>8

LEMMA OuterPieceFits ==
  ASSUME TypeOK
  PROVE  PaddedCount(block_size + DigestSize) \in 0 .. BufSize
<1>1. /\ block_size \in Nat \ {0} /\ LenCells \in Nat /\ DigestSize \in Nat
      /\ LenCells + DigestSize < block_size /\ 2 * block_size <= BufSize /\ BufSize \in Nat
  BY Positive, BlockFacts, HaceAssumption
<1>2. block_size + DigestSize = block_size * 1 + DigestSize /\ DigestSize \in 0 .. block_size - 1
  BY <1>1
<1>3. (block_size * 1 + DigestSize) % block_size = DigestSize
  BY <1>1, <1>2, DivUnique
<1>4. (block_size + DigestSize) % block_size = DigestSize
  BY <1>2, <1>3
<1>5. PadLen(block_size + DigestSize) = block_size - LenCells - DigestSize
  BY <1>1, <1>4 DEF PadLen
<1> QED
  BY <1>1, <1>5 DEF PaddedCount

LEMMA MacUpdateInv ==
  ASSUME Inv, NEW n \in Lens, MacUpdate(n)
  PROVE  Inv'
<1> DEFINE first == Pads("ipad") \o Input(n)
           second == Pads("opad") \o Fill(Named("inner"), DigestSize)
           middle == MacPiece(buffer, first)
<1>1. /\ TypeOK /\ pc = "open" /\ api = "mac" /\ nupd' \in 0 .. MaxUpdates
      /\ buffer \in [0 .. BufSize - 1 -> Cell] /\ msg \in Seq(Cell)
      /\ block_size \in Nat /\ DigestSize \in Nat /\ digcnt[2] \in Nat
      /\ use_sg' = FALSE /\ msg' = msg \o Input(n)
      /\ UNCHANGED <<op, api, algo, sg, out>>
  <2>1. TypeOK /\ pc = "open" /\ api = "mac"
    BY DEF Inv, MacUpdate
  <2>2. nupd' \in 0 .. MaxUpdates
    BY <2>1, HaceAssumption DEF TypeOK, MacUpdate
  <2>3. /\ buffer \in [0 .. BufSize - 1 -> Cell] /\ msg \in Seq(Cell) /\ digcnt[2] \in Nat
    BY <2>1 DEF TypeOK
  <2>4. block_size \in Nat /\ DigestSize \in Nat
    BY <2>1, BlockFacts, HaceAssumption
  <2>5. /\ use_sg' = FALSE /\ msg' = msg \o Input(n)
        /\ UNCHANGED <<op, api, algo, sg, out>>
    BY DEF MacUpdate
  <2> QED
    BY <2>1, <2>2, <2>3, <2>4, <2>5
<1>2. /\ Input(n) \in Seq(Cell) /\ Len(Input(n)) = n /\ n \in Nat
      /\ msg' \in Seq(Cell) /\ Len(msg') = Len(msg) + n /\ Len(msg) \in Nat
  <2>1. /\ Input(n) \in Seq(Cell) /\ Len(Input(n)) = n /\ n \in Nat
    BY <1>1, InputFacts, Positive
  <2> QED
    BY <1>1, <2>1, ConcatCells, LenProperties
<1>3. first \in Seq(Cell) /\ Len(first) = block_size + n
  <2>1. Pads("ipad") \in Seq(Cell) /\ Len(Pads("ipad")) = block_size
    BY <1>1, NamedCell, FillFacts DEF Pads
  <2> QED
    BY <1>2, <2>1, ConcatCells
<1>4. second \in Seq(Cell) /\ Len(second) = block_size + DigestSize
  <2>1. Pads("opad") \in Seq(Cell) /\ Len(Pads("opad")) = block_size
    BY <1>1, NamedCell, FillFacts DEF Pads
  <2>2. /\ Fill(Named("inner"), DigestSize) \in Seq(Cell)
        /\ Len(Fill(Named("inner"), DigestSize)) = DigestSize
    BY <1>1, NamedCell, FillFacts
  <2> QED
    BY <2>1, <2>2, ConcatCells
<1>5. CASE PaddedCount(Len(first)) > BufSize
  <2>1. pc' = "panic" /\ UNCHANGED <<buffer, bufcnt, digcnt, digest, inner>>
    BY <1>5 DEF MacUpdate
  <2>2. TypeOK'
    BY <1>1, <1>2, <2>1 DEF TypeOK
  <2>3. OnlyLongMacsPanic'
    <3>1. block_size + n + 1 + LenCells > BufSize
      BY <1>1, <1>2, <1>3, <1>5, PaddedCountFits
    <3>2. block_size' = block_size /\ LenCells' = LenCells /\ LenCells \in Nat
      BY <1>1, BlockFacts DEF block_size, LenCells
    <3>3. block_size + Len(msg') + 1 + LenCells > BufSize
      BY <1>1, <1>2, <3>1, <3>2, HaceAssumption
    <3> QED
      BY <1>1, <3>2, <3>3 DEF OnlyLongMacsPanic
  <2> QED
    BY <1>1, <2>1, <2>2, <2>3
    DEF Inv, CountOK, LengthOK, StreamIntact, OwnedDigest, DigestBy, Hashing,
     OnlyLongMacsPanic
<1>6. CASE ~ (PaddedCount(Len(first)) > BufSize)
  <2>1. /\ inner' = MacHash(buffer, first) /\ digest' = MacHash(middle, second)
        /\ buffer' = MacPiece(middle, second) /\ bufcnt' = PaddedCount(Len(second))
        /\ digcnt' = <<Len(second), digcnt[2]>> /\ pc' = pc
    BY <1>6 DEF MacUpdate
  <2> HIDE DEF first, second
  <2>2. /\ inner' \in Seq(Cell) /\ middle \in [0 .. BufSize - 1 -> Cell]
    <3>1. PaddedCount(Len(first)) \in Nat /\ BufSize \in Nat
      BY <1>1, <1>3, PieceFacts, HaceAssumption
    <3>2. PaddedCount(Len(first)) <= BufSize
      BY <1>6, <3>1
    <3> QED
      BY <1>1, <1>3, <2>1, <3>2, PieceFacts
  <2> HIDE DEF middle
  <2>3. PaddedCount(Len(second)) \in 0 .. BufSize
    BY <1>1, <1>4, OuterPieceFits
  <2>4. /\ digest' \in Seq(Cell) /\ buffer' \in [0 .. BufSize - 1 -> Cell]
        /\ bufcnt' \in 0 .. BufSize
    <3>1. PaddedCount(Len(second)) <= BufSize
      BY <2>3, HaceAssumption
    <3> QED
      BY <1>1, <1>4, <2>1, <2>2, <2>3, <3>1, PieceFacts
  <2>5. digcnt'[1] \in 0 .. Modulus - 1 /\ digcnt'[2] \in Nat
    <3>1. block_size + DigestSize \in 0 .. Modulus - 1
      BY <1>1, BlockFacts, HaceAssumption
    <3> QED
      BY <1>1, <1>4, <2>1, <3>1
  <2>6. TypeOK'
    BY <1>1, <1>2, <2>1, <2>2, <2>4, <2>5 DEF TypeOK
  <2> QED
    BY <1>1, <2>1, <2>6
    DEF Inv, CountOK, LengthOK, StreamIntact, OwnedDigest, DigestBy, Hashing,
     OnlyLongMacsPanic
<1> QED
  BY <1>5, <1>6

LEMMA MacFinalizeInv ==
  ASSUME Inv, MacFinalize
  PROVE  Inv'
<1>1. TypeOK'
  BY CleanupTypes DEF Inv, TypeOK, MacFinalize
<1> QED
  BY <1>1 DEF Inv, MacFinalize, CountOK, LengthOK, StreamIntact, OwnedDigest, DigestBy, Hashing,
     OnlyLongMacsPanic

LEMMA CancelInv ==
  ASSUME Inv, Cancel
  PROVE  Inv'
<1>1. TypeOK'
  BY CleanupTypes DEF Inv, TypeOK, Cancel
<1> QED
  BY <1>1 DEF Inv, Cancel, CountOK, LengthOK, StreamIntact, OwnedDigest, DigestBy, Hashing,
     OnlyLongMacsPanic

LEMMA StutterInv ==
  ASSUME Inv, UNCHANGED vars
  PROVE  Inv'
<1>1. UNCHANGED <<pc, op, api, algo, nupd, msg, use_sg, buffer, bufcnt, digcnt, sg,
                  digest, inner, out>>
  BY DEF vars, ctxVars
<1>2. TypeOK'
  BY <1>1 DEF Inv, TypeOK
<1>3. CountOK' /\ LengthOK' /\ StreamIntact'
  BY <1>1 DEF Inv, CountOK, LengthOK, StreamIntact, Hashing, block_size, Held
<1>4. OwnedDigest' /\ OnlyLongMacsPanic'
  BY <1>1 DEF Inv, OwnedDigest, DigestBy, Padded, LenCells, block_size, OnlyLongMacsPanic
<1> QED
  BY <1>2, <1>3, <1>4 DEF Inv

LEMMA NextInv == Inv /\ [Next]_vars => Inv'
<1> SUFFICES ASSUME Inv, [Next]_vars PROVE Inv'
  OBVIOUS
<1>1. ASSUME NEW i \in Apis \ {"mac"}, NEW a \in Algo, HashInit(i, a) PROVE Inv'
  BY <1>1, HashInitInv
<1>2. ASSUME "mac" \in Apis, NEW a \in Algo, MacInit(a) PROVE Inv'
  BY <1>2, MacInitInv
<1>3. ASSUME NEW n \in Lens, HashUpdate(n) PROVE Inv'
  BY <1>3, HashUpdateInv
<1>4. ASSUME NEW n \in Lens, MacUpdate(n) PROVE Inv'
  BY <1>4, MacUpdateInv
<1>5. CASE HashFinalize
  BY <1>5, HashFinalizeInv
<1>6. CASE MacFinalize
  BY <1>6, MacFinalizeInv
<1>7. CASE Cancel
  BY <1>7, CancelInv
<1>8. CASE Stopped \/ UNCHANGED vars
  BY <1>8, StutterInv DEF Stopped
<1> QED
  BY <1>1, <1>2, <1>3, <1>4, <1>5, <1>6, <1>7, <1>8 DEF Next

-----------------------------------------------------------------------------
(* Every variable stays in its type: in particular no write of a digest    *)
(* goes beyond the buffer, and digcnt wraps.                               *)
THEOREM TypeCorrect == Spec => []TypeOK
<1>1. Inv => TypeOK
  BY DEF Inv
<1> QED
  BY InitInv, NextInv, <1>1, PTL DEF Spec

(* What the engine was fed and what is held back are, together, the        *)
(* message so far, for the owned interface.                                *)
THEOREM StreamCorrect == Spec => []StreamIntact
<1>1. Inv => StreamIntact
  BY DEF Inv
<1> QED
  BY InitInv, NextInv, <1>1, PTL DEF Spec

(* The digest of the owned interface is that of the padded message,        *)
(* however the message was cut and whatever was hashed before.             *)
THEOREM OwnedDigestCorrect == Spec => []OwnedDigest
<1>1. Inv => OwnedDigest
  BY DEF Inv
<1> QED
  BY InitInv, NextInv, <1>1, PTL DEF Spec

(* Only a MAC panics, and only on a message that does not fit the buffer   *)
(* with its pad and padding.                                               *)
THEOREM PanicCorrect == Spec => []OnlyLongMacsPanic
<1>1. Inv => OnlyLongMacsPanic
  BY DEF Inv
<1> QED
  BY InitInv, NextInv, <1>1, PTL DEF Spec
-----------------------------------------------------------------------------
(* MACs. No more than the low word of digcnt is used, and after the first  *)
(* update the inner and the outer hash are there.                          *)
InnerOf(m) == <<Named("iv")>> \o Padded(Pads("ipad") \o m)
Outer == <<Named("iv")>> \o Padded(Pads("opad") \o Fill(Named("inner"), DigestSize))

MacOK ==
  (pc = "open" /\ api = "mac") =>
    /\ digcnt[2] = 0
    /\ nupd = 0 => msg = << >>
    /\ nupd = 1 => inner = InnerOf(msg) /\ digest = Outer

MacInv == Inv /\ MacOK /\ MacOfMessage

(* A piece that fits the buffer is hashed as the definition says: its      *)
(* length is below a word, so that the low word of digcnt is all of it.    *)
LEMMA MacHashIs ==
  ASSUME TypeOK, NEW b \in [0 .. BufSize - 1 -> Cell], NEW s \in Seq(Cell),
         PaddedCount(Len(s)) <= BufSize, digcnt[2] = 0
  PROVE  MacHash(b, s) = <<Named("iv")>> \o Padded(s)
<1> DEFINE dig == <<Len(s), digcnt[2]>>
           P == Padding(Len(s), dig)
           len == PaddedCount(Len(s))
<1>1. /\ Len(s) \in Nat /\ dig[1] = Len(s) /\ dig[2] = 0 /\ BufSize \in Nat
      /\ block_size \in Nat \ {0} /\ Modulus \in Nat \ {0} /\ BufSize < Modulus
  BY HaceAssumption, LenProperties, Positive
<1>2. P \in Seq(Cell) /\ len \in Nat /\ len = Len(s) + Len(P)
  <2>1. dig[1] \in Nat /\ dig[2] \in Nat
    BY <1>1
  <2> HIDE DEF dig
  <2> QED BY <1>1, <2>1, PaddingFacts
<1>3. MacPiece(b, s) = Stored(b, 0, s \o P)
  BY DEF MacPiece
<1>4. /\ s \o P \in Seq(Cell) /\ Len(s \o P) = len
  BY <1>2, ConcatCells
<1>5. len \in 0 .. BufSize /\ Len(P) \in Nat
  BY <1>1, <1>2, LenProperties
<1>6. MacPiece(b, s) \in [0 .. BufSize - 1 -> Cell]
  BY PieceFacts
<1>7. s \o P = Padded(s)
  <2>1. Len(s) < Modulus
    BY <1>1, <1>2, <1>5
  <2>2. Len(s) = Modulus * 0 + Len(s) /\ Len(s) \in 0 .. Modulus - 1
    <3> DEFINE l == Len(s)
    <3>1. l \in Nat /\ l < Modulus /\ Modulus \in Nat
      BY <1>1, <2>1
    <3> HIDE DEF l
    <3>2. l = Modulus * 0 + l /\ l \in 0 .. Modulus - 1
      BY <3>1
    <3> QED BY <3>2 DEF l
  <2>3. /\ (Modulus * 0 + Len(s)) \div Modulus = 0
        /\ (Modulus * 0 + Len(s)) % Modulus = Len(s)
    BY <1>1, <2>2, DivUnique, ZenonT(40)
  <2>4. dig[1] = Len(s) % Modulus /\ dig[2] = Len(s) \div Modulus
    BY <1>1, <2>2, <2>3, Zenon
  <2>5. s \o Padding(Len(s) % block_size, dig) = Padded(s)
    <3> HIDE DEF dig
    <3> QED BY <2>4, PaddingIsPadded
  <2>6. PadLen(Len(s) % block_size) = PadLen(Len(s))
    <3> DEFINE c == Len(s) % block_size
    <3>1. c \in 0 .. block_size - 1
      BY <1>1, DivMod
    <3> HIDE DEF c
    <3>2. block_size * 0 + c = c
      BY <1>1, <3>1
    <3>3. (block_size * 0 + c) % block_size = c
      BY <1>1, <3>1, DivUnique
    <3>4. c % block_size = Len(s) % block_size
      BY <3>2, <3>3 DEF c
    <3>5. PadLen(c) = PadLen(Len(s))
      BY <3>4 DEF PadLen
    <3> QED BY <3>5 DEF c
  <2>7. Padding(Len(s) % block_size, dig) = P
    BY <2>6 DEF Padding
  <2> QED BY <2>5, <2>7, Zenon
<1> HIDE DEF P, len, dig
<1>8. Fetched(FALSE, MacPiece(b, s), << >>, sg, len) = s \o P
  <2>1. Fetched(FALSE, MacPiece(b, s), << >>, sg, len) = Held(MacPiece(b, s), len)
    BY <1>5, <1>6, FetchedHeld
  <2> DEFINE t == s \o P
  <2>2. t \in Seq(Cell) /\ Len(t) <= BufSize /\ Len(t) = len
    BY <1>1, <1>4, <1>5
  <2>3. MacPiece(b, s) = Stored(b, 0, t)
    BY <1>3
  <2> HIDE DEF t
  <2>4. Held(Stored(b, 0, t), Len(t)) = t
    BY <2>2, StoredAtStart
  <2> QED BY <2>1, <2>2, <2>3, <2>4 DEF t
<1>9. MacHash(b, s) = <<Named("iv")>> \o Fetched(FALSE, MacPiece(b, s), << >>, sg, len)
  BY DEF MacHash, len
<1> QED BY <1>7, <1>8, <1>9

LEMMA MacUpdateMac ==
  ASSUME MacInv, NEW n \in Lens, MacUpdate(n)
  PROVE  MacOK'
<1> DEFINE first == Pads("ipad") \o Input(n)
           second == Pads("opad") \o Fill(Named("inner"), DigestSize)
           middle == MacPiece(buffer, first)
<1>1. /\ TypeOK /\ pc = "open" /\ api = "mac" /\ MacOK
      /\ nupd \in Nat /\ nupd' = nupd + 1
      /\ buffer \in [0 .. BufSize - 1 -> Cell] /\ digcnt[2] = 0
      /\ block_size \in Nat /\ DigestSize \in Nat
      /\ msg' = msg \o Input(n)
      /\ UNCHANGED <<api, algo>>
  <2>1. TypeOK /\ pc = "open" /\ api = "mac" /\ MacOK
    BY DEF MacInv, Inv, MacUpdate
  <2>2. nupd \in Nat /\ buffer \in [0 .. BufSize - 1 -> Cell]
    BY <2>1, HaceAssumption DEF TypeOK
  <2>3. nupd' = nupd + 1 /\ msg' = msg \o Input(n) /\ UNCHANGED <<api, algo>>
    BY DEF MacUpdate
  <2>4. block_size \in Nat /\ DigestSize \in Nat
    BY <2>1, BlockFacts, HaceAssumption
  <2> QED BY <2>1, <2>2, <2>3, <2>4 DEF MacOK
<1>2. Input(n) \in Seq(Cell) /\ Len(Input(n)) = n /\ n \in Nat
  BY <1>1, InputFacts, Positive
<1>3. first \in Seq(Cell)
  <2>1. Pads("ipad") \in Seq(Cell)
    BY <1>1, NamedCell, FillFacts DEF Pads
  <2> QED BY <1>2, <2>1, ConcatCells
<1>4. second \in Seq(Cell) /\ Len(second) = block_size + DigestSize
  <2>1. Pads("opad") \in Seq(Cell) /\ Len(Pads("opad")) = block_size
    BY <1>1, NamedCell, FillFacts DEF Pads
  <2>2. /\ Fill(Named("inner"), DigestSize) \in Seq(Cell)
        /\ Len(Fill(Named("inner"), DigestSize)) = DigestSize
    BY <1>1, NamedCell, FillFacts
  <2> QED BY <2>1, <2>2, ConcatCells
<1>5. CASE PaddedCount(Len(first)) > BufSize
  BY <1>5 DEF MacUpdate, MacOK
<1>6. CASE ~ (PaddedCount(Len(first)) > BufSize)
  <2>1. /\ inner' = MacHash(buffer, first) /\ digest' = MacHash(middle, second)
        /\ digcnt' = <<Len(second), digcnt[2]>> /\ pc' = pc
    BY <1>6 DEF MacUpdate
  <2>2. digcnt'[2] = 0
    BY <1>1, <2>1
  <2> HIDE DEF first, second
  <2>3. PaddedCount(Len(first)) <= BufSize
    <3>1. PaddedCount(Len(first)) \in Nat /\ BufSize \in Nat
      BY <1>1, <1>3, PieceFacts, HaceAssumption
    <3> QED BY <1>6, <3>1
  <2>4. PaddedCount(Len(second)) <= BufSize
    BY <1>1, <1>4, OuterPieceFits, HaceAssumption
  <2>5. middle \in [0 .. BufSize - 1 -> Cell]
    BY <1>1, <1>3, PieceFacts
  <2> HIDE DEF middle
  <2>6. inner' = <<Named("iv")>> \o Padded(first)
    BY <1>1, <1>3, <2>1, <2>3, MacHashIs
  <2>7. digest' = Outer
    BY <1>1, <1>4, <2>1, <2>4, <2>5, MacHashIs DEF Outer, second
  <2>8. Outer' = Outer /\ \A m : InnerOf(m)' = InnerOf(m)
    BY <1>1 DEF Outer, InnerOf, Pads, Padded, LenCells, block_size
  <2>9. ASSUME nupd' = 1 PROVE inner' = InnerOf(msg)' /\ digest' = Outer'
    <3>1. nupd = 0 /\ msg = << >>
      BY <1>1, <2>9 DEF MacOK
    <3>2. msg' = Input(n)
      BY <1>1, <1>2, <3>1, ConcatEmptySeq
    <3>3. inner' = InnerOf(msg')
      BY <2>6, <3>2 DEF InnerOf, first
    <3>4. InnerOf(msg)' = InnerOf(msg')
      BY <1>1 DEF InnerOf, Pads, Padded, LenCells, block_size
    <3> QED BY <2>7, <2>8, <3>3, <3>4
  <2>10. nupd' # 0
    BY <1>1
  <2> QED BY <2>2, <2>9, <2>10 DEF MacOK
<1> QED BY <1>5, <1>6

LEMMA NextMac == MacInv /\ [Next]_vars => MacInv'
<1> SUFFICES ASSUME MacInv, [Next]_vars PROVE MacInv'
  OBVIOUS
<1>0. MacOfMessage' <=>
        (pc' = "done" /\ api' = "mac" /\ nupd' = 1 =>
           inner' = InnerOf(msg)' /\ out' = Outer')
  BY DEF MacOfMessage, InnerOf, Outer
<1>1. Inv'
  BY NextInv DEF MacInv
<1>2. ASSUME NEW i \in Apis \ {"mac"}, NEW a \in Algo, HashInit(i, a)
      PROVE  MacOK' /\ MacOfMessage'
  <2>1. api' # "mac"
    BY <1>2 DEF HashInit, InitOp
  <2> QED BY <1>0, <2>1 DEF MacOK
<1>3. ASSUME NEW a \in Algo, MacInit(a) PROVE MacOK' /\ MacOfMessage'
  <2>1. digcnt' = <<0, 0>> /\ nupd' = 0 /\ msg' = << >> /\ pc' = "open"
    BY <1>3 DEF MacInit, InitOp
  <2> QED BY <1>0, <2>1 DEF MacOK
<1>4. ASSUME NEW n \in Lens, HashUpdate(n) PROVE MacOK' /\ MacOfMessage'
  <2>1. pc' = "open" /\ api' # "mac"
    BY <1>4 DEF HashUpdate
  <2> QED BY <1>0, <2>1 DEF MacOK
<1>5. ASSUME NEW n \in Lens, MacUpdate(n) PROVE MacOK' /\ MacOfMessage'
  <2>1. pc' # "done"
    BY <1>5 DEF MacUpdate
  <2> QED BY <1>5, <2>1, MacUpdateMac, <1>0
<1>6. CASE HashFinalize
  <2>1. pc' # "open" /\ api' # "mac"
    BY <1>6 DEF HashFinalize
  <2> QED BY <1>0, <1>1, <2>1 DEF MacInv, MacOK
<1>7. CASE MacFinalize
  <2>1. /\ pc = "open" /\ api = "mac" /\ pc' = "done" /\ out' = digest
        /\ UNCHANGED <<api, algo, nupd, msg, inner>>
    BY <1>7 DEF MacFinalize
  <2>2. nupd = 1 => inner = InnerOf(msg) /\ digest = Outer
    BY <2>1 DEF MacInv, MacOK
  <2>3. InnerOf(msg)' = InnerOf(msg) /\ Outer' = Outer
    BY <2>1 DEF InnerOf, Outer, Pads, Padded, LenCells, block_size
  <2> QED BY <1>0, <1>1, <2>1, <2>2, <2>3 DEF MacInv, MacOK
<1>8. CASE Cancel
  <2>1. pc' = "idle"
    BY <1>8 DEF Cancel
  <2> QED BY <1>0, <1>1, <2>1 DEF MacInv, MacOK
<1>9. CASE Stopped \/ UNCHANGED vars
  <2>1. /\ UNCHANGED <<pc, api, algo, nupd, msg, digcnt, digest, inner, out>>
        /\ MacOK /\ MacOfMessage
    BY <1>9 DEF Stopped, vars, ctxVars, MacInv
  <2>2. InnerOf(msg)' = InnerOf(msg) /\ Outer' = Outer
    BY <2>1 DEF InnerOf, Outer, Pads, Padded, LenCells, block_size
  <2>3. MacOK'
    BY <2>1, <2>2 DEF MacOK
  <2>4. pc = "done" /\ api = "mac" /\ nupd = 1 =>
          inner = InnerOf(msg) /\ out = Outer
    BY <2>1 DEF MacOfMessage, InnerOf, Outer
  <2>5. MacOfMessage'
    BY <1>0, <2>1, <2>2, <2>4
  <2> QED BY <1>1, <2>3, <2>5 DEF MacInv
<1> QED
  BY <1>1, <1>2, <1>3, <1>4, <1>5, <1>6, <1>7, <1>8, <1>9 DEF Next, MacInv

(* The MAC of a message passed in one update is the nested hash of the     *)
(* definition: of the inner pad and the message, and of the outer pad and  *)
(* that digest (hmac.rs), whatever operation used the context before, to   *)
(* its end or dropped half-way.                                            *)
THEOREM MacCorrect == Spec => []MacOfMessage
<1>1. Init => MacInv
  BY InitInv DEF Init, MacInv, MacOK, MacOfMessage
<1>2. MacInv => MacOfMessage
  BY DEF MacInv
<1> QED
  BY <1>1, NextMac, <1>2, PTL DEF Spec

=============================================================================
