----------------------------- MODULE HaceDigest -----------------------------
(***************************************************************************)
(* Digests and MACs on the HACE engine: hash.rs (the scoped API, which     *)
(* borrows the controller), hash_owned.rs (the owned API, which moves it)  *)
(* and hmac.rs, on the context of hace_controller.rs that all of them use. *)
(*                                                                         *)
(* The engine hashes whole blocks and keeps its state in the digest of the *)
(* context; the driver holds back the bytes of an unfinished block, tells  *)
(* the engine where to find the others with a list of two scatter entries, *)
(* and appends the padding at the end. What the engine computes is kept as *)
(* what it was computed from: the variable digest is the initial value and *)
(* all cells fed to the engine since. A cell is a byte, except that the    *)
(* eight bytes of each word of the length are one.                         *)
(***************************************************************************)
EXTENDS Integers, Sequences

CONSTANTS
  Lens,         \* lengths of the inputs that callers pass
  MaxUpdates,   \* bound on the updates of one operation
  MaxOps,       \* bound on the operations
  Apis,         \* the interfaces used: "owned", "scoped", "mac"
  SmallBlock,   \* block size of SHA-1, SHA-224 and SHA-256 (64)
  LargeBlock,   \* block size of the SHA-512 family (128)
  BufSize,      \* size of the buffer in the context (256)
  DigestSize,   \* size of the digest
  Modulus       \* a word of digcnt counts modulo this (2^64)

ASSUME HaceAssumption ==
  /\ Lens \subseteq 0 .. Modulus - 1
  /\ MaxUpdates \in Nat /\ MaxOps \in Nat
  /\ Apis \subseteq {"owned", "scoped", "mac"}
  /\ SmallBlock \in Nat /\ LargeBlock \in Nat
  /\ BufSize \in Nat
  /\ BufSize >= 2 * SmallBlock /\ BufSize >= 2 * LargeBlock
  /\ BufSize % SmallBlock = 0 /\ BufSize % LargeBlock = 0
  /\ DigestSize \in Nat
  /\ DigestSize + 1 < SmallBlock /\ DigestSize + 2 < LargeBlock
  /\ Modulus \in Nat /\ Modulus % 8 = 0 /\ Modulus > BufSize

VARIABLES
  pc,        \* "idle", "open", "done" or "panic"
  op,        \* number of the operation
  api, algo, \* its interface and its family of algorithms
  nupd,      \* its updates so far
  msg,       \* history: the message, all its updates
  use_sg,    \* is HACE_SG_EN set in the method?
  buffer, bufcnt,
  digcnt,    \* the message length, least significant word first
  sg,        \* the scatter list
  digest,    \* initial value and what was fed since
  inner,     \* history: what the inner digest of a MAC was computed from
  out        \* the result of finalize

ctxVars == <<use_sg, buffer, bufcnt, digcnt, sg, digest>>
vars    == <<pc, op, api, algo, nupd, msg, ctxVars, inner, out>>

Cell == [tag : {"msg", "zero", "one", "len", "iv", "ipad", "opad", "inner",
                "stray"},
         op : Nat, n : Nat]

Named(tag) == [tag |-> tag, op |-> 0, n |-> 0]
Zero == Named("zero")

Algo == {"small", "large"}
block_size == IF algo = "small" THEN SmallBlock ELSE LargeBlock

(* The words of the length in the padding, one cell each.                  *)
LenCells == IF algo = "small" THEN 1 ELSE 2
LenCell(w) == [tag |-> "len", op |-> 0, n |-> w]

Fill(c, n) == [i \in 1 .. n |-> c]

(* The first n cells of the buffer, and the buffer with s written at k.    *)
Held(b, n) == [i \in 1 .. n |-> b[i - 1]]
Stored(b, k, s) ==
  [i \in 0 .. BufSize - 1 |-> IF k <= i /\ i < k + Len(s) THEN s[i - k + 1] ELSE b[i]]

-----------------------------------------------------------------------------
(* start_hash_operation (the engine is external): the engine takes len     *)
(* bytes from the buffer, or from the entries of the scatter list up to    *)
(* the one marked last. An entry that points into an input the caller has  *)
(* taken back, or a list shorter than len, gives stray bytes.              *)
Source(b, input, e) ==
  IF e.src = "buffer" THEN Held(b, e.len)
  ELSE IF e.len <= Len(input) THEN SubSeq(input, 1, e.len)
  ELSE Fill(Named("stray"), e.len)

Gathered(b, input, list) ==
  IF list[1].last THEN Source(b, input, list[1])
  ELSE Source(b, input, list[1]) \o Source(b, input, list[2])

Fetched(sgen, b, input, list, len) ==
  LET bytes == IF sgen THEN Gathered(b, input, list) ELSE Held(b, len) IN
  IF Len(bytes) >= len THEN SubSeq(bytes, 1, len) ELSE Fill(Named("stray"), len)

(* Mutant: a length that just fits is taken for one that needs no one.     *)
MutPadLen(cnt) ==
  LET index == cnt % block_size
      room  == block_size - LenCells IN
  IF index <= room THEN room - index ELSE block_size + room - index

(* fill_padding: how many cells it adds before the length, and the buffer  *)
(* it leaves, for a context with this buffer, count and length.            *)
PadLen(cnt) ==
  LET index == cnt % block_size
      room  == block_size - LenCells IN
  IF index < room THEN room - index ELSE block_size + room - index

Padding(cnt, dig) ==
  LET low  == (dig[1] * 8) % Modulus
      high == ((dig[2] * 8) % Modulus) + dig[1] \div (Modulus \div 8) IN
  <<Named("one")>> \o Fill(Zero, PadLen(cnt) - 1)
    \o IF algo = "small" THEN <<LenCell(low)>>
       ELSE <<LenCell(high), LenCell(low)>>

(* Mutant: the padding does not take the unfinished block into account.    *)
MutPaddedCount(cnt) == cnt + block_size + LenCells

PaddedCount(cnt) == cnt + PadLen(cnt) + LenCells

-----------------------------------------------------------------------------
(* init of the three interfaces. A scoped or a MAC operation may be        *)
(* dropped half-way, which leaves the context as it is; an owned one has   *)
(* to be finished or cancelled, to give back the controller.               *)
Dropped == pc = "open" /\ api # "owned"

InitOp(i, a) ==
  /\ pc \in {"idle", "done"} \/ Dropped
  /\ op < MaxOps
  /\ op' = op + 1 /\ api' = i /\ algo' = a /\ nupd' = 0
  /\ pc' = "open"
  /\ msg' = << >> /\ inner' = << >> /\ out' = << >>

FreshContext ==
  /\ use_sg' = TRUE
  /\ digest' = <<Named("iv")>>
  /\ bufcnt' = 0
  /\ digcnt' = <<0, 0>>
  /\ UNCHANGED <<buffer, sg>>

HashInit(i, a) == InitOp(i, a) /\ FreshContext

MacInit(a) ==
  /\ InitOp("mac", a)
  /\ use_sg' = TRUE
  /\ digest' = <<Zero>>
  /\ bufcnt' = 0
  /\ digcnt' = <<0, 0>>
  /\ buffer' = [i \in 0 .. BufSize - 1 |-> Zero]
  /\ UNCHANGED sg

(* The next input of n bytes of this operation.                            *)
Input(n) ==
  [i \in 1 .. n |-> [tag |-> "msg", op |-> op, n |-> Len(msg) + i]]

(* overflowing_add on the low word of digcnt.                              *)
Counted(n) ==
  LET sum == digcnt[1] + n IN
  IF sum >= Modulus THEN <<sum % Modulus, digcnt[2] + 1>>
  ELSE <<sum, digcnt[2]>>

(* Mutant: the entry of the buffer is marked last too.                     *)
MutUpdateSg(total) ==
  IF bufcnt = 0 THEN [sg EXCEPT ![1] = [src |-> "input", len |-> total, last |-> TRUE]]
  ELSE <<[src |-> "buffer", len |-> bufcnt, last |-> TRUE],
         [src |-> "input", len |-> total - bufcnt, last |-> TRUE]>>

(* The scatter list of update: the buffer, if it holds anything, and the   *)
(* input up to the last whole block. (total is never bufcnt, which is less *)
(* than a block.)                                                          *)
UpdateSg(total) ==
  IF bufcnt = 0 THEN [sg EXCEPT ![1] = [src |-> "input", len |-> total, last |-> TRUE]]
  ELSE <<[src |-> "buffer", len |-> bufcnt, last |-> FALSE],
         [src |-> "input", len |-> total - bufcnt, last |-> TRUE]>>

(* The count after whole blocks were hashed: the owned interface clears    *)
(* it, the scoped one only overwrites it when bytes remain.                *)
CountAfter(remaining) ==
  IF remaining # 0 \/ api = "owned" THEN remaining ELSE bufcnt

(* An update that does not complete a block is held back; any other feeds  *)
(* the engine and holds back what remains.                                 *)
Hold(input) ==
  /\ bufcnt + Len(input) < block_size
  /\ buffer' = Stored(buffer, bufcnt, input)
  /\ bufcnt' = bufcnt + Len(input)
  /\ UNCHANGED <<use_sg, sg, digest>>

Feed(input) ==
  LET all       == bufcnt + Len(input)
      remaining == all % block_size
      total     == all - remaining
      start     == total - bufcnt
  IN
  /\ all >= block_size
  /\ sg' = UpdateSg(total)
  /\ digest' = digest \o Fetched(use_sg, buffer, input, sg', total)
  /\ buffer' = Stored(buffer, 0, SubSeq(input, start + 1, start + remaining))
  /\ bufcnt' = CountAfter(remaining)
  /\ UNCHANGED use_sg

HashUpdate(n) ==
  /\ pc = "open" /\ api # "mac" /\ nupd < MaxUpdates
  /\ nupd' = nupd + 1
  /\ msg' = msg \o Input(n)
  /\ digcnt' = Counted(n)
  /\ Hold(Input(n)) \/ Feed(Input(n))
  /\ UNCHANGED <<pc, op, api, algo, inner, out>>

(* cleanup_context.                                                        *)
Cleanup ==
  /\ bufcnt' = 0
  /\ buffer' = [i \in 0 .. BufSize - 1 |-> Zero]
  /\ digest' = <<Zero>>
  /\ digcnt' = <<0, 0>>

(* finalize: pads in the buffer, hashes it, returns the digest and cleans  *)
(* up. Padding beyond the end of the buffer would be a panic.              *)
HashFinalize ==
  LET buf == Stored(buffer, bufcnt, Padding(bufcnt, digcnt))
      len == PaddedCount(bufcnt) IN
  /\ pc = "open" /\ api # "mac"
  /\ IF len > BufSize
     THEN /\ pc' = "panic"
          /\ UNCHANGED <<ctxVars, out>>
     ELSE /\ pc' = "done"
          /\ sg' = [sg EXCEPT ![1] = [src |-> "buffer", len |-> len, last |-> TRUE]]
          /\ out' = digest \o Fetched(use_sg, buf, << >>, sg', len)
          /\ Cleanup
          /\ UNCHANGED use_sg
  /\ UNCHANGED <<op, api, algo, nupd, msg, inner>>

Cancel ==
  /\ pc = "open" /\ api = "owned"
  /\ pc' = "idle"
  /\ Cleanup
  /\ UNCHANGED <<op, api, algo, nupd, msg, use_sg, sg, inner, out>>

-----------------------------------------------------------------------------
(* MAC. The key enters through the pads. update hashes the inner and the   *)
(* outer message, each in one piece, without the scatter list and from the *)
(* initial value; a message that does not fit the buffer with its padding  *)
(* is a slice out of range.                                                *)
MacPiece(buf, cells) ==
  Stored(buf, 0, cells \o Padding(Len(cells), <<Len(cells), digcnt[2]>>))

(* Mutant: the outer hash goes on from the state of the inner one.         *)
MutMacHash(buf, cells) ==
  digest \o Fetched(FALSE, MacPiece(buf, cells), << >>, sg, PaddedCount(Len(cells)))

MacHash(buf, cells) ==
  <<Named("iv")>>
    \o Fetched(FALSE, MacPiece(buf, cells), << >>, sg, PaddedCount(Len(cells)))

Pads(tag) == Fill(Named(tag), block_size)

MacUpdate(n) ==
  LET first  == Pads("ipad") \o Input(n)
      second == Pads("opad") \o Fill(Named("inner"), DigestSize)
      middle == MacPiece(buffer, first)
  IN
  /\ pc = "open" /\ api = "mac" /\ nupd < MaxUpdates
  /\ nupd' = nupd + 1
  /\ msg' = msg \o Input(n)
  /\ use_sg' = FALSE
  /\ IF PaddedCount(Len(first)) > BufSize
     THEN /\ pc' = "panic"
          /\ UNCHANGED <<buffer, bufcnt, digcnt, digest, inner>>
     ELSE /\ inner' = MacHash(buffer, first)
          /\ digest' = MacHash(middle, second)
          /\ buffer' = MacPiece(middle, second)
          /\ bufcnt' = PaddedCount(Len(second))
          /\ digcnt' = <<Len(second), digcnt[2]>>
          /\ UNCHANGED pc
  /\ UNCHANGED <<op, api, algo, sg, out>>

MacFinalize ==
  /\ pc = "open" /\ api = "mac"
  /\ pc' = "done"
  /\ out' = digest
  /\ Cleanup
  /\ UNCHANGED <<op, api, algo, nupd, msg, use_sg, sg, inner>>

-----------------------------------------------------------------------------
Init ==
  /\ pc = "idle" /\ op = 0
  /\ api \in Apis /\ algo \in Algo
  /\ nupd = 0
  /\ msg = << >> /\ inner = << >> /\ out = << >>
  /\ use_sg = FALSE
  /\ buffer = [i \in 0 .. BufSize - 1 |-> Zero] /\ bufcnt = 0
  /\ digcnt = <<0, 0>>
  /\ sg = Fill([src |-> "buffer", len |-> 0, last |-> FALSE], 2)
  /\ digest = <<Zero>>

(* The bounds are used up, or a panic stopped the core.                    *)
Stopped ==
  /\ pc = "panic" \/ (pc \in {"idle", "done"} /\ op = MaxOps)
  /\ UNCHANGED vars

Next ==
  \/ \E i \in Apis \ {"mac"}, a \in Algo : HashInit(i, a)
  \/ "mac" \in Apis /\ \E a \in Algo : MacInit(a)
  \/ \E n \in Lens : HashUpdate(n) \/ MacUpdate(n)
  \/ HashFinalize \/ MacFinalize \/ Cancel \/ Stopped

Spec == Init /\ [][Next]_vars

-----------------------------------------------------------------------------
(* Properties.                                                             *)

(* Every variable stays in its type.                                       *)
SgEntry == [src : {"buffer", "input"}, len : Nat, last : BOOLEAN]

TypeOK ==
  /\ pc \in {"idle", "open", "done", "panic"}
  /\ op \in 0 .. MaxOps /\ api \in Apis /\ algo \in Algo
  /\ nupd \in 0 .. MaxUpdates
  /\ msg \in Seq(Cell) /\ inner \in Seq(Cell) /\ out \in Seq(Cell)
  /\ use_sg \in BOOLEAN
  /\ buffer \in [0 .. BufSize - 1 -> Cell] /\ bufcnt \in 0 .. BufSize
  /\ digcnt[1] \in 0 .. Modulus - 1 /\ digcnt[2] \in Nat
  /\ sg \in [1 .. 2 -> SgEntry]
  /\ digest \in Seq(Cell)

(* What a digest is computed from, by definition: the message, a one, the  *)
(* fewest zeros that make whole blocks, and the length in bits in one or   *)
(* two words.                                                              *)
Padded(m) ==
  LET bits  == 8 * Len(m)
      over  == (Len(m) + 1 + LenCells) % block_size
      zeros == (block_size - over) % block_size
  IN
  m \o <<Named("one")>> \o Fill(Zero, zeros)
    \o IF algo = "small" THEN <<LenCell(bits % Modulus)>>
       ELSE <<LenCell((bits \div Modulus) % Modulus), LenCell(bits % Modulus)>>

(* At every moment of a digest of the owned interface, what the engine was *)
(* fed and what the driver holds back are, together, the message so far:   *)
(* nothing twice, nothing lost, nothing from an operation before, of       *)
(* whatever interface, finished or dropped.                                *)
StreamIntact ==
  (pc = "open" /\ api = "owned") =>
    /\ bufcnt < block_size
    /\ digest \o Held(buffer, bufcnt) = <<Named("iv")>> \o msg

DigestBy(i) ==
  (pc = "done" /\ api = i) => out = <<Named("iv")>> \o Padded(msg)

(* The digest of the owned interface is that of the message, however it    *)
(* was cut into updates.                                                   *)
OwnedDigest == DigestBy("owned")

(* The same of the scoped interface. It fails: when an input ends on a     *)
(* block boundary, update leaves the count of held bytes as it was, and    *)
(* the next update or finalize hashes those bytes again.                   *)
ScopedDigest == DigestBy("scoped")

(* The MAC of a message passed in one update is the nested hash of the     *)
(* definition, whatever operation used the context before.                 *)
MacOfMessage ==
  (pc = "done" /\ api = "mac" /\ nupd = 1) =>
    /\ inner = <<Named("iv")>> \o Padded(Pads("ipad") \o msg)
    /\ out = <<Named("iv")>>
               \o Padded(Pads("opad") \o Fill(Named("inner"), DigestSize))

(* A digest never overruns the buffer, and a MAC only if its message and   *)
(* the padding do not fit.                                                 *)
OnlyLongMacsPanic ==
  pc = "panic" => api = "mac" /\ block_size + Len(msg) + 1 + LenCells > BufSize

=============================================================================
