----------------------------- MODULE BaseAnswer -----------------------------
(***************************************************************************)
(* The base answer record of the system configuration area, byte by byte:  *)
(* SBC_BaseAnswerEncryptStore and _baseanswer_store read the whole area,   *)
(* put the record over the old one and write all blocks back;              *)
(* _baseanswer_extract_from_disk and SBC_BaseAnswerValidate read it.       *)
(* WriteBlocks is atomic for a block and not for the area: power may go,   *)
(* or the device give up, after any of the blocks, in any order.  The boot *)
(* chain takes a store as one step on "ans", the one of AnswerCell, which  *)
(* this module implements.                                                 *)
(***************************************************************************)
EXTENDS Naturals

CONSTANTS
  Blocks,       \* blocks of the area
  AnswerLens,   \* banswlen of the FSBL.efi files that may be installed
  Keys,         \* keys an answer may be sealed with
  MaxStores     \* stores in a behaviour

BLK == 512

(* Mutant: the record begins near the end of the first block. *)
SYS_CONF_RES_OFS_Late == 500

SYS_CONF_RES_OFS == 64
SYS_CONF_ROOT_CA_OFS == 128
LEN_SZ == 4                     \* sizeof h->msglen
BASE_ANS_IV_KEY_STR == 12
BASE_ANS_TAG_LEN == 16
SYS_PRES_RESERVED == 16

(* What the slot between the record's offset and the root certificate has  *)
(* room for, and the length of the answer that fw_sign.py signs.           *)
BASE_ANSW_DEFLEN == 16

(* banswlen is a byte that the loaders take as it is; a longer answer than *)
(* the slot's still leaves the record in the first block.  There is an     *)
(* answer: a record of length zero reads as none.                          *)
MAX_BANSWLEN == 255
ASSUME LenAssumption ==
  \A len \in AnswerLens : len \in Nat /\ len > 0 /\ len <= MAX_BANSWLEN
ASSUME BlocksAssumption == Blocks \in Nat \ {0} /\ MaxStores \in Nat

Offsets == 0 .. BLK * Blocks - 1
BlockOf(x) == x \div BLK
Slot == SYS_CONF_RES_OFS .. SYS_CONF_ROOT_CA_OFS - 1

(* An answer sealed by the n-th store. *)
Sealed == [n : 1 .. MaxStores, key : Keys, len : AnswerLens]

(* A byte: zero, some byte of the rest of the area, byte i of the length   *)
(* word, or byte i of a field of a sealed answer (cipher text, IV, tag).   *)
ZERO == [f |-> "zero"]
Other(x) == [f |-> "other", i |-> x]
LenByte(len, i) == [f |-> "len", len |-> len, i |-> i]
Byte(s, field, i) == [f |-> field, s |-> s, i |-> i]

VARIABLES
  conf,    \* the area on the device
  buf,     \* loadbuf
  todo,    \* blocks of loadbuf not yet written
  old,     \* the answer stored before the current store, {} if none
  new,     \* the answer stored last, or being stored, {} if none
  stores,
  lens     \* lengths of the answers that have reached the device

vars == <<conf, buf, todo, old, new, stores, lens>>

(* What rawprt.py leaves: the slot empty. *)
EmptyConf == [x \in Offsets |-> IF x \in Slot THEN ZERO ELSE Other(x)]

Init ==
  /\ conf = EmptyConf /\ buf = EmptyConf /\ todo = {}
  /\ old = {} /\ new = {} /\ stores = 0 /\ lens = {}

-----------------------------------------------------------------------------
(* Where the fields of a record with a message of len bytes begin. *)
MsgOfs == SYS_CONF_RES_OFS + LEN_SZ
IvOfs(len) == MsgOfs + len

(* Mutant: room is left for a message of any length. *)
TagOfs_Fixed(len) == MsgOfs + 256 + BASE_ANS_IV_KEY_STR

TagOfs(len) == IvOfs(len) + BASE_ANS_IV_KEY_STR
ResOfs(len) == TagOfs(len) + BASE_ANS_TAG_LEN
EndOfs(len) == ResOfs(len) + SYS_PRES_RESERVED

(* The area with the record of s over what was there: length, encrypted    *)
(* message, IV, tag, sixteen zeros.                                        *)
Filled(area, s) ==
  [x \in Offsets |->
     IF x < SYS_CONF_RES_OFS \/ x >= EndOfs(s.len) THEN area[x]
     ELSE IF x < MsgOfs THEN LenByte(s.len, x - SYS_CONF_RES_OFS)
     ELSE IF x < IvOfs(s.len) THEN Byte(s, "msg", x - MsgOfs)
     ELSE IF x < TagOfs(s.len) THEN Byte(s, "iv", x - IvOfs(s.len))
     ELSE IF x < ResOfs(s.len) THEN Byte(s, "tag", x - TagOfs(s.len))
     ELSE ZERO]

(* Mutant: the aligned length is a block too long. *)
Store_Long(s) ==
  /\ todo = {}
  /\ s.n = stores + 1 /\ stores' = s.n
  /\ buf' = Filled(conf, s)
  /\ todo' = 0 .. Blocks
  /\ old' = new /\ new' = {s}
  /\ UNCHANGED <<conf, lens>>

(* Encrypt, read the area, fill in the record: ready to write. *)
Store(s) ==
  /\ todo = {}
  /\ s.n = stores + 1 /\ stores' = s.n
  /\ buf' = Filled(conf, s)
  /\ todo' = 0 .. Blocks - 1
  /\ old' = new /\ new' = {s}
  /\ UNCHANGED <<conf, lens>>

(* A block reaches the device. *)
WriteBlock(b) ==
  /\ b \in todo
  /\ conf' = [x \in Offsets |-> IF BlockOf(x) = b THEN buf[x] ELSE conf[x]]
  /\ todo' = todo \ {b}
  /\ lens' = IF b = 0 THEN lens \cup {s.len : s \in new} ELSE lens
  /\ UNCHANGED <<buf, old, new, stores>>

(* The write fails or the power goes: the other blocks stay as they were.  *)
(* What the device holds is then the answer stored before or the new one.  *)
GiveUp ==
  /\ todo # {}
  /\ todo' = {}
  /\ IF 0 \in todo THEN new' = old ELSE UNCHANGED new
  /\ UNCHANGED <<conf, buf, old, stores, lens>>

Next ==
  \/ \E s \in Sealed : Store(s)
  \/ \E b \in 0 .. Blocks - 1 : WriteBlock(b)
  \/ GiveUp

Spec == Init /\ [][Next]_vars

-----------------------------------------------------------------------------
(* _baseanswer_extract_from_disk: the length word decides where the other  *)
(* fields are read; a length of zero is "Base Answer Not Found".           *)
ExtractLen(area) ==
  IF \E len \in AnswerLens :
       \A i \in 0 .. LEN_SZ - 1 : area[SYS_CONF_RES_OFS + i] = LenByte(len, i)
  THEN area[SYS_CONF_RES_OFS].len ELSE 0

(* Mutant: the reader skips the length word twice. *)
Holds_Skewed(area, s) ==
  /\ ExtractLen(area) = s.len
  /\ \A i \in 0 .. s.len - 1 : area[MsgOfs + LEN_SZ + i] = Byte(s, "msg", i)

(* SBC_BaseAnswerValidate of what was extracted: AES-GCM opens a message   *)
(* with the IV and the tag made for it, under its key, and nothing else.   *)
Holds(area, s) ==
  LET len == ExtractLen(area) IN
  /\ len = s.len
  /\ \A i \in 0 .. len - 1 : area[MsgOfs + i] = Byte(s, "msg", i)
  /\ \A i \in 0 .. BASE_ANS_IV_KEY_STR - 1 : area[IvOfs(len) + i] = Byte(s, "iv", i)
  /\ \A i \in 0 .. BASE_ANS_TAG_LEN - 1 : area[TagOfs(len) + i] = Byte(s, "tag", i)

(* Types of the store. *)
TypeOK ==
  /\ todo \subseteq 0 .. Blocks - 1
  /\ old \in SUBSET Sealed /\ new \in SUBSET Sealed
  /\ stores \in 0 .. MaxStores
  /\ lens \subseteq AnswerLens
  /\ DOMAIN conf = Offsets /\ DOMAIN buf = Offsets

(* However a store ends, the device holds a whole record, the last one or  *)
(* the one before, and while blocks are being written one of the two: no   *)
(* mixture of two records, whatever their lengths, is ever on the device.  *)
Readable ==
  \A s \in new :
    IF 0 \in todo THEN \A r \in old : Holds(conf, r) ELSE Holds(conf, s)

(* The bytes of the root certificate under a record with a message of len  *)
(* bytes: none up to what the slot has room for.                           *)
Spilled(len) == SYS_CONF_ROOT_CA_OFS .. SYS_CONF_ROOT_CA_OFS + len - BASE_ANSW_DEFLEN - 1

(* Outside the slot every store and every torn write leaves each byte as   *)
(* it was, the OS id before it and the certificates behind it, exactly     *)
(* but for what an over-long answer has taken of the root certificate; a   *)
(* shorter answer stored later does not bring that back.                   *)
OnlySpilled(area, ls) ==
  \A x \in Offsets \ Slot : area[x] = Other(x) <=> ~ \E len \in ls : x \in Spilled(len)
RestKept == OnlySpilled(conf, lens)

(* With what is in loadbuf, an inductive form of RestKept. *)
RestInv ==
  /\ RestKept
  /\ 0 \in todo => OnlySpilled(buf, lens \cup {s.len : s \in new})
  /\ \A x \in Offsets : BlockOf(x) # 0 => buf[x] = Other(x)

(* The answers that SBC_BaseAnswerValidate would accept from the device. *)
Cell == INSTANCE AnswerCell WITH cell <- {s \in Sealed : Holds(conf, s)}

(* For a reader of the device a store is atomic although 33 blocks are     *)
(* written: what is there is no answer or one whole answer, it changes     *)
(* from one to the next in a single step, an answer that was there never   *)
(* disappears, and an older one never comes back.                          *)
StoreAtomic == Cell!Spec

=============================================================================
