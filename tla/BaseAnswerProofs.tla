-------------------------- MODULE BaseAnswerProofs --------------------------
(***************************************************************************)
(* Proofs about the base answer record, for every number of blocks, every  *)
(* set of answer lengths a byte can announce and any number of stores.     *)
(***************************************************************************)
EXTENDS BaseAnswer, TLAPS

(* The offsets of the fields as numbers. *)
LEMMA Fields ==
  ASSUME NEW len \in Nat
  PROVE  /\ SYS_CONF_RES_OFS = 64 /\ LEN_SZ = 4 /\ MsgOfs = 68
         /\ IvOfs(len) = len + 68 /\ TagOfs(len) = len + 80
         /\ ResOfs(len) = len + 96 /\ EndOfs(len) = len + 112
         /\ BASE_ANS_IV_KEY_STR = 12 /\ BASE_ANS_TAG_LEN = 16
BY DEF EndOfs, ResOfs, TagOfs, IvOfs, MsgOfs, SYS_CONF_RES_OFS, LEN_SZ, BASE_ANS_IV_KEY_STR,
       BASE_ANS_TAG_LEN, SYS_PRES_RESERVED

(* The length of an answer. *)
LEMMA SealedFacts ==
  \A s \in Sealed : s.len \in Nat /\ s.len > 0 /\ s.len <= 255 /\ s.len \in AnswerLens
BY LenAssumption DEF LenAssumption, MAX_BANSWLEN, Sealed

(* The rest of the first block. *)
LEMMA BlockFacts ==
  \A x \in 64 .. 511 : x \in Offsets /\ BlockOf(x) = 0
<1>1. BLK * Blocks >= 512
  BY BlocksAssumption DEF BlocksAssumption, BLK
<1>2. ASSUME NEW x \in 64 .. 511
      PROVE  x \in Offsets /\ BlockOf(x) = 0
  BY <1>1, BlocksAssumption DEF BlocksAssumption, Offsets, BLK, BlockOf
<1>. QED  BY <1>2

(* The length a reader takes from the length word. *)
LEMMA ExtractedLen ==
  ASSUME NEW area, NEW len \in AnswerLens,
         \A i \in 0 .. LEN_SZ - 1 : area[SYS_CONF_RES_OFS + i] = LenByte(len, i)
  PROVE  ExtractLen(area) = len
<1>1. 0 \in 0 .. LEN_SZ - 1 /\ SYS_CONF_RES_OFS + 0 = SYS_CONF_RES_OFS
  BY DEF LEN_SZ, SYS_CONF_RES_OFS
<1>2. area[SYS_CONF_RES_OFS] = LenByte(len, 0)
  BY <1>1
<1>3. area[SYS_CONF_RES_OFS].len = len
  BY <1>2 DEF LenByte
<1>. QED  BY <1>3 DEF ExtractLen

(* A record just filled in reads back. *)
LEMMA FilledHolds ==
  ASSUME NEW area, NEW s \in Sealed
  PROVE  Holds(Filled(area, s), s)
<1>1. s.len \in Nat /\ s.len > 0 /\ s.len <= 255 /\ s.len \in AnswerLens
  BY SealedFacts
<1>0. /\ MsgOfs = 68 /\ IvOfs(s.len) = s.len + 68 /\ TagOfs(s.len) = s.len + 80
      /\ ResOfs(s.len) = s.len + 96 /\ EndOfs(s.len) = s.len + 112
      /\ SYS_CONF_RES_OFS = 64 /\ BASE_ANS_IV_KEY_STR = 12 /\ BASE_ANS_TAG_LEN = 16
  BY <1>1, Fields
<1>2. \A x \in 64 .. 511 : x \in Offsets
  BY BlockFacts
<1>3. ASSUME NEW i \in 0 .. LEN_SZ - 1
      PROVE  Filled(area, s)[SYS_CONF_RES_OFS + i] = LenByte(s.len, i)
  <2>0. i \in Nat /\ i < 4
    BY DEF LEN_SZ
  <2>1. PICK x \in Nat : x = SYS_CONF_RES_OFS + i
    BY <1>0, <2>0
  <2>2. /\ x \in 64 .. 511 /\ x - SYS_CONF_RES_OFS = i /\ x < MsgOfs
        /\ ~(x < SYS_CONF_RES_OFS) /\ ~(x >= EndOfs(s.len))
    BY <1>0, <1>1, <2>0, <2>1
  <2>3. x \in Offsets
    BY <1>2, <2>2
  <2>4. Filled(area, s)[x] = LenByte(s.len, x - SYS_CONF_RES_OFS)
    BY <2>2, <2>3, Zenon DEF Filled
  <2>. QED  BY <2>1, <2>2, <2>4
<1>4. ExtractLen(Filled(area, s)) = s.len
  BY <1>1, <1>3, ExtractedLen
<1>5. ASSUME NEW i \in 0 .. s.len - 1
      PROVE  Filled(area, s)[MsgOfs + i] = Byte(s, "msg", i)
  <2>1. MsgOfs + i \in 64 .. 511 /\ MsgOfs + i - MsgOfs = i
    BY <1>0, <1>1
  <2>2. MsgOfs + i \in Offsets
    BY <1>2, <2>1
  <2>. QED  BY <1>0, <1>1, <2>1, <2>2 DEF Filled
<1>6. ASSUME NEW i \in 0 .. BASE_ANS_IV_KEY_STR - 1
      PROVE  Filled(area, s)[IvOfs(s.len) + i] = Byte(s, "iv", i)
  <2>0. i \in Nat /\ i < 12
    BY <1>0
  <2>1. PICK x \in Nat : x = IvOfs(s.len) + i
    BY <1>0, <1>1, <2>0
  <2>2. x \in 64 .. 511 /\ x - IvOfs(s.len) = i /\ x < TagOfs(s.len)
    BY <1>0, <1>1, <2>0, <2>1
  <2>3. /\ ~(x < SYS_CONF_RES_OFS) /\ ~(x < MsgOfs) /\ ~(x < IvOfs(s.len))
        /\ ~(x < IvOfs(s.len)) /\ ~(x >= EndOfs(s.len))
    BY <1>0, <1>1, <2>0, <2>1
  <2>4. x \in Offsets
    BY <1>2, <2>2
  <2>5. Filled(area, s)[x] = Byte(s, "iv", x - IvOfs(s.len))
    BY <2>2, <2>3, <2>4, Zenon DEF Filled
  <2>. QED  BY <2>1, <2>2, <2>5
<1>7. ASSUME NEW i \in 0 .. BASE_ANS_TAG_LEN - 1
      PROVE  Filled(area, s)[TagOfs(s.len) + i] = Byte(s, "tag", i)
  <2>0. i \in Nat /\ i < 16
    BY <1>0
  <2>1. PICK x \in Nat : x = TagOfs(s.len) + i
    BY <1>0, <1>1, <2>0
  <2>2. x \in 64 .. 511 /\ x - TagOfs(s.len) = i /\ x < ResOfs(s.len)
    BY <1>0, <1>1, <2>0, <2>1
  <2>3. /\ ~(x < SYS_CONF_RES_OFS) /\ ~(x < MsgOfs) /\ ~(x < IvOfs(s.len))
        /\ ~(x < TagOfs(s.len)) /\ ~(x >= EndOfs(s.len))
    BY <1>0, <1>1, <2>0, <2>1
  <2>4. x \in Offsets
    BY <1>2, <2>2
  <2>5. Filled(area, s)[x] = Byte(s, "tag", x - TagOfs(s.len))
    BY <2>2, <2>3, <2>4, Zenon DEF Filled
  <2>. QED  BY <2>1, <2>2, <2>5
<1>. QED  BY <1>4, <1>5, <1>6, <1>7 DEF Holds

(* What is read depends on the first block only. *)
LEMMA HoldsLocal ==
  ASSUME NEW a, NEW b, NEW s \in Sealed, \A x \in 64 .. 511 : a[x] = b[x]
  PROVE  Holds(a, s) <=> Holds(b, s)
<1>1. s.len \in Nat /\ s.len > 0 /\ s.len <= 255
  BY SealedFacts
<1>0. /\ MsgOfs = 68 /\ IvOfs(s.len) = s.len + 68 /\ TagOfs(s.len) = s.len + 80
      /\ ResOfs(s.len) = s.len + 96 /\ EndOfs(s.len) = s.len + 112
      /\ SYS_CONF_RES_OFS = 64 /\ BASE_ANS_IV_KEY_STR = 12 /\ BASE_ANS_TAG_LEN = 16
  BY <1>1, Fields
<1>2. \A i \in 0 .. LEN_SZ - 1 : a[SYS_CONF_RES_OFS + i] = b[SYS_CONF_RES_OFS + i]
  BY DEF LEN_SZ, SYS_CONF_RES_OFS
<1>3. a[SYS_CONF_RES_OFS] = b[SYS_CONF_RES_OFS]
  BY DEF SYS_CONF_RES_OFS
<1>4. ExtractLen(a) = ExtractLen(b)
  BY <1>2, <1>3 DEF ExtractLen
<1>5. \A i \in 0 .. s.len - 1 : a[MsgOfs + i] = b[MsgOfs + i]
  BY <1>0, <1>1
<1>6. ASSUME NEW i \in 0 .. BASE_ANS_IV_KEY_STR - 1
      PROVE  a[IvOfs(s.len) + i] = b[IvOfs(s.len) + i]
  <2>0. i \in Nat /\ i < 12
    BY <1>0
  <2>1. PICK x \in Nat : x = IvOfs(s.len) + i
    BY <1>0, <1>1, <2>0
  <2>2. x \in 64 .. 511
    BY <1>0, <1>1, <2>0, <2>1
  <2>. QED  BY <2>1, <2>2
<1>7. ASSUME NEW i \in 0 .. BASE_ANS_TAG_LEN - 1
      PROVE  a[TagOfs(s.len) + i] = b[TagOfs(s.len) + i]
  <2>0. i \in Nat /\ i < 16
    BY <1>0
  <2>1. PICK x \in Nat : x = TagOfs(s.len) + i
    BY <1>0, <1>1, <2>0
  <2>2. x = s.len + 80 + i
    BY <1>0, <2>1
  <2>3. x \in 64 .. 511
    BY <1>1, <2>0, <2>2
  <2>. QED  BY <2>1, <2>3
<1>. QED  BY <1>4, <1>5, <1>6, <1>7 DEF Holds

(* A device holds at most one answer. *)
LEMMA HoldsUnique ==
  ASSUME NEW area, NEW s \in Sealed, NEW r \in Sealed, Holds(area, s), Holds(area, r)
  PROVE  s = r
<1>1. s.len > 0 /\ r.len > 0 /\ s.len \in Nat /\ r.len \in Nat
  BY SealedFacts
<1>2. 0 \in 0 .. s.len - 1 /\ 0 \in 0 .. r.len - 1
  BY <1>1
<1>3. area[MsgOfs + 0] = Byte(s, "msg", 0) /\ area[MsgOfs + 0] = Byte(r, "msg", 0)
  BY <1>2 DEF Holds
<1>4. Byte(s, "msg", 0).s = s /\ Byte(r, "msg", 0).s = r
  BY DEF Byte
<1>. QED  BY <1>3, <1>4

(* What rawprt.py leaves holds none. *)
LEMMA EmptyHolds ==
  ASSUME NEW s \in Sealed
  PROVE  ~Holds(EmptyConf, s)
<1>1. 64 \in Offsets /\ 64 \in Slot
  BY BlockFacts DEF Slot, SYS_CONF_RES_OFS, SYS_CONF_ROOT_CA_OFS
<1>2. EmptyConf[64] = ZERO
  BY <1>1 DEF EmptyConf
<1>3. \A len \in AnswerLens : ZERO # LenByte(len, 0)
  BY DEF ZERO, LenByte
<1>4. 0 \in 0 .. LEN_SZ - 1 /\ SYS_CONF_RES_OFS + 0 = 64
  BY DEF LEN_SZ, SYS_CONF_RES_OFS
<1>5. ExtractLen(EmptyConf) = 0
  BY <1>2, <1>3, <1>4 DEF ExtractLen
<1>6. s.len > 0 /\ s.len \in Nat
  BY SealedFacts
<1>. QED  BY <1>5, <1>6 DEF Holds

(* Every step keeps the types. *)
LEMMA TypeStep ==
  /\ Init => TypeOK
  /\ TypeOK /\ [Next]_vars => TypeOK'
<1>. USE DEF TypeOK
<1>1. Init => TypeOK
  BY BlocksAssumption DEF Init, EmptyConf, BlocksAssumption
<1>2. ASSUME TypeOK, [Next]_vars
      PROVE  TypeOK'
  <2>1. ASSUME NEW s \in Sealed, Store(s)
        PROVE  TypeOK'
    <3>1. s.n \in 0 .. MaxStores
      BY BlocksAssumption DEF Sealed, BlocksAssumption
    <3>. QED  BY <1>2, <2>1, <3>1 DEF Store, Filled
  <2>2. ASSUME NEW b \in 0 .. Blocks - 1, WriteBlock(b)
        PROVE  TypeOK'
    <3>1. \A s \in new : s.len \in AnswerLens BY <1>2 DEF Sealed
    <3>. QED  BY <1>2, <2>2, <3>1 DEF WriteBlock
  <2>3. CASE GiveUp
    BY <1>2, <2>3 DEF GiveUp
  <2>4. CASE UNCHANGED vars
    BY <1>2, <2>4 DEF vars
  <2>5. QED BY <1>2, <2>1, <2>2, <2>3, <2>4 DEF Next
<1>3. QED BY <1>1, <1>2

-----------------------------------------------------------------------------
(* The bytes outside the slot. *)

(* Filling in a record changes what it covers and nothing else. *)
LEMMA FilledSpills ==
  ASSUME NEW area, NEW s \in Sealed, NEW x \in Offsets \ Slot
  PROVE  /\ x \in Spilled(s.len) => Filled(area, s)[x] # Other(x)
         /\ x \notin Spilled(s.len) => Filled(area, s)[x] = area[x]
<1>1. s.len \in Nat /\ s.len > 0 /\ s.len <= 255
  BY SealedFacts
<1>2. x \in Offsets /\ x \in Nat /\ (x < 64 \/ x >= 128)
  BY BlocksAssumption
  DEF BlocksAssumption, Offsets, BLK, Slot, SYS_CONF_RES_OFS, SYS_CONF_ROOT_CA_OFS
<1>3. /\ SYS_CONF_RES_OFS = 64 /\ MsgOfs = 68 /\ IvOfs(s.len) = s.len + 68 /\ TagOfs(s.len) = s.len + 80
      /\ ResOfs(s.len) = s.len + 96 /\ EndOfs(s.len) = s.len + 112
  BY <1>1, Fields
<1>4. x \in Spilled(s.len) <=> x >= 128 /\ x < EndOfs(s.len)
  BY <1>1, <1>2, <1>3 DEF Spilled, SYS_CONF_ROOT_CA_OFS, BASE_ANSW_DEFLEN
<1>5. ASSUME x \notin Spilled(s.len) PROVE Filled(area, s)[x] = area[x]
  <2>1. x < SYS_CONF_RES_OFS \/ x >= EndOfs(s.len) BY <1>1, <1>2, <1>3, <1>4, <1>5
  <2>2. QED BY <1>2, <2>1, Zenon DEF Filled
<1>6. ASSUME x \in Spilled(s.len) PROVE Filled(area, s)[x] # Other(x)
  <2>1. ~ (x < SYS_CONF_RES_OFS) /\ ~ (x >= EndOfs(s.len)) /\ ~ (x < MsgOfs)
    BY <1>1, <1>2, <1>3, <1>4, <1>6
  <2>2. \/ Filled(area, s)[x] = Byte(s, "msg", x - MsgOfs)
        \/ Filled(area, s)[x] = Byte(s, "iv", x - IvOfs(s.len))
        \/ Filled(area, s)[x] = Byte(s, "tag", x - TagOfs(s.len))
        \/ Filled(area, s)[x] = ZERO
    BY <1>2, <2>1, Zenon DEF Filled
  <2>3. \A i : Byte(s, "msg", i).f = "msg" /\ Byte(s, "iv", i).f = "iv" /\ Byte(s, "tag", i).f = "tag"
    BY DEF Byte
  <2>4. ZERO.f = "zero" /\ Other(x).f = "other" BY DEF ZERO, Other
  <2>5. QED BY <2>2, <2>3, <2>4
<1>7. QED BY <1>5, <1>6

(* What one more record makes of an area. *)
LEMMA FilledKeeps ==
  ASSUME NEW area, NEW ls, NEW s \in Sealed, OnlySpilled(area, ls)
  PROVE  OnlySpilled(Filled(area, s), ls \cup {s.len})
BY FilledSpills DEF OnlySpilled

(* A record lies in the first block. *)
LEMMA FirstBlock ==
  ASSUME NEW x \in Offsets, BlockOf(x) # 0
  PROVE  /\ x \in Offsets \ Slot
         /\ \A len \in AnswerLens : x \notin Spilled(len)
<1>1. x \in Nat /\ x >= 512
  BY BlocksAssumption DEF BlocksAssumption, Offsets, BLK, BlockOf
<1>2. x \in Offsets \ Slot
  BY <1>1 DEF Slot, SYS_CONF_RES_OFS, SYS_CONF_ROOT_CA_OFS
<1>3. ASSUME NEW len \in AnswerLens PROVE x \notin Spilled(len)
  <2>1. len \in Nat /\ len <= 255 BY LenAssumption DEF LenAssumption, MAX_BANSWLEN
  <2>2. QED BY <1>1, <2>1 DEF Spilled, SYS_CONF_ROOT_CA_OFS, BASE_ANSW_DEFLEN
<1>4. QED BY <1>2, <1>3

(* Every step keeps the rest of the area, on the device and in loadbuf. *)
LEMMA RestStep ==
  /\ Init => RestInv
  /\ TypeOK /\ RestInv /\ [Next]_vars => RestInv'
<1> USE DEF RestInv, RestKept
<1>1. Init => RestInv
  BY FirstBlock DEF Init, EmptyConf, OnlySpilled
<1>2. ASSUME TypeOK, RestInv, [Next]_vars
      PROVE  RestInv'
  <2>0. ASSUME NEW x \in Offsets, BlockOf(x) # 0
        PROVE  conf[x] = Other(x)
    BY <1>2, <2>0, FirstBlock DEF TypeOK, OnlySpilled
  <2>1. ASSUME NEW s \in Sealed, Store(s)
        PROVE  RestInv'
    <3>1. /\ buf' = Filled(conf, s) /\ new' = {s} /\ UNCHANGED <<conf, lens>>
      BY <2>1 DEF Store
    <3>2. {r.len : r \in new'} = {s.len} BY <3>1
    <3>3. OnlySpilled(buf', lens' \cup {r.len : r \in new'}) BY <1>2, <3>1, <3>2, FilledKeeps
    <3>4. ASSUME NEW x \in Offsets, BlockOf(x) # 0
          PROVE  buf'[x] = Other(x)
      <4>1. s.len \in AnswerLens BY DEF Sealed
      <4>2. x \in Offsets \ Slot /\ x \notin Spilled(s.len) BY <3>4, <4>1, FirstBlock
      <4>3. QED BY <2>0, <3>1, <3>4, <4>2, FilledSpills
    <3>5. QED BY <1>2, <3>1, <3>3, <3>4
  <2>2. ASSUME NEW b \in 0 .. Blocks - 1, WriteBlock(b)
        PROVE  RestInv'
    <3>0. /\ conf' = [x \in Offsets |-> IF BlockOf(x) = b THEN buf[x] ELSE conf[x]]
          /\ UNCHANGED <<buf, new>> /\ b \in todo /\ todo' = todo \ {b}
      BY <2>2 DEF WriteBlock
    <3>1. CASE b = 0
      <4>1. lens' = lens \cup {s.len : s \in new} BY <2>2, <3>1 DEF WriteBlock
      <4>2. \A x \in Offsets : conf'[x] = buf[x] BY <1>2, <2>0, <3>0, <3>1
      <4>3. OnlySpilled(buf, lens') BY <1>2, <3>0, <3>1, <4>1
      <4>4. OnlySpilled(conf', lens') BY <4>2, <4>3 DEF OnlySpilled
      <4>5. QED BY <1>2, <3>0, <3>1, <4>4
    <3>2. CASE b # 0
      <4>1. lens' = lens BY <2>2, <3>2 DEF WriteBlock
      <4>2. \A x \in Offsets : conf'[x] = conf[x] BY <1>2, <2>0, <3>0, <3>2
      <4>3. OnlySpilled(conf', lens') BY <1>2, <4>1, <4>2 DEF OnlySpilled
      <4>4. QED BY <1>2, <3>0, <3>2, <4>1, <4>3
    <3>3. QED BY <3>1, <3>2
  <2>3. CASE GiveUp
    BY <1>2, <2>3 DEF GiveUp
  <2>4. CASE UNCHANGED vars
    BY <1>2, <2>4 DEF vars
  <2>5. QED BY <1>2, <2>1, <2>2, <2>3, <2>4 DEF Next
<1>3. QED BY <1>1, <1>2

(* No store and no torn write of the base answer touches the OS id before  *)
(* the slot or the certificates behind it, but for the start of the root   *)
(* certificate under an answer of more than 16 bytes.                      *)
THEOREM RestSafe == Spec => []RestKept
<1>1. RestInv => RestKept
  BY DEF RestInv
<1>2. QED BY <1>1, RestStep, TypeStep, PTL DEF Spec

-----------------------------------------------------------------------------
(* The answer that is on the device: the old one until the first block is  *)
(* written.                                                                *)
Current == IF 0 \in todo THEN old ELSE new

(* The device holds that answer and no other; the buffer holds a newer one *)
(* while its first block waits.                                            *)
AnswerInv ==
  /\ \A s \in Sealed : Holds(conf, s) <=> s \in Current
  /\ 0 \in todo => \E s \in new : /\ new = {s} /\ Holds(buf, s)
                                   /\ \A r \in old : r.n < s.n
  /\ \A s \in new : s.n <= stores

(* Every step keeps the answer on the device or replaces it by a newer one.*)
LEMMA AnswerStep ==
  ASSUME TypeOK, AnswerInv, [Next]_vars
  PROVE  AnswerInv' /\ (Current' = Current \/ \E s \in Sealed : Current' = {s} /\ \A r \in Current : r.n < s.n)
<1>0. stores \in Nat /\ old \subseteq Sealed /\ new \subseteq Sealed
      /\ \A s \in Sealed : s.n \in Nat
  BY BlocksAssumption DEF TypeOK, Sealed, BlocksAssumption
<1>1. ASSUME NEW s \in Sealed, Store(s)
      PROVE  AnswerInv' /\ Current' = Current
  <2>1. Current = new /\ Current' = new /\ 0 \in todo'
    BY <1>1, BlocksAssumption DEF Store, Current, BlocksAssumption
  <2>2. Holds(buf', s) /\ new' = {s} /\ old' = new /\ stores' = stores + 1 /\ s.n = stores + 1
        /\ conf' = conf
    BY <1>1, FilledHolds DEF Store
  <2>3. \A r \in old' : r.n < s.n
    BY <2>2, <1>0 DEF AnswerInv
  <2>4. \A r \in new' : r.n <= stores'
    BY <2>2, <1>0
  <2>. QED  BY <2>1, <2>2, <2>3, <2>4 DEF AnswerInv
<1>2. ASSUME NEW b \in 0 .. Blocks - 1, WriteBlock(b), b = 0
      PROVE  AnswerInv' /\ \E s \in Sealed : Current' = {s} /\ \A r \in Current : r.n < s.n
  <2>1. 0 \in todo /\ 0 \notin todo' /\ Current = old /\ Current' = new
        /\ UNCHANGED <<buf, old, new, stores>>
    BY <1>2 DEF WriteBlock, Current
  <2>2. PICK s \in new : new = {s} /\ Holds(buf, s) /\ \A r \in old : r.n < s.n
    BY <2>1 DEF AnswerInv
  <2>3. s \in Sealed
    BY <1>0
  <2>4. \A x \in 64 .. 511 : conf'[x] = buf[x]
    BY <1>2, BlockFacts DEF WriteBlock
  <2>5. \A r \in Sealed : Holds(conf', r) <=> Holds(buf, r)
    BY <2>4, HoldsLocal
  <2>6. \A r \in Sealed : Holds(conf', r) <=> r \in Current'
    BY <2>1, <2>2, <2>3, <2>5, HoldsUnique
  <2>. QED  BY <2>1, <2>2, <2>3, <2>6 DEF AnswerInv
<1>3. ASSUME NEW b \in 0 .. Blocks - 1, WriteBlock(b), b # 0
      PROVE  AnswerInv' /\ Current' = Current
  <2>1. (0 \in todo' <=> 0 \in todo) /\ Current' = Current
        /\ UNCHANGED <<buf, old, new, stores>>
    BY <1>3 DEF WriteBlock, Current
  <2>2. \A x \in 64 .. 511 : conf'[x] = conf[x]
    BY <1>3, BlockFacts DEF WriteBlock
  <2>3. \A r \in Sealed : Holds(conf', r) <=> Holds(conf, r)
    BY <2>2, HoldsLocal
  <2>. QED  BY <2>1, <2>3 DEF AnswerInv
<1>4. CASE GiveUp
  <2>1. todo' = {} /\ Current' = Current /\ UNCHANGED <<conf, buf, old, stores>>
        /\ (0 \in todo => new' = old) /\ (0 \notin todo => new' = new)
    BY <1>4 DEF GiveUp, Current
  <2>2. \A s \in new' : s.n <= stores
    <3>1. CASE 0 \in todo
      <4>1. PICK s \in new : s.n <= stores /\ \A r \in old : r.n < s.n
        BY <3>1 DEF AnswerInv
      <4>. QED  BY <2>1, <3>1, <4>1, <1>0
    <3>2. CASE 0 \notin todo
      BY <2>1, <3>2 DEF AnswerInv
    <3>. QED  BY <3>1, <3>2
  <2>. QED  BY <2>1, <2>2 DEF AnswerInv
<1>5. CASE UNCHANGED vars
  <2>1. Current' = Current
    BY <1>5 DEF vars, Current
  <2>. QED  BY <1>5, <2>1 DEF vars, AnswerInv
<1>. QED  BY <1>1, <1>2, <1>3, <1>4, <1>5 DEF Next

LEMMA AnswerAlways == Spec => [](TypeOK /\ AnswerInv)
<1>1. Init => AnswerInv
  BY EmptyHolds DEF Init, AnswerInv, Current
<1>2. TypeOK /\ AnswerInv /\ [Next]_vars => AnswerInv'
  BY AnswerStep
<1>. QED  BY <1>1, <1>2, TypeStep, PTL DEF Spec

(* The store never writes past the area, and the numbers it counts stay    *)
(* in bounds.                                                              *)
THEOREM StoreTyped == Spec => []TypeOK
BY AnswerAlways, PTL

(* However a store ends, a whole record is on the device: the new one once *)
(* its first block is written, the old one until then.                     *)
THEOREM RecordReadable == Spec => []Readable
<1>1. TypeOK /\ AnswerInv => Readable
  BY DEF TypeOK, AnswerInv, Current, Readable
<1>. QED  BY <1>1, AnswerAlways, PTL

(* The multi-block store implements the one-step cell that the boot chain  *)
(* takes it for, whatever the writes that are torn.                        *)
THEOREM StoreImplementsCell == Spec => StoreAtomic
<1>. DEFINE held == {s \in Sealed : Holds(conf, s)}
<1>1. Init => Cell!Init
  BY EmptyHolds DEF Init, Cell!Init
<1>2. TypeOK /\ AnswerInv => held = Current
  BY DEF TypeOK, AnswerInv, Current
<1>3. ASSUME TypeOK, AnswerInv, TypeOK', AnswerInv', [Next]_vars
      PROVE  [Cell!Next]_held
  <2>1. held = Current /\ held' = Current'
    BY <1>2, <1>3 DEF TypeOK, AnswerInv, Current
  <2>2. \/ held' = held
        \/ \E s \in Sealed : held' = {s} /\ \A r \in held : r.n < s.n
    BY <2>1, <1>3, AnswerStep
  <2>. QED  BY <2>2 DEF Cell!Next, Cell!Put
<1>. QED  BY <1>1, <1>3, AnswerAlways, PTL DEF Spec, StoreAtomic, Cell!Spec

=============================================================================
