--------------------------- MODULE RawLayoutProofs ---------------------------
(***************************************************************************)
(* What the image of the raw device has where, for all sizes of words,     *)
(* blocks, sectors and files.                                              *)
(***************************************************************************)
EXTENDS RawLayout, TLAPS

(* Where part k begins; the fifth is the end of the bank. *)
Start(k) == IF k = 5 THEN boot_sector ELSE PartOfs(k)

LEMMA StartFacts ==
  /\ boot_sector \in Nat /\ \A k \in 1 .. 5 : Start(k) \in Nat
  /\ Start(1) = 0
  /\ \A k \in 1 .. 4 : Start(k + 1) = Start(k) + Sector(k) /\ Sector(k) \in Nat /\ LenW < Sector(k)
  /\ \A k \in 2 .. 5 : fsbl_sector <= Start(k)
  /\ \A k \in 1 .. 4 : Start(k) = PartOfs(k) /\ Start(k + 1) <= boot_sector
  /\ \A j, k \in 1 .. 5 : j <= k => Start(j) <= Start(k)
  BY SizeAssumption DEF Start, PartOfs, boot_sector, Sector

LEMMA SlotFacts ==
  ASSUME NEW k \in 1 .. 4
  PROVE  /\ Start(k + 1) = Start(k) + Sector(k) /\ Start(k) \in Nat
         /\ Sector(k) \in Nat /\ LenW < Sector(k) /\ Start(k + 1) <= boot_sector
         /\ boot_sector \in Nat /\ LenW \in Nat
<1>1. k + 1 \in 1 .. 5 /\ k \in 1 .. 5 OBVIOUS
<1>2. LenW \in Nat BY SizeAssumption
<1>3. QED BY <1>1, <1>2, StartFacts

LEMMA BankFacts ==
  /\ \A b \in 1 .. 4 : BankOfs(b) \in Nat
  /\ BankOfs(1) = Blk
  /\ \A b \in 1 .. 3 : BankOfs(b + 1) = BankOfs(b) + boot_sector
  /\ \A a, b \in 1 .. 3 : a <= b => BankOfs(a) <= BankOfs(b)
  /\ \A a, b \in 1 .. 3 : a < b => BankOfs(a) + boot_sector <= BankOfs(b)
<1> boot_sector \in Nat /\ Blk \in Nat BY StartFacts, SizeAssumption
<1>1. BankOfs(1) = Blk /\ BankOfs(2) = Blk + boot_sector
      /\ BankOfs(3) = Blk + 2 * boot_sector /\ BankOfs(4) = Blk + 3 * boot_sector
  BY DEF BankOfs, BOOT_FW_SRTOFS
<1>2. QED BY <1>1

LEMMA PieceTypes ==
  /\ ZERO \in Byte
  /\ \A n \in Nat : Zeros(n) \in Seq(Byte) /\ Len(Zeros(n)) = n
                    /\ \A i \in 1 .. n : Zeros(n)[i] = ZERO
  /\ \A n \in Nat : Word(n) \in Seq(Byte) /\ Len(Word(n)) = LenW
  /\ \A n \in Nat : \A f \in Files : Bytes(f, n) \in Seq(Byte) /\ Len(Bytes(f, n)) = n
  /\ Header \in Seq(Byte) /\ Len(Header) = Blk
<1> USE SizeAssumption
<1>1. ZERO \in Byte BY DEF ZERO, Byte, Files
<1>2. ASSUME NEW n \in Nat
      PROVE Zeros(n) \in Seq(Byte) /\ Len(Zeros(n)) = n /\ \A i \in 1 .. n : Zeros(n)[i] = ZERO
  BY <1>1 DEF Zeros
<1>3. ASSUME NEW n \in Nat PROVE Word(n) \in Seq(Byte) /\ Len(Word(n)) = LenW
  <2>1. \A i \in 1 .. LenW : (IF n = 0 THEN ZERO ELSE [f |-> "len", n |-> n, i |-> i]) \in Byte
    BY <1>1 DEF Byte, Files
  <2>2. QED BY <2>1 DEF Word
<1>4. ASSUME NEW n \in Nat, NEW f \in Files PROVE Bytes(f, n) \in Seq(Byte) /\ Len(Bytes(f, n)) = n
  <2>1. \A i \in 1 .. n : [f |-> f, n |-> n, i |-> i] \in Byte
    BY DEF Byte, Files
  <2>2. QED BY <2>1 DEF Bytes
<1>5. Header \in Seq(Byte) /\ Len(Header) = Blk
  <2>1. \A i \in 1 .. Blk : [f |-> "hdr", n |-> Blk, i |-> i] \in Byte
    BY DEF Byte, Files
  <2>2. QED BY <2>1 DEF Header
<1>6. QED BY <1>1, <1>2, <1>3, <1>4, <1>5

(* What an assignment to a slice keeps, puts and how long it leaves the    *)
(* array.                                                                  *)
LEMMA SliceFacts ==
  ASSUME NEW s \in Seq(Byte), NEW v \in Seq(Byte), NEW start \in Nat, NEW stop \in Nat
  PROVE  LET r == SliceAssign(s, start, stop, v)
             lo == Least(start, Len(s))
             hi == Most(lo, Least(stop, Len(s))) IN
         /\ r \in Seq(Byte)
         /\ Len(r) = lo + Len(v) + (Len(s) - hi)
         /\ start <= Len(s) => /\ \A i \in 1 .. start : r[i] = s[i]
                               /\ \A i \in 1 .. Len(v) : r[start + i] = v[i]
<1> DEFINE lo == Least(start, Len(s))
           hi == Most(lo, Least(stop, Len(s)))
           n == lo + Len(v) + (Len(s) - hi)
           e(i) == IF i <= lo THEN s[i] ELSE IF i <= lo + Len(v) THEN v[i - lo]
                   ELSE s[i - (lo + Len(v)) + hi]
<1>1. lo \in Nat /\ hi \in Nat /\ lo <= hi /\ hi <= Len(s) /\ n \in Nat
      /\ (start <= Len(s) => lo = start)
  BY DEF Least, Most
<1>2. \A i \in 1 .. n : e(i) \in Byte
  <2> HIDE DEF lo, hi
  <2> TAKE i \in 1 .. n
  <2>1. CASE i <= lo BY <2>1, <1>1
  <2>2. CASE ~ (i <= lo) /\ i <= lo + Len(v) 
    <3>1. i - lo \in 1 .. Len(v) BY <2>2, <1>1
    <3>2. QED BY <2>2, <3>1
  <2>3. CASE ~ (i <= lo) /\ ~ (i <= lo + Len(v))
    <3>1. i - (lo + Len(v)) + hi \in 1 .. Len(s) BY <2>3, <1>1
    <3>2. QED BY <2>3, <3>1
  <2>4. QED BY <2>1, <2>2, <2>3
<1>3. SliceAssign(s, start, stop, v) = [i \in 1 .. n |-> e(i)]
  BY DEF SliceAssign
<1> HIDE DEF n, e, lo, hi
<1>4. [i \in 1 .. n |-> e(i)] \in Seq(Byte) /\ Len([i \in 1 .. n |-> e(i)]) = n
  BY <1>1, <1>2
<1>5. ASSUME start <= Len(s)
      PROVE  /\ \A i \in 1 .. start : e(i) = s[i] /\ i \in 1 .. n
             /\ \A i \in 1 .. Len(v) : e(start + i) = v[i] /\ start + i \in 1 .. n
  <2> lo = start BY <1>5, <1>1
  <2>1. ASSUME NEW i \in 1 .. start PROVE e(i) = s[i] /\ i \in 1 .. n
    BY <1>1, <2>1 DEF e, n
  <2>2. ASSUME NEW i \in 1 .. Len(v) PROVE e(start + i) = v[i] /\ start + i \in 1 .. n
    BY <1>1, <2>2 DEF e, n
  <2>3. QED BY <2>1, <2>2
<1>6. QED BY <1>1, <1>3, <1>4, <1>5 DEF n, lo, hi

-----------------------------------------------------------------------------
(* Where the tool is. *)
Filling == pc \in {"word", "image", "append"}

Progress ==
  /\ pc \in {"word", "image"} => slot \in 1 .. 4
  /\ pc = "append" => slot = 5
  /\ Filling => copy_cnt = Start(slot) + (IF pc = "image" THEN LenW ELSE 0)
  /\ pc = "header" => made = 0
  /\ pc = "bank" \/ Filling => made < Banks
  /\ pc \in {"storage", "done"} => made = Banks

(* The bank in work: never shorter than it began, the parts before slot in *)
(* their places, and the length word of the next one once it is written.   *)
BankKnown ==
  FilesFit /\ Filling =>
    /\ boot_sector <= Len(bank)
    /\ \A k \in 1 .. slot - 1 : HasPart(bank, 0, k)
    /\ pc = "image" => \A i \in 1 .. LenW : bank[Start(slot) + i] = Word(PartLen(slot))[i]

LayoutInv == TypeOK /\ Progress /\ BankKnown /\ BanksAligned

LEMMA ContentsFacts ==
  ASSUME TypeOK, NEW k \in 1 .. 4
  PROVE  /\ PartLen(k) \in Nat /\ Contents(k) \in Seq(Byte)
         /\ Len(Contents(k)) \in Nat
         /\ Word(PartLen(k)) \in Seq(Byte) /\ Len(Word(PartLen(k))) = LenW
         /\ FilesFit => /\ LenW + Len(Contents(k)) <= Sector(k)
                        /\ PartLen(k) <= fsbl_sector
                        /\ k = 1 => PartLen(k) = Len(Contents(k))
<1>1. fsbl_len \in Nat /\ ssbl_len \in Nat BY SizeAssumption DEF TypeOK
<1>2. Contents(k) \in Seq(Byte) /\ Len(Contents(k)) = (IF k = 4 THEN ssbl_len ELSE fsbl_len)
  BY <1>1, PieceTypes DEF Contents, Files
<1>3. PartLen(k) \in Nat BY <1>1 DEF PartLen
<1>4. QED BY <1>1, <1>2, <1>3, PieceTypes, SizeAssumption DEF PartLen, FilesFit, Sector

(* A part is found again where its bytes are found again. *)
LEMMA PartMoved ==
  ASSUME TypeOK, FilesFit, NEW k \in 1 .. 4, NEW a, NEW c, NEW m \in Nat, NEW n \in Nat,
         HasPart(a, m, k), \A i \in 1 .. Start(k + 1) : c[n + i] = a[m + i]
  PROVE  HasPart(c, n, k)
<1> LenW \in Nat \ {0} BY SizeAssumption
<1> /\ PartOfs(k) \in Nat /\ Sector(k) \in Nat /\ LenW < Sector(k)
    /\ Start(k + 1) = PartOfs(k) + Sector(k)
  BY StartFacts
<1>1. LenW + Len(Contents(k)) <= Sector(k) /\ Len(Contents(k)) \in Nat BY ContentsFacts
<1>2. ASSUME NEW i \in 1 .. LenW PROVE c[n + PartOfs(k) + i] = a[m + PartOfs(k) + i]
  <2>1. PartOfs(k) + i \in 1 .. Start(k + 1) OBVIOUS
  <2>2. n + PartOfs(k) + i = n + (PartOfs(k) + i) /\ m + PartOfs(k) + i = m + (PartOfs(k) + i)
    OBVIOUS
  <2>3. QED BY <2>1, <2>2
<1>3. ASSUME NEW i \in 1 .. Len(Contents(k))
      PROVE c[n + PartOfs(k) + LenW + i] = a[m + PartOfs(k) + LenW + i]
  <2>1. PartOfs(k) + LenW + i \in 1 .. Start(k + 1) BY <1>1
  <2>2. /\ n + PartOfs(k) + LenW + i = n + (PartOfs(k) + LenW + i)
        /\ m + PartOfs(k) + LenW + i = m + (PartOfs(k) + LenW + i)
    BY <1>1
  <2>3. QED BY <2>1, <2>2
<1>4. QED BY <1>2, <1>3 DEF HasPart

(* The files keep their sizes, and so what a part should be. *)
LEMMA SameFiles ==
  ASSUME UNCHANGED <<fsbl_len, ssbl_len>>
  PROVE  /\ FilesFit' = FilesFit
         /\ \A k : PartLen(k)' = PartLen(k) /\ Contents(k)' = Contents(k)
  BY DEF FilesFit, PartLen, Contents

LEMMA ImgKept ==
  ASSUME BanksAligned, UNCHANGED <<fsbl_len, ssbl_len, made, img>>,
         pc \notin {"header", "done"}, pc' \notin {"header", "done"}
  PROVE  BanksAligned'
<1> SUFFICES ASSUME FilesFit'
             PROVE  /\ Len(img') = BankOfs(made' + 1)
                    /\ \A b \in 1 .. made' : \A k \in 1 .. 4 : HasPart(img, BankOfs(b), k)'
  BY DEF BanksAligned
<1>1. /\ Len(img) = BankOfs(made + 1)
      /\ \A b \in 1 .. made : \A k \in 1 .. 4 : HasPart(img, BankOfs(b), k)
  BY SameFiles DEF BanksAligned
<1>2. QED BY <1>1, SameFiles DEF HasPart

LEMMA InitInv == Init => LayoutInv
  BY SizeAssumption, StartFacts DEF Init, LayoutInv, TypeOK, Progress, BankKnown, BanksAligned, Filling, Banks

LEMMA HeaderStep == LayoutInv /\ WriteHeader => LayoutInv'
<1> SUFFICES ASSUME LayoutInv, WriteHeader PROVE LayoutInv' OBVIOUS
<1> USE DEF LayoutInv
<1>1. TypeOK' BY PieceTypes DEF TypeOK, WriteHeader
<1>2. Progress' BY SizeAssumption DEF Progress, WriteHeader, Filling, Banks, TypeOK
<1>3. BankKnown' BY DEF BankKnown, WriteHeader, Filling
<1>4. BanksAligned' BY PieceTypes, BankFacts DEF BanksAligned, WriteHeader, Progress
<1>5. QED BY <1>1, <1>2, <1>3, <1>4

LEMMA NewBankStep == LayoutInv /\ NewBank => LayoutInv'
<1> SUFFICES ASSUME LayoutInv, NewBank PROVE LayoutInv' OBVIOUS
<1> USE DEF LayoutInv
<1>1. TypeOK' BY PieceTypes, StartFacts DEF TypeOK, NewBank
<1>2. Progress' BY StartFacts DEF Progress, NewBank, Filling
<1>3. BankKnown'
  <2>1. slot' = 1 /\ pc' = "word" /\ boot_sector <= Len(bank') BY PieceTypes, StartFacts DEF NewBank
  <2>2. QED BY <2>1 DEF BankKnown, Filling
<1>4. BanksAligned' BY ImgKept DEF NewBank
<1>5. QED BY <1>1, <1>2, <1>3, <1>4

(* A slice that is no longer than what is put into it: the array does not  *)
(* shrink, keeps what is before the slice and has the new bytes there.     *)
LEMMA Inserted ==
  ASSUME NEW s \in Seq(Byte), NEW v \in Seq(Byte), NEW start \in Nat, NEW stop \in Nat,
         start <= Len(s), stop <= start + Len(v)
  PROVE  /\ SliceAssign(s, start, stop, v) \in Seq(Byte)
         /\ Len(s) <= Len(SliceAssign(s, start, stop, v))
         /\ \A i \in 1 .. start : SliceAssign(s, start, stop, v)[i] = s[i]
         /\ \A i \in 1 .. Len(v) : SliceAssign(s, start, stop, v)[start + i] = v[i]
<1>1. Least(start, Len(s)) = start BY DEF Least
<1>2. /\ Most(start, Least(stop, Len(s))) \in Nat
      /\ Most(start, Least(stop, Len(s))) <= start + Len(v)
  BY DEF Least, Most
<1>3. Len(s) \in Nat /\ Len(v) \in Nat OBVIOUS
<1> DEFINE r == SliceAssign(s, start, stop, v)
           h == Most(start, Least(stop, Len(s)))
<1>a. Len(r) = Least(start, Len(s)) + Len(v)
               + (Len(s) - Most(Least(start, Len(s)), Least(stop, Len(s))))
  BY SliceFacts
<1>4. r \in Seq(Byte) /\ Len(r) = start + Len(v) + (Len(s) - h)
  BY <1>1, <1>a, SliceFacts
<1>5. (\A i \in 1 .. start : r[i] = s[i]) /\ (\A i \in 1 .. Len(v) : r[start + i] = v[i])
  BY ZenonT(40), SliceFacts
<1>6. Len(s) <= Len(r)
  <2> HIDE DEF r, h
  <2> h \in Nat /\ h <= start + Len(v) BY <1>2 DEF h
  <2> QED BY <1>3, <1>4
<1>7. QED BY <1>4, <1>5, <1>6

LEMMA WordStep == LayoutInv /\ PutWord => LayoutInv'
<1> SUFFICES ASSUME LayoutInv, PutWord PROVE LayoutInv' OBVIOUS
<1> USE DEF LayoutInv
<1> DEFINE v == Word(PartLen(slot))
<1>a. /\ slot \in 1 .. 4 /\ pc = "word" /\ pc' = "image"
      /\ UNCHANGED <<fsbl_len, ssbl_len, ca_len, slot, made, img>> /\ copy_cnt' = copy_cnt + LenW
      /\ bank' = SliceAssign(bank, copy_cnt, LenW, v) /\ bank \in Seq(Byte)
  BY DEF Progress, PutWord, TypeOK
<1>b. /\ Start(slot) \in Nat /\ boot_sector \in Nat /\ Sector(slot) \in Nat /\ LenW < Sector(slot)
      /\ Start(slot) + Sector(slot) <= boot_sector /\ LenW \in Nat
  BY <1>a, SlotFacts
<1>1. /\ slot \in 1 .. 4 /\ copy_cnt = Start(slot) /\ pc = "word" /\ pc' = "image"
      /\ UNCHANGED <<fsbl_len, ssbl_len, ca_len, slot, made, img>> /\ copy_cnt' = copy_cnt + LenW
      /\ bank' = SliceAssign(bank, copy_cnt, LenW, v) /\ bank \in Seq(Byte)
  BY <1>a, <1>b DEF Progress, Filling
<1>2. /\ v \in Seq(Byte) /\ Len(v) = LenW /\ LenW \in Nat /\ copy_cnt \in Nat
      /\ copy_cnt + LenW <= boot_sector /\ boot_sector \in Nat
  BY SMTT(40), <1>1, <1>b, ContentsFacts
<1> HIDE DEF v
<1>3. TypeOK'
  <2>1. bank' \in Seq(Byte) BY <1>1, <1>2, SliceFacts
  <2>2. QED BY <1>1, <1>2, <2>1 DEF TypeOK
<1>4. Progress' BY <1>1 DEF Progress, Filling
<1>5. BankKnown'
  <2> SUFFICES ASSUME FilesFit'
               PROVE  /\ boot_sector <= Len(bank')
                      /\ \A k \in 1 .. slot' - 1 : HasPart(bank, 0, k)'
                      /\ \A i \in 1 .. LenW : bank'[Start(slot') + i] = Word(PartLen(slot)')[i]
    BY <1>1 DEF BankKnown
  <2>1. FilesFit /\ boot_sector <= Len(bank) /\ \A k \in 1 .. slot - 1 : HasPart(bank, 0, k)
    BY <1>1, SameFiles DEF BankKnown, Filling
  <2>2. copy_cnt <= Len(bank) /\ LenW <= copy_cnt + Len(v)
    <3>1. Len(bank) \in Nat BY <1>1
    <3>2. QED BY <3>1, <1>2, <2>1
  <2>3. /\ Len(bank) <= Len(bank') /\ bank' \in Seq(Byte)
        /\ \A i \in 1 .. copy_cnt : bank'[i] = bank[i]
        /\ \A i \in 1 .. Len(v) : bank'[copy_cnt + i] = v[i]
    <3> DEFINE r == SliceAssign(bank, copy_cnt, LenW, v)
    <3>1. /\ bank \in Seq(Byte) /\ v \in Seq(Byte) /\ copy_cnt \in Nat /\ LenW \in Nat
          /\ copy_cnt <= Len(bank) /\ LenW <= copy_cnt + Len(v)
      BY <1>1, <1>2, <2>2
    <3>2. /\ r \in Seq(Byte) /\ Len(bank) <= Len(r)
          /\ \A i \in 1 .. copy_cnt : r[i] = bank[i]
          /\ \A i \in 1 .. Len(v) : r[copy_cnt + i] = v[i]
      BY ONLY <3>1, Inserted
    <3>3. bank' = r BY <1>1
    <3> HIDE DEF r
    <3>4. QED BY <3>2, <3>3
  <2>4. boot_sector <= Len(bank') BY <2>1, <2>3, StartFacts, <1>1
  <2>5. ASSUME NEW k \in 1 .. slot - 1 PROVE HasPart(bank, 0, k)'
    <3>1. k \in 1 .. 4 /\ k + 1 \in 1 .. 5 /\ slot \in 1 .. 5 /\ k + 1 <= slot BY <1>1
    <3>2. Start(k + 1) <= copy_cnt /\ Start(k + 1) \in Nat BY <3>1, <1>1, StartFacts
    <3>3. \A i \in 1 .. Start(k + 1) : bank'[0 + i] = bank[0 + i] BY <3>2, <2>3, <1>2
    <3>4. HasPart(bank', 0, k) BY <3>1, <3>3, <2>1, PartMoved
    <3>5. QED BY <3>4, <1>1, SameFiles DEF HasPart
  <2>6. \A i \in 1 .. LenW : bank'[Start(slot') + i] = Word(PartLen(slot)')[i]
    <3>1. PartLen(slot)' = PartLen(slot) BY <1>1 DEF PartLen
    <3>2. QED BY <3>1, <1>1, <1>2, <2>3 DEF v
  <2>7. QED BY <1>1, <2>4, <2>5, <2>6
<1>6. BanksAligned' BY <1>1, ImgKept
<1>7. QED BY <1>3, <1>4, <1>5, <1>6

LEMMA ImageStep == LayoutInv /\ PutImage => LayoutInv'
<1> SUFFICES ASSUME LayoutInv, PutImage PROVE LayoutInv' OBVIOUS
<1> USE DEF LayoutInv
<1> DEFINE v == Contents(slot)
           stop == PartLen(slot)
<1>1. /\ slot \in 1 .. 4 /\ copy_cnt = Start(slot) + LenW /\ pc = "image"
      /\ UNCHANGED <<fsbl_len, ssbl_len, ca_len, made, img>> /\ slot' = slot + 1
      /\ copy_cnt' = copy_cnt + (Sector(slot) - LenW)
      /\ pc' = (IF slot < 4 THEN "word" ELSE "append")
      /\ bank' = SliceAssign(bank, copy_cnt, stop, v) /\ bank \in Seq(Byte)
  BY DEF Progress, PutImage, Filling, TypeOK
<1>a. /\ Start(slot + 1) = Start(slot) + Sector(slot) /\ Start(slot) \in Nat
      /\ Sector(slot) \in Nat /\ LenW < Sector(slot) /\ Start(slot + 1) <= boot_sector
      /\ boot_sector \in Nat /\ LenW \in Nat
  BY <1>1, SlotFacts
<1>b. v \in Seq(Byte) /\ Len(v) \in Nat /\ stop \in Nat BY <1>1, ContentsFacts
<1>2. /\ v \in Seq(Byte) /\ Len(v) \in Nat /\ stop \in Nat /\ LenW \in Nat /\ copy_cnt \in Nat
      /\ Start(slot + 1) = Start(slot) + Sector(slot) /\ Start(slot) \in Nat
      /\ Sector(slot) \in Nat /\ LenW < Sector(slot) /\ Start(slot + 1) <= boot_sector
      /\ boot_sector \in Nat
  BY <1>1, <1>a, <1>b
<1>3. copy_cnt' = Start(slot') /\ copy_cnt' \in 0 .. boot_sector
  <2>1. /\ slot' = slot + 1 /\ copy_cnt = Start(slot) + LenW
        /\ copy_cnt' = copy_cnt + (Sector(slot) - LenW)
    BY <1>1
  <2> HIDE DEF LayoutInv
  <2>2. copy_cnt' = Start(slot + 1) /\ copy_cnt' \in Nat BY <2>1, <1>a
  <2>3. QED BY <2>1, <2>2, <1>a
<1> HIDE DEF v, stop
<1>4. TypeOK'
  <2>1. bank' \in Seq(Byte) BY <1>1, <1>2, SliceFacts
  <2>2. QED BY <1>1, <1>3, <2>1 DEF TypeOK
<1>5. Progress'
  <2>1. slot' \in 1 .. 5 /\ (pc' = "word" => slot' \in 1 .. 4) /\ (pc' = "append" => slot' = 5)
        /\ pc' \in {"word", "append"}
    BY <1>1
  <2>2. made' < Banks BY <1>1 DEF Progress, Filling
  <2>3. QED BY <1>3, <2>1, <2>2, StartFacts DEF Progress, Filling
<1>6. BankKnown'
  <2> SUFFICES ASSUME FilesFit'
               PROVE  /\ boot_sector <= Len(bank')
                      /\ \A k \in 1 .. slot' - 1 : HasPart(bank, 0, k)'
    BY <1>1 DEF BankKnown
  <2>1. /\ FilesFit /\ boot_sector <= Len(bank) /\ Len(bank) \in Nat
        /\ \A k \in 1 .. slot - 1 : HasPart(bank, 0, k)
        /\ \A i \in 1 .. LenW : bank[Start(slot) + i] = Word(PartLen(slot))[i]
    <3>a. Len(bank) \in Nat BY <1>1
    <3>b. FilesFit BY <1>1, SameFiles
    <3>1. FilesFit /\ Filling /\ Len(bank) \in Nat BY <1>1, <3>a, <3>b DEF Filling
    <3>2. QED BY <3>1, <1>1 DEF BankKnown
  <2>2. copy_cnt <= Len(bank) BY SMTT(40), <1>1, <1>2, <2>1
  <2>3. stop <= copy_cnt + Len(v)
    <3>1. CASE slot = 1
      <4>1. stop = Len(v) BY <3>1, <1>1, <2>1, ContentsFacts DEF v, stop
      <4>2. QED BY <4>1, <1>2
    <3>2. CASE slot \in 2 .. 4
      <4>1. stop <= fsbl_sector BY <1>1, <2>1, ContentsFacts DEF stop
      <4>3. fsbl_sector <= Start(slot) BY <3>2, StartFacts
      <4>2. QED BY SMTT(40), <4>1, <4>3, <1>1, <1>2, SizeAssumption
    <3>3. QED BY <1>1, <3>1, <3>2
  <2>4. /\ Len(bank) <= Len(bank') /\ bank' \in Seq(Byte)
        /\ \A i \in 1 .. copy_cnt : bank'[i] = bank[i]
        /\ \A i \in 1 .. Len(v) : bank'[copy_cnt + i] = v[i]
    <3> DEFINE r == SliceAssign(bank, copy_cnt, stop, v)
    <3>1. /\ bank \in Seq(Byte) /\ v \in Seq(Byte) /\ copy_cnt \in Nat /\ stop \in Nat
          /\ copy_cnt <= Len(bank) /\ stop <= copy_cnt + Len(v)
      BY <1>1, <1>2, <2>2, <2>3
    <3>2. /\ r \in Seq(Byte) /\ Len(bank) <= Len(r)
          /\ \A i \in 1 .. copy_cnt : r[i] = bank[i]
          /\ \A i \in 1 .. Len(v) : r[copy_cnt + i] = v[i]
      BY ONLY <3>1, Inserted
    <3>3. bank' = r BY <1>1
    <3> HIDE DEF r
    <3>4. QED BY <3>2, <3>3
  <2>5. boot_sector <= Len(bank') BY <2>1, <2>4, <1>2
  <2>6. ASSUME NEW k \in 1 .. slot - 1 PROVE HasPart(bank', 0, k)
    <3>1. k \in 1 .. 4 /\ k + 1 \in 1 .. 5 /\ slot \in 1 .. 5 /\ k + 1 <= slot BY <1>1
    <3>a. Start(k + 1) <= Start(slot) /\ Start(k + 1) \in Nat BY <3>1, StartFacts
    <3>2. Start(k + 1) <= copy_cnt /\ Start(k + 1) \in Nat BY SMTT(40), <3>a, <1>1, <1>2
    <3>3. \A i \in 1 .. Start(k + 1) : bank'[0 + i] = bank[0 + i] BY <3>2, <2>4, <1>2
    <3>4. QED BY <3>1, <3>3, <2>1, PartMoved
  <2>7. HasPart(bank', 0, slot)
    <3>1. PartOfs(slot) = Start(slot) BY <1>1, StartFacts
    <3>2. \A i \in 1 .. LenW : bank'[0 + PartOfs(slot) + i] = Word(PartLen(slot))[i]
      <4>1. ASSUME NEW i \in 1 .. LenW PROVE bank'[Start(slot) + i] = bank[Start(slot) + i]
        <5>1. Start(slot) + i \in 1 .. copy_cnt BY SMTT(40), <1>1, <1>2
        <5>2. QED BY <5>1, <2>4
      <4>2. QED BY <4>1, <3>1, <2>1, <1>2
    <3>3. \A i \in 1 .. Len(v) : bank'[0 + PartOfs(slot) + LenW + i] = v[i]
      <4>1. \A i \in 1 .. Len(v) : 0 + PartOfs(slot) + LenW + i = copy_cnt + i
        BY <3>1, <1>1, <1>2
      <4>2. QED BY <4>1, <2>4
    <3>4. QED BY <3>2, <3>3 DEF HasPart, v
  <2>8. \A k \in 1 .. slot' - 1 : HasPart(bank', 0, k) BY <2>6, <2>7, <1>1
  <2>9. QED BY <2>5, <2>8, <1>1, SameFiles DEF HasPart
<1>7. BanksAligned' BY <1>1, ImgKept
<1>8. QED BY <1>4, <1>5, <1>6, <1>7

(* Bytes of two sequences laid end to end. *)
LEMMA EndToEnd ==
  ASSUME NEW s \in Seq(Byte), NEW v \in Seq(Byte)
  PROVE  /\ s \o v \in Seq(Byte) /\ Len(s \o v) = Len(s) + Len(v)
         /\ \A i \in 1 .. Len(s) : (s \o v)[i] = s[i]
         /\ \A i \in 1 .. Len(v) : (s \o v)[Len(s) + i] = v[i]
  OBVIOUS

LEMMA AppendStep == LayoutInv /\ AppendBank => LayoutInv'
<1> SUFFICES ASSUME LayoutInv, AppendBank PROVE LayoutInv' OBVIOUS
<1> USE DEF LayoutInv
<1> DEFINE n == Least(boot_sector, Len(bank))
           v == SubSeq(bank, 1, n)
<1>1. /\ pc = "append" /\ slot = 5 /\ made \in 0 .. 2 /\ made' = made + 1
      /\ UNCHANGED <<fsbl_len, ssbl_len, ca_len, bank, slot, copy_cnt>>
      /\ pc' = (IF made' < Banks THEN "bank" ELSE "storage")
      /\ img' = img \o v /\ img \in Seq(Byte) /\ bank \in Seq(Byte) /\ boot_sector \in Nat
  BY StartFacts DEF AppendBank, CutBank, Progress, Filling, Banks, TypeOK
<1>2. n \in Nat /\ n <= Len(bank) /\ n <= boot_sector /\ (boot_sector <= Len(bank) => n = boot_sector)
  BY <1>1 DEF Least
<1> HIDE DEF n
<1>3. v \in Seq(Byte) /\ Len(v) = n /\ \A i \in 1 .. n : v[i] = bank[i]
  BY <1>1, <1>2
<1> HIDE DEF v
<1>4. TypeOK'
  <2>1. img' \in Seq(Byte) BY <1>1, <1>3
  <2>2. QED BY <1>1, <2>1 DEF TypeOK, Banks
<1>5. Progress' BY <1>1 DEF Progress, Filling, Banks
<1>6. BankKnown' BY <1>1 DEF BankKnown, Filling
<1>7. BanksAligned'
  <2> SUFFICES ASSUME FilesFit'
               PROVE  /\ Len(img') = BankOfs(made' + 1)
                      /\ \A b \in 1 .. made' : \A k \in 1 .. 4 : HasPart(img, BankOfs(b), k)'
    BY DEF BanksAligned
  <2>1. FilesFit BY <1>1, SameFiles
  <2>2. /\ n = boot_sector /\ \A k \in 1 .. 4 : HasPart(bank, 0, k)
    BY <2>1, <1>1, <1>2 DEF BankKnown, Filling
  <2>3. /\ Len(img) = BankOfs(made + 1)
        /\ \A b \in 1 .. made : \A k \in 1 .. 4 : HasPart(img, BankOfs(b), k)
    BY <2>1, <1>1 DEF BanksAligned
  <2>4. made + 1 \in 1 .. 3 /\ BankOfs(made + 1) \in Nat
        /\ BankOfs(made' + 1) = BankOfs(made + 1) + boot_sector
    BY SMTT(40), <1>1, BankFacts
  <2>5. /\ Len(img') = Len(img) + boot_sector
        /\ \A i \in 1 .. Len(img) : img'[i] = img[i]
        /\ \A i \in 1 .. boot_sector : img'[Len(img) + i] = bank[i]
    <3>1. img \in Seq(Byte) /\ v \in Seq(Byte) BY <1>1, <1>3
    <3>2. /\ Len(img \o v) = Len(img) + Len(v)
          /\ \A i \in 1 .. Len(img) : (img \o v)[i] = img[i]
          /\ \A i \in 1 .. Len(v) : (img \o v)[Len(img) + i] = v[i]
      BY ONLY <3>1, EndToEnd
    <3>3. QED BY <3>2, <1>1, <1>3, <2>2
  <2>6. ASSUME NEW b \in 1 .. made, NEW k \in 1 .. 4 PROVE HasPart(img', BankOfs(b), k)
    <3>1. b \in 1 .. 3 /\ BankOfs(b) \in Nat /\ BankOfs(b) + boot_sector <= BankOfs(made + 1)
      <4>1. b \in 1 .. 3 /\ b < made + 1 BY <1>1
      <4>2. QED BY <4>1, <2>4, BankFacts
    <3>2. Start(k + 1) \in Nat /\ Start(k + 1) <= boot_sector BY SlotFacts
    <3>3. \A i \in 1 .. Start(k + 1) : img'[BankOfs(b) + i] = img[BankOfs(b) + i]
      <4> TAKE i \in 1 .. Start(k + 1)
      <4>1. BankOfs(b) + i \in 1 .. Len(img) BY SMTT(40), <3>1, <3>2, <2>3, <2>4, <1>1
      <4>2. QED BY <4>1, <2>5
    <3>4. QED BY <3>1, <3>3, <2>1, <2>3, PartMoved
  <2>7. ASSUME NEW k \in 1 .. 4 PROVE HasPart(img', BankOfs(made + 1), k)
    <3>1. Start(k + 1) \in Nat /\ Start(k + 1) <= boot_sector BY SlotFacts
    <3>2. \A i \in 1 .. Start(k + 1) : img'[BankOfs(made + 1) + i] = bank[0 + i]
      <4> TAKE i \in 1 .. Start(k + 1)
      <4>1. i \in 1 .. boot_sector /\ 0 + i = i BY <3>1, <1>1
      <4>2. QED BY <4>1, <2>5, <2>3
    <3>3. QED BY <3>2, <2>1, <2>2, <2>4, PartMoved
  <2>8. \A b \in 1 .. made' : \A k \in 1 .. 4 : HasPart(img', BankOfs(b), k)
    <3>1. \A b \in 1 .. made' : b \in 1 .. made \/ b = made + 1 BY <1>1
    <3>2. QED BY <3>1, <2>6, <2>7
  <2>9. \A b \in 1 .. made' : \A k \in 1 .. 4 : HasPart(img, BankOfs(b), k)'
    <3> TAKE b \in 1 .. made', k \in 1 .. 4
    <3>1. PartLen(k)' = PartLen(k) /\ Contents(k)' = Contents(k) BY <1>1, SameFiles
    <3>2. HasPart(img', BankOfs(b), k) BY <2>8
    <3>3. QED BY ONLY <3>1, <3>2 DEF HasPart
  <2>10. QED BY <2>3, <2>4, <2>5, <2>9
<1>8. QED BY <1>4, <1>5, <1>6, <1>7

LEMMA CertFacts ==
  ASSUME TypeOK
  PROVE  /\ CertPart \in Seq(Byte) /\ Len(CertPart) = LenW + CertLen
         /\ ca_len \in Nat /\ ca_len <= CertLen /\ CertLen \in Nat /\ LenW \in Nat
         /\ \A i \in 1 .. LenW : CertPart[i] = Word(ca_len)[i]
         /\ \A i \in 1 .. ca_len : CertPart[LenW + i] = Bytes("root_ca", ca_len)[i]
         /\ \A i \in LenW + ca_len + 1 .. LenW + CertLen : CertPart[i] = ZERO
<1>1. ca_len \in Nat /\ ca_len <= CertLen /\ CertLen \in Nat /\ LenW \in Nat /\ CertLen - ca_len \in Nat
  BY SizeAssumption DEF TypeOK
<1> DEFINE w == Word(ca_len)
           c == Bytes("root_ca", ca_len)
           z == Zeros(CertLen - ca_len)
<1>2. /\ w \in Seq(Byte) /\ Len(w) = LenW /\ c \in Seq(Byte) /\ Len(c) = ca_len
      /\ z \in Seq(Byte) /\ Len(z) = CertLen - ca_len
      /\ \A i \in 1 .. CertLen - ca_len : z[i] = ZERO
  BY <1>1, PieceTypes DEF Files
<1>3. CertPart = w \o c \o z BY DEF CertPart
<1> HIDE DEF w, c, z
<1>4. /\ w \o c \in Seq(Byte) /\ Len(w \o c) = LenW + ca_len
      /\ \A i \in 1 .. LenW : (w \o c)[i] = w[i]
      /\ \A i \in 1 .. ca_len : (w \o c)[LenW + i] = c[i]
  BY <1>2, EndToEnd
<1> DEFINE h == w \o c
<1> HIDE DEF h
<1>5. h \in Seq(Byte) /\ Len(h) = LenW + ca_len BY <1>4 DEF h
<1>6. /\ h \o z \in Seq(Byte) /\ Len(h \o z) = (LenW + ca_len) + (CertLen - ca_len)
      /\ \A i \in 1 .. LenW + ca_len : (h \o z)[i] = h[i]
      /\ \A i \in 1 .. CertLen - ca_len : (h \o z)[(LenW + ca_len) + i] = z[i]
  <2>1. /\ h \o z \in Seq(Byte) /\ Len(h \o z) = Len(h) + Len(z)
        /\ \A i \in 1 .. Len(h) : (h \o z)[i] = h[i]
        /\ \A i \in 1 .. Len(z) : (h \o z)[Len(h) + i] = z[i]
    BY <1>2, <1>5, EndToEnd
  <2>2. QED BY <2>1, <1>2, <1>5
<1>7. CertPart = h \o z BY <1>3 DEF h
<1>8. \A i \in LenW + ca_len + 1 .. LenW + CertLen : CertPart[i] = ZERO
  <2> TAKE i \in LenW + ca_len + 1 .. LenW + CertLen
  <2>1. i - (LenW + ca_len) \in 1 .. CertLen - ca_len
        /\ i = LenW + ca_len + (i - (LenW + ca_len))
    BY <1>1
  <2>2. QED BY <2>1, <1>2, <1>6, <1>7
<1>9. \A i \in 1 .. LenW : CertPart[i] = w[i]
  BY SMTT(40), <1>1, <1>4, <1>6, <1>7 DEF h
<1>10. \A i \in 1 .. ca_len : CertPart[LenW + i] = c[i]
  <2> TAKE i \in 1 .. ca_len
  <2>1. LenW + i \in 1 .. LenW + ca_len BY <1>1
  <2>2. QED BY <2>1, <1>4, <1>6, <1>7 DEF h
<1>11. CertPart \in Seq(Byte) /\ Len(CertPart) = LenW + CertLen
  <2>1. (LenW + ca_len) + (CertLen - ca_len) = LenW + CertLen BY <1>1
  <2>2. QED BY <2>1, <1>6, <1>7
<1>12. QED BY <1>1, <1>8, <1>9, <1>10, <1>11 DEF w, c

(* The finished image begins with the banks, the empty base answer and one *)
(* certificate.                                                            *)
LEMMA StoragePrefix ==
  ASSUME TypeOK, AppendStorage
  PROVE  /\ img' \in Seq(Byte)
         /\ \A i \in 1 .. Len(img) : img'[i] = img[i]
         /\ \A i \in 1 .. ResLen : img'[Len(img) + i] = ZERO
         /\ \A i \in 1 .. LenW + CertLen : img'[Len(img) + ResLen + i] = CertPart[i]
<1> DEFINE z == Zeros(ResLen)
           l == Zeros(ListLen)
           s1 == img \o z
           s2 == s1 \o CertPart
           s3 == s2 \o CertPart
           s4 == s3 \o CertPart
           s5 == s4 \o CertPart
<1>1. img \in Seq(Byte) /\ Len(img) \in Nat BY DEF TypeOK
<1>2. /\ z \in Seq(Byte) /\ Len(z) = ResLen /\ l \in Seq(Byte) /\ ResLen \in Nat
      /\ \A i \in 1 .. ResLen : z[i] = ZERO
  BY PieceTypes, SizeAssumption
<1>3. CertPart \in Seq(Byte) /\ Len(CertPart) = LenW + CertLen /\ LenW + CertLen \in Nat
  BY CertFacts
<1>4. img' = s5 \o l BY DEF AppendStorage
<1> HIDE DEF z, l
<1>5. /\ s1 \in Seq(Byte) /\ Len(s1) = Len(img) + ResLen
      /\ \A i \in 1 .. Len(img) : s1[i] = img[i]
      /\ \A i \in 1 .. ResLen : s1[Len(img) + i] = z[i]
  BY <1>1, <1>2, EndToEnd
<1> HIDE DEF s1
<1>6. /\ s2 \in Seq(Byte) /\ Len(s2) = Len(s1) + (LenW + CertLen)
      /\ \A i \in 1 .. Len(s1) : s2[i] = s1[i]
      /\ \A i \in 1 .. LenW + CertLen : s2[Len(s1) + i] = CertPart[i]
  <2>1. /\ s2 \in Seq(Byte) /\ Len(s2) = Len(s1) + Len(CertPart)
        /\ \A i \in 1 .. Len(s1) : s2[i] = s1[i]
        /\ \A i \in 1 .. Len(CertPart) : s2[Len(s1) + i] = CertPart[i]
    BY <1>3, <1>5, EndToEnd
  <2>2. QED BY <2>1, <1>3
<1> HIDE DEF s2
<1>7. s3 \in Seq(Byte) /\ Len(s2) <= Len(s3) /\ \A i \in 1 .. Len(s2) : s3[i] = s2[i]
  BY <1>3, <1>6, EndToEnd
<1> HIDE DEF s3
<1>8. s4 \in Seq(Byte) /\ Len(s2) <= Len(s4) /\ \A i \in 1 .. Len(s2) : s4[i] = s2[i]
  BY <1>3, <1>6, <1>7, EndToEnd
<1> HIDE DEF s4
<1>9. s5 \in Seq(Byte) /\ Len(s2) <= Len(s5) /\ \A i \in 1 .. Len(s2) : s5[i] = s2[i]
  BY <1>3, <1>6, <1>8, EndToEnd
<1> HIDE DEF s5
<1>10. img' \in Seq(Byte) /\ \A i \in 1 .. Len(s2) : img'[i] = s2[i]
  BY <1>2, <1>4, <1>6, <1>9, EndToEnd
<1>11. \A i \in 1 .. Len(img) : img'[i] = img[i]
  BY <1>1, <1>2, <1>3, <1>5, <1>6, <1>10
<1>12. ASSUME NEW i \in 1 .. ResLen PROVE img'[Len(img) + i] = ZERO
  <2>1. Len(img) + i \in 1 .. Len(s1) /\ Len(img) + i \in 1 .. Len(s2)
    BY <1>1, <1>2, <1>3, <1>5, <1>6
  <2>2. QED BY <2>1, <1>2, <1>5, <1>6, <1>10
<1>13. ASSUME NEW i \in 1 .. LenW + CertLen PROVE img'[Len(img) + ResLen + i] = CertPart[i]
  <2>1. Len(s1) + i \in 1 .. Len(s2) /\ Len(s1) + i = Len(img) + ResLen + i
    BY <1>1, <1>2, <1>3, <1>5, <1>6
  <2>2. QED BY <2>1, <1>6, <1>10
<1>14. QED BY <1>10, <1>11, <1>12, <1>13

LEMMA StorageStep == LayoutInv /\ AppendStorage => LayoutInv'
<1> SUFFICES ASSUME LayoutInv, AppendStorage PROVE LayoutInv' OBVIOUS
<1> USE DEF LayoutInv
<1>1. /\ pc = "storage" /\ pc' = "done" /\ made = 3
      /\ UNCHANGED <<fsbl_len, ssbl_len, ca_len, bank, slot, copy_cnt, made>>
  BY DEF AppendStorage, Progress, Banks
<1>2. TypeOK' BY <1>1, StoragePrefix DEF TypeOK
<1>3. Progress' BY <1>1 DEF Progress, Filling
<1>4. BankKnown' BY <1>1 DEF BankKnown, Filling
<1>5. BanksAligned'
  <2> SUFFICES ASSUME FilesFit', NEW b \in 1 .. made', NEW k \in 1 .. 4
               PROVE  HasPart(img, BankOfs(b), k)'
    BY <1>1 DEF BanksAligned
  <2>1. FilesFit BY <1>1, SameFiles
  <2>2. Len(img) = BankOfs(4) /\ HasPart(img, BankOfs(b), k)
    BY <2>1, <1>1 DEF BanksAligned
  <2>3. b \in 1 .. 3 /\ BankOfs(b) \in Nat /\ BankOfs(b) + boot_sector <= BankOfs(4)
        /\ BankOfs(4) \in Nat
    <3>1. b \in 1 .. 3 BY <1>1
    <3>2. BankOfs(b) \in Nat /\ BankOfs(b) <= BankOfs(3) /\ BankOfs(4) = BankOfs(3) + boot_sector
          /\ BankOfs(3) \in Nat /\ BankOfs(4) \in Nat /\ boot_sector \in Nat
      BY <3>1, BankFacts, StartFacts
    <3>3. QED BY <3>1, <3>2
  <2>4. Start(k + 1) \in Nat /\ Start(k + 1) <= boot_sector /\ boot_sector \in Nat BY SlotFacts
  <2>5. \A i \in 1 .. Start(k + 1) : img'[BankOfs(b) + i] = img[BankOfs(b) + i]
    <3> TAKE i \in 1 .. Start(k + 1)
    <3>1. BankOfs(b) + i \in 1 .. Len(img) BY <2>2, <2>3, <2>4
    <3>2. QED BY <3>1, StoragePrefix
  <2>6. HasPart(img', BankOfs(b), k) BY <2>1, <2>2, <2>3, <2>5, PartMoved
  <2>7. PartLen(k)' = PartLen(k) /\ Contents(k)' = Contents(k) BY <1>1, SameFiles
  <2>8. QED BY ONLY <2>6, <2>7 DEF HasPart
<1>6. QED BY <1>2, <1>3, <1>4, <1>5

LEMMA StutterInv == LayoutInv /\ UNCHANGED vars => LayoutInv'
<1> SUFFICES ASSUME LayoutInv, UNCHANGED vars PROVE LayoutInv' OBVIOUS
<1>1. /\ UNCHANGED <<fsbl_len, ssbl_len, ca_len, pc, bank, slot, copy_cnt, made, img>> BY DEF vars
<1>2. TypeOK' /\ Progress' BY <1>1 DEF LayoutInv, TypeOK, Progress, Filling
<1>3. BankKnown' BY <1>1 DEF LayoutInv, BankKnown, Filling, HasPart, FilesFit, PartLen, Contents
<1>4. BanksAligned' BY <1>1 DEF LayoutInv, BanksAligned, HasPart, FilesFit, PartLen, Contents
<1>5. QED BY <1>2, <1>3, <1>4 DEF LayoutInv

LEMMA LayoutAlways == Spec => []LayoutInv
<1>1. LayoutInv /\ [Next]_vars => LayoutInv'
  BY HeaderStep, NewBankStep, WordStep, ImageStep, AppendStep, StorageStep, StutterInv DEF Next
<1>2. QED BY InitInv, <1>1, PTL DEF Spec

(* A length word that was written is read back. *)
LEMMA WordRead ==
  ASSUME NEW area, NEW ofs \in Nat, NEW n \in Nat,
         \A i \in 1 .. LenW : area[ofs + i] = Word(n)[i]
  PROVE  ReadWord(area, ofs) = n
<1> LenW \in Nat \ {0} /\ 1 \in 1 .. LenW BY SizeAssumption
<1> DEFINE w == ReadAt(area, ofs, LenW)
<1>1. w = Word(n)
  <2>1. w = [i \in 1 .. LenW |-> Word(n)[i]] BY DEF ReadAt
  <2>2. [i \in 1 .. LenW |-> Word(n)[i]] = Word(n) BY DEF Word
  <2>3. QED BY <2>1, <2>2
<1>2. CASE n = 0
  <2>1. Word(n) = Zeros(LenW) BY <1>2 DEF Word, Zeros
  <2>2. QED BY <2>1, <1>1, <1>2 DEF ReadWord
<1>3. CASE n # 0
  <2>1. Word(n)[1].n = n /\ Word(n)[1].f = "len" BY <1>3 DEF Word
  <2>2. Zeros(LenW)[1].f = "zero" BY DEF Zeros, ZERO
  <2>3. Word(n) # Zeros(LenW) BY <2>1, <2>2
  <2>4. QED BY <2>1, <2>3, <1>1 DEF ReadWord
<1>4. QED BY <1>2, <1>3

LEMMA ConfigStep == LayoutInv /\ AppendStorage => ConfigRead'
<1> SUFFICES ASSUME LayoutInv, AppendStorage, FilesFit' PROVE ConfigRead'
  BY DEF ConfigRead
<1> DEFINE conf == SYS_CONF_START_OFS
<1>1. pc = "storage" /\ made = 3 /\ UNCHANGED <<fsbl_len, ssbl_len, ca_len>>
  BY DEF AppendStorage, LayoutInv, Progress, Banks
<1>2. Len(img) = conf /\ conf \in Nat
  <2>a. FilesFit BY <1>1, SameFiles
  <2>b. Len(img) = BankOfs(made + 1) BY <1>1, <2>a DEF LayoutInv, BanksAligned
  <2>1. Len(img) = BankOfs(4) BY <1>1, <2>b
  <2>2. BankOfs(4) = conf BY DEF SYS_CONF_START_OFS, Banks
  <2>3. BankOfs(4) \in Nat BY BankFacts
  <2>4. QED BY <2>1, <2>2, <2>3
<1> HIDE DEF conf
<1>3. /\ \A i \in 1 .. ResLen : img'[conf + i] = ZERO
      /\ \A i \in 1 .. LenW + CertLen : img'[conf + ResLen + i] = CertPart[i]
      /\ TypeOK /\ ResLen \in Nat
  BY <1>2, StoragePrefix, SizeAssumption DEF LayoutInv
<1>4. /\ ca_len \in Nat /\ ca_len <= CertLen /\ CertLen \in Nat /\ LenW \in Nat
      /\ \A i \in 1 .. LenW : CertPart[i] = Word(ca_len)[i]
      /\ \A i \in 1 .. ca_len : CertPart[LenW + i] = Bytes("root_ca", ca_len)[i]
      /\ \A i \in LenW + ca_len + 1 .. LenW + CertLen : CertPart[i] = ZERO
  BY <1>3, CertFacts
<1>5. ReadAt(img', conf, ResLen) = Zeros(ResLen) BY <1>3 DEF ReadAt, Zeros
<1>6. ReadWord(img', conf + ResLen) = ca_len
  <2>1. \A i \in 1 .. LenW : img'[conf + ResLen + i] = Word(ca_len)[i] BY <1>3, <1>4
  <2>2. conf + ResLen \in Nat BY <1>2, <1>3
  <2>3. QED BY <2>1, <2>2, <1>4, WordRead
<1>7. ReadAt(img', conf + ResLen + LenW, ca_len) = Bytes("root_ca", ca_len)
  <2>1. ASSUME NEW i \in 1 .. ca_len
        PROVE img'[conf + ResLen + LenW + i] = Bytes("root_ca", ca_len)[i]
    <3>1. LenW + i \in 1 .. LenW + CertLen /\ conf + ResLen + LenW + i = conf + ResLen + (LenW + i)
      BY <1>2, <1>3, <1>4
    <3>2. QED BY <3>1, <1>3, <1>4
  <2>2. QED BY <2>1 DEF ReadAt, Bytes
<1>8. ASSUME ca_len + LenW <= CertLen PROVE ReadWord(img', conf + (ResLen + CertLen)) = 0
  <2>1. ASSUME NEW i \in 1 .. LenW PROVE img'[conf + (ResLen + CertLen) + i] = Word(0)[i]
    <3>1. /\ CertLen + i \in LenW + ca_len + 1 .. LenW + CertLen /\ CertLen + i \in 1 .. LenW + CertLen
          /\ conf + (ResLen + CertLen) + i = conf + ResLen + (CertLen + i)
      BY <1>2, <1>3, <1>4, <1>8
    <3>2. img'[conf + ResLen + (CertLen + i)] = ZERO BY <3>1, <1>3, <1>4
    <3>3. QED BY <3>1, <3>2 DEF Word
  <2>2. conf + (ResLen + CertLen) \in Nat BY <1>2, <1>3, <1>4
  <2>3. QED BY <2>1, <2>2, WordRead
<1>9. QED BY <1>1, <1>5, <1>6, <1>7, <1>8
      DEF ConfigRead, SYS_CONF_ROOT_CA_OFS, SYS_CONF_DEVID_CRT_OFS, conf

LEMMA NextConfig == LayoutInv /\ ConfigRead /\ [Next]_vars => ConfigRead'
<1> SUFFICES ASSUME LayoutInv, ConfigRead, [Next]_vars PROVE ConfigRead' OBVIOUS
<1>1. CASE AppendStorage BY <1>1, ConfigStep
<1>2. CASE UNCHANGED vars
  BY <1>2 DEF vars, ConfigRead, FilesFit, ReadAt, ReadWord
<1>3. CASE WriteHeader \/ NewBank \/ PutWord \/ PutImage \/ AppendBank
  <2>1. pc' # "done" BY <1>3 DEF WriteHeader, NewBank, PutWord, PutImage, AppendBank
  <2>2. QED BY <2>1 DEF ConfigRead
<1>4. QED BY <1>1, <1>2, <1>3 DEF Next

(* rawprt.py: the arrays stay sequences of bytes, and the place of the next *)
(* part inside the bank, for all sizes.                                    *)
THEOREM LayoutTyped == Spec => []TypeOK
<1>1. LayoutInv => TypeOK BY DEF LayoutInv
<1>2. QED BY <1>1, LayoutAlways, PTL

(* make_fw_image: no assignment moves a part that is already in place, for *)
(* all sizes of sectors and of files that fit them.                        *)
THEOREM PartsSafe == Spec => []PartsKept
<1>1. LayoutInv => PartsKept BY DEF LayoutInv, BankKnown, PartsKept, Filling
<1>2. QED BY <1>1, LayoutAlways, PTL

(* main of rawprt.py: every bank is at the loaders' BOOT_SECTOR offset with *)
(* its four parts, and the configuration follows at SYS_CONF_START_OFS.    *)
THEOREM BanksPlaced == Spec => []BanksAligned
<1>1. LayoutInv => BanksAligned BY DEF LayoutInv
<1>2. QED BY <1>1, LayoutAlways, PTL

(* make_bootfw_storage against SYS_CONF_*: of the configuration the loaders *)
(* find the empty base answer and the root certificate, and never the      *)
(* device certificate.                                                     *)
THEOREM ConfigSeen == Spec => []ConfigRead
<1>1. Init => ConfigRead BY DEF Init, ConfigRead
<1>2. QED BY <1>1, LayoutAlways, NextConfig, PTL DEF Spec
-----------------------------------------------------------------------------
(* What GapRead needs: behind copy_cnt a bank is zero, however far the     *)
(* insertions have moved it.  The place at which the loaders look for bank *)
(* 2's SSBL is behind the contents of bank 1's second part and before its  *)
(* third, and the image keeps what the bank has there.                     *)
Gap == fsbl_sector + Step
GapFree == FilesFit /\ fsbl_len + LenW <= Step /\ Step + LenW <= fsbl_sector

GapInv ==
  GapFree =>
    /\ Filling => \A x \in copy_cnt + 1 .. Len(bank) : bank[x] = ZERO
    /\ Filling /\ slot >= 3 => \A i \in 1 .. LenW : bank[Gap + i] = ZERO
    /\ made >= 1 => \A i \in 1 .. LenW : img[Blk + (Gap + i)] = ZERO

(* An assignment in front of zeros leaves zeros behind it. *)
LEMMA ZerosBehind ==
  ASSUME NEW s \in Seq(Byte), NEW v \in Seq(Byte), NEW start \in Nat, NEW stop \in Nat,
         start <= Len(s), \A x \in start + 1 .. Len(s) : s[x] = ZERO
  PROVE  LET r == SliceAssign(s, start, stop, v) IN
         \A x \in start + Len(v) + 1 .. Len(r) : r[x] = ZERO
<1> DEFINE r == SliceAssign(s, start, stop, v)
           hi == Most(start, Least(stop, Len(s)))
           n == start + Len(v) + (Len(s) - hi)
<1>1. Least(start, Len(s)) = start /\ Len(s) \in Nat /\ Len(v) \in Nat BY DEF Least
<1>2. hi \in Nat /\ start <= hi /\ hi <= Len(s) BY <1>1 DEF Least, Most
<1>3. r = [i \in 1 .. n |-> IF i <= start THEN s[i]
                            ELSE IF i <= start + Len(v) THEN v[i - start]
                            ELSE s[i - (start + Len(v)) + hi]]
  BY <1>1 DEF SliceAssign
<1>a. Len(r) = Least(start, Len(s)) + Len(v)
               + (Len(s) - Most(Least(start, Len(s)), Least(stop, Len(s))))
  BY SliceFacts
<1>4. Len(r) = n BY <1>1, <1>a
<1> HIDE DEF r, hi
<1>5. ASSUME NEW x \in start + Len(v) + 1 .. n PROVE r[x] = ZERO
  <2>1. x \in 1 .. n /\ ~(x <= start) /\ ~(x <= start + Len(v)) BY <1>1, <1>2
  <2>2. r[x] = s[x - (start + Len(v)) + hi] BY ONLY <1>3, <2>1
  <2>3. x - (start + Len(v)) + hi \in start + 1 .. Len(s) BY <1>1, <1>2
  <2>4. QED BY <2>2, <2>3
<1>6. QED BY <1>4, <1>5 DEF r

(* The sizes, when the gap is free. *)
LEMMA GapFacts ==
  ASSUME GapFree, NEW i \in 1 .. LenW
  PROVE  /\ Gap \in Nat /\ Gap + i \in Nat /\ Gap + i > fsbl_sector + Step
         /\ \A k \in 3 .. 5 : Gap + i \in 1 .. Start(k)
         /\ Gap + i \in 1 .. boot_sector
<1>1. /\ fsbl_sector \in Nat /\ Step \in Nat /\ LenW \in Nat /\ os_sector \in Nat
      /\ bootsw_sector \in Nat /\ Step + LenW <= fsbl_sector
  BY SizeAssumption DEF GapFree
<1>2. Gap \in Nat /\ Gap + i \in Nat /\ Gap + i > fsbl_sector + Step
      /\ Gap + i \in 1 .. fsbl_sector + fsbl_sector
  BY <1>1 DEF Gap
<1>3. \A k \in 3 .. 5 : Start(k) \in Nat /\ fsbl_sector + fsbl_sector <= Start(k)
  BY <1>1 DEF Start, PartOfs, boot_sector
<1>4. boot_sector \in Nat /\ fsbl_sector + fsbl_sector <= boot_sector
  BY <1>1 DEF boot_sector
<1>5. QED BY <1>1, <1>2, <1>3, <1>4

LEMMA GapSame ==
  ASSUME UNCHANGED <<fsbl_len, ssbl_len>>
  PROVE  GapFree' = GapFree
  BY SameFiles DEF GapFree

LEMMA GapWord == LayoutInv /\ GapInv /\ PutWord => GapInv'
<1> SUFFICES ASSUME LayoutInv, GapInv, PutWord, GapFree' PROVE GapInv'
  BY DEF GapInv
<1> DEFINE v == Word(PartLen(slot))
<1>1. /\ slot \in 1 .. 4 /\ pc = "word" /\ pc' = "image"
      /\ UNCHANGED <<fsbl_len, ssbl_len, slot, made, img>> /\ copy_cnt' = copy_cnt + LenW
      /\ bank' = SliceAssign(bank, copy_cnt, LenW, v) /\ bank \in Seq(Byte) /\ TypeOK
  BY DEF LayoutInv, Progress, PutWord, TypeOK
<1>2. GapFree /\ FilesFit /\ Filling BY <1>1, GapSame DEF GapFree, Filling
<1>3. /\ v \in Seq(Byte) /\ Len(v) = LenW /\ LenW \in Nat BY <1>1, ContentsFacts, SizeAssumption
<1>4. copy_cnt \in Nat /\ copy_cnt <= Len(bank) /\ copy_cnt = Start(slot)
  <2>1. copy_cnt \in 0 .. boot_sector /\ boot_sector \in Nat BY <1>1, StartFacts DEF TypeOK
  <2>2. boot_sector <= Len(bank) /\ Len(bank) \in Nat BY <1>1, <1>2 DEF LayoutInv, BankKnown
  <2>3. copy_cnt = Start(slot) + 0 BY <1>1, <1>2 DEF LayoutInv, Progress
  <2>4. Start(slot) \in Nat BY <1>1, SlotFacts
  <2>5. QED BY <2>1, <2>2, <2>3, <2>4
<1> HIDE DEF v
<1>5. \A x \in copy_cnt' + 1 .. Len(bank') : bank'[x] = ZERO
  <2>1. \A x \in copy_cnt + 1 .. Len(bank) : bank[x] = ZERO BY <1>2 DEF GapInv
  <2>2. \A x \in copy_cnt + Len(v) + 1 .. Len(bank') : bank'[x] = ZERO
    BY SMTT(40), <1>1, <1>3, <1>4, <2>1, ZerosBehind
  <2>3. QED BY <2>2, <1>1, <1>3
<1>6. ASSUME slot' >= 3, NEW i \in 1 .. LenW PROVE bank'[Gap + i] = ZERO
  <2>1. slot \in 3 .. 5 BY <1>1, <1>6
  <2>2. Gap + i \in 1 .. copy_cnt BY <1>2, <1>4, <2>1, GapFacts
  <2>3. bank[Gap + i] = ZERO BY <1>2, <2>1 DEF GapInv
  <2>4. \A j \in 1 .. copy_cnt : bank'[j] = bank[j]
    <3> DEFINE r == SliceAssign(bank, copy_cnt, LenW, v)
    <3>1. LenW <= copy_cnt + Len(v) BY <1>3, <1>4
    <3>2. \A j \in 1 .. copy_cnt : r[j] = bank[j] BY <1>1, <1>3, <1>4, <3>1, Inserted
    <3> HIDE DEF r
    <3>3. bank' = r BY <1>1 DEF r
    <3>4. QED BY <3>2, <3>3
  <2>5. QED BY <2>2, <2>3, <2>4
<1>7. QED BY <1>1, <1>2, <1>5, <1>6 DEF GapInv

LEMMA GapImage == LayoutInv /\ GapInv /\ PutImage => GapInv'
<1> SUFFICES ASSUME LayoutInv, GapInv, PutImage, GapFree' PROVE GapInv'
  BY DEF GapInv
<1> DEFINE v == Contents(slot)
           stop == PartLen(slot)
<1>1. /\ slot \in 1 .. 4 /\ pc = "image" /\ pc' \in {"word", "append"}
      /\ UNCHANGED <<fsbl_len, ssbl_len, made, img>> /\ slot' = slot + 1
      /\ bank' = SliceAssign(bank, copy_cnt, stop, v) /\ bank \in Seq(Byte) /\ TypeOK
  BY DEF LayoutInv, Progress, PutImage, TypeOK
<1>2. GapFree /\ FilesFit /\ Filling /\ Filling' BY <1>1, GapSame DEF GapFree, Filling
<1>3. /\ v \in Seq(Byte) /\ Len(v) \in Nat /\ stop \in Nat /\ LenW \in Nat
      /\ LenW + Len(v) <= Sector(slot)
  BY <1>1, <1>2, ContentsFacts, SizeAssumption
<1>4. /\ copy_cnt \in Nat /\ copy_cnt <= Len(bank) /\ copy_cnt = Start(slot) + LenW
      /\ Len(bank) \in Nat /\ boot_sector \in Nat
  <2>1. copy_cnt \in 0 .. boot_sector /\ boot_sector \in Nat BY <1>1, StartFacts DEF TypeOK
  <2>2. boot_sector <= Len(bank) /\ Len(bank) \in Nat BY <1>1, <1>2 DEF LayoutInv, BankKnown
  <2>3. copy_cnt = Start(slot) + LenW BY <1>1, <1>2 DEF LayoutInv, Progress
  <2>5. QED BY <2>1, <2>2, <2>3
<1>5. copy_cnt' = Start(slot + 1) /\ copy_cnt + Len(v) <= copy_cnt' /\ copy_cnt' \in Nat
  <2>1. copy_cnt' = copy_cnt + (Sector(slot) - LenW) BY DEF PutImage
  <2>2. Start(slot + 1) = Start(slot) + Sector(slot) /\ Start(slot) \in Nat /\ Sector(slot) \in Nat
    BY <1>1, SlotFacts
  <2> HIDE DEF v
  <2>3. QED BY <2>1, <2>2, <1>3, <1>4
<1> HIDE DEF v, stop
<1>6. \A x \in copy_cnt + Len(v) + 1 .. Len(bank') : bank'[x] = ZERO
  <2>1. \A x \in copy_cnt + 1 .. Len(bank) : bank[x] = ZERO BY <1>2 DEF GapInv
  <2>2. QED BY SMTT(40), <1>1, <1>3, <1>4, <2>1, ZerosBehind
<1>7. Len(bank') \in Nat /\ boot_sector <= Len(bank')
  <2>1. LayoutInv' BY ImageStep
  <2>2. FilesFit' BY DEF GapFree
  <2>3. QED BY <2>1, <2>2, <1>2 DEF LayoutInv, BankKnown, TypeOK
<1>8. \A x \in copy_cnt' + 1 .. Len(bank') : bank'[x] = ZERO BY <1>3, <1>4, <1>5, <1>6, <1>7
<1>9. ASSUME slot' >= 3, NEW i \in 1 .. LenW PROVE bank'[Gap + i] = ZERO
  <2>1. CASE slot = 2
    <3>1. Start(2) = fsbl_sector BY DEF Start, PartOfs
    <3>2. Len(v) = fsbl_len /\ fsbl_len \in Nat
      <4>1. fsbl_len \in Nat BY <1>1, SizeAssumption DEF TypeOK
      <4>2. Contents(2) = Bytes("FSBL.efi", fsbl_len) BY DEF Contents
      <4>3. QED BY <4>1, <4>2, <2>1, PieceTypes DEF v, Files
    <3>3. fsbl_len + LenW <= Step /\ Step \in Nat /\ fsbl_sector \in Nat
      BY <1>2, SizeAssumption DEF GapFree
    <3>4. Gap + i \in Nat /\ Gap + i > fsbl_sector + Step /\ Gap + i \in 1 .. boot_sector
      BY <1>2, GapFacts
    <3>5. Gap + i \in copy_cnt + Len(v) + 1 .. Len(bank')
      BY SMTT(40), <2>1, <3>1, <3>2, <3>3, <3>4, <1>3, <1>4, <1>7
    <3>6. QED BY <3>5, <1>6
  <2>2. CASE slot # 2
    <3>1. slot \in 3 .. 5 BY <1>1, <1>9, <2>2
    <3>a. Gap + i \in 1 .. Start(slot) /\ Start(slot) \in Nat BY <1>1, <1>2, <3>1, GapFacts, SlotFacts
    <3>2. Gap + i \in 1 .. copy_cnt BY <1>3, <1>4, <3>a
    <3>3. bank[Gap + i] = ZERO BY <1>2, <3>1 DEF GapInv
    <3>4. \A j \in 1 .. copy_cnt : bank'[j] = bank[j] BY SMTT(40), <1>1, <1>3, <1>4, SliceFacts
    <3>5. QED BY <3>2, <3>3, <3>4
  <2>3. QED BY <2>1, <2>2
<1>10. QED BY <1>1, <1>2, <1>8, <1>9 DEF GapInv

LEMMA GapAppend == LayoutInv /\ GapInv /\ AppendBank => GapInv'
<1> SUFFICES ASSUME LayoutInv, GapInv, AppendBank, GapFree' PROVE GapInv'
  BY DEF GapInv
<1> DEFINE n == Least(boot_sector, Len(bank))
           v == SubSeq(bank, 1, n)
<1>1. /\ pc = "append" /\ slot = 5 /\ made \in 0 .. 2 /\ made' = made + 1
      /\ UNCHANGED <<fsbl_len, ssbl_len>> /\ pc' \notin {"word", "image", "append"}
      /\ img' = img \o v /\ img \in Seq(Byte) /\ bank \in Seq(Byte) /\ boot_sector \in Nat
  BY StartFacts DEF LayoutInv, AppendBank, CutBank, Progress, Filling, Banks, TypeOK
<1>2. GapFree /\ FilesFit /\ Filling /\ ~Filling' BY <1>1, GapSame DEF GapFree, Filling
<1>3. n = boot_sector
  <2>1. boot_sector <= Len(bank) BY <1>2 DEF LayoutInv, BankKnown
  <2>2. QED BY <2>1 DEF Least
<1> HIDE DEF n
<1>4. v \in Seq(Byte) /\ Len(v) = boot_sector /\ \A j \in 1 .. boot_sector : v[j] = bank[j]
  <2>1. boot_sector <= Len(bank) BY <1>2 DEF LayoutInv, BankKnown
  <2>2. QED BY <2>1, <1>1, <1>3
<1> HIDE DEF v
<1>5. /\ \A j \in 1 .. Len(img) : img'[j] = img[j]
      /\ \A j \in 1 .. boot_sector : img'[Len(img) + j] = v[j]
  BY <1>1, <1>4, EndToEnd
<1>6. Len(img) = BankOfs(made + 1) /\ Blk \in Nat /\ BankOfs(made + 1) \in Nat
  BY <1>1, <1>2, BankFacts, SizeAssumption DEF LayoutInv, BanksAligned
<1>7. ASSUME NEW i \in 1 .. LenW PROVE img'[Blk + (Gap + i)] = ZERO
  <2>1. Gap + i \in 1 .. boot_sector BY <1>2, GapFacts
  <2>2. CASE made = 0
    <3>1. Len(img) = Blk BY <2>2, <1>6, BankFacts
    <3>2. bank[Gap + i] = ZERO BY <1>1, <1>2 DEF GapInv
    <3>3. QED BY <2>1, <3>1, <3>2, <1>4, <1>5
  <2>3. CASE made \in 1 .. 2
    <3>1. Blk + boot_sector <= BankOfs(made + 1)
      <4>1. 1 \in 1 .. 3 /\ made + 1 \in 1 .. 3 /\ 1 < made + 1 BY <2>3
      <4>2. QED BY <4>1, BankFacts
    <3>2. Blk + (Gap + i) \in 1 .. Len(img) BY <2>1, <3>1, <1>1, <1>6
    <3>3. img[Blk + (Gap + i)] = ZERO BY <2>3, <1>2 DEF GapInv
    <3>4. QED BY <3>2, <3>3, <1>5
  <2>4. made = 0 \/ made \in 1 .. 2
    <3>1. made \in 0 .. 2 BY <1>1
    <3>2. QED BY <3>1
  <2>5. QED BY <2>2, <2>3, <2>4
<1>8. QED BY <1>2, <1>7 DEF GapInv

LEMMA GapStorage == LayoutInv /\ GapInv /\ AppendStorage => GapInv'
<1> SUFFICES ASSUME LayoutInv, GapInv, AppendStorage, GapFree' PROVE GapInv'
  BY DEF GapInv
<1>1. /\ pc = "storage" /\ pc' = "done" /\ made = 3 /\ UNCHANGED <<fsbl_len, ssbl_len, made>>
  BY DEF LayoutInv, AppendStorage, Progress, Banks
<1>2. GapFree /\ FilesFit /\ ~Filling' BY <1>1, GapSame DEF GapFree, Filling
<1>3. Len(img) = BankOfs(made + 1) BY <1>1, <1>2 DEF LayoutInv, BanksAligned
<1>4. /\ Len(img) = BankOfs(4) /\ BankOfs(4) \in Nat /\ Blk + boot_sector <= BankOfs(4)
      /\ Blk \in Nat /\ boot_sector \in Nat
  <2>1. boot_sector \in Nat /\ Blk \in Nat BY StartFacts, SizeAssumption
  <2>2. /\ BankOfs(2) = Blk + boot_sector /\ BankOfs(3) = BankOfs(2) + boot_sector
        /\ BankOfs(4) = BankOfs(3) + boot_sector
    BY BankFacts
  <2>3. QED BY <1>1, <1>3, <2>1, <2>2
<1>5. ASSUME NEW i \in 1 .. LenW PROVE img'[Blk + (Gap + i)] = ZERO
  <2>1. Gap + i \in 1 .. boot_sector BY <1>2, GapFacts
  <2>2. Blk + (Gap + i) \in 1 .. Len(img) BY <2>1, <1>4
  <2>3. img[Blk + (Gap + i)] = ZERO BY <1>1, <1>2 DEF GapInv
  <2>4. img'[Blk + (Gap + i)] = img[Blk + (Gap + i)] BY <2>2, StoragePrefix DEF LayoutInv
  <2>5. QED BY <2>3, <2>4
<1>6. QED BY <1>2, <1>5 DEF GapInv

LEMMA NextGap == LayoutInv /\ GapInv /\ [Next]_vars => GapInv'
<1> SUFFICES ASSUME LayoutInv, GapInv, [Next]_vars PROVE GapInv' OBVIOUS
<1>1. CASE WriteHeader
  <2>1. made' = 0 /\ pc' = "bank" BY <1>1 DEF WriteHeader, LayoutInv, Progress
  <2>2. QED BY <2>1 DEF GapInv, Filling
<1>2. CASE NewBank
  <2>1. /\ copy_cnt' = 0 /\ slot' = 1 /\ bank' = Zeros(boot_sector)
        /\ UNCHANGED <<fsbl_len, ssbl_len, made, img>>
    BY <1>2 DEF NewBank
  <2>2. \A x \in copy_cnt' + 1 .. Len(bank') : bank'[x] = ZERO
    <3>1. boot_sector \in Nat BY StartFacts
    <3>2. Len(Zeros(boot_sector)) = boot_sector /\ \A x \in 1 .. boot_sector : Zeros(boot_sector)[x] = ZERO
      BY <3>1, PieceTypes
    <3>3. copy_cnt' + 1 = 1 BY <2>1
    <3>4. QED BY <2>1, <3>2, <3>3
  <2>3. GapFree' = GapFree BY <2>1, GapSame
  <2>4. QED BY <2>1, <2>2, <2>3 DEF GapInv
<1>3. CASE UNCHANGED vars
  <2>1. UNCHANGED <<fsbl_len, ssbl_len, pc, bank, slot, copy_cnt, made, img>> BY <1>3 DEF vars
  <2>2. GapFree' = GapFree BY <2>1, GapSame
  <2>3. QED BY <2>1, <2>2 DEF GapInv, Filling
<1>4. QED BY <1>1, <1>2, <1>3, GapWord, GapImage, GapAppend, GapStorage DEF Next

LEMMA GapSeen == LayoutInv /\ GapInv => GapRead
<1> SUFFICES ASSUME LayoutInv, GapInv, GapFree, pc = "done" PROVE ReadWord(img, CopyOfs(2)) = 0
  BY DEF GapRead, GapFree
<1>1. Blk \in Nat /\ Step \in Nat /\ fsbl_sector \in Nat /\ LenW \in Nat BY SizeAssumption
<1>2. CopyOfs(2) = Blk + Step + fsbl_sector /\ CopyOfs(2) \in Nat
  <2>1. PartOfs(2) = fsbl_sector BY DEF PartOfs
  <2>2. QED BY <1>1, <2>1 DEF CopyOfs, BOOT_FW_SRTOFS
<1>3. ASSUME NEW i \in 1 .. LenW PROVE img[CopyOfs(2) + i] = Word(0)[i]
  <2>1. CopyOfs(2) + i = Blk + (Gap + i) BY <1>1, <1>2 DEF Gap
  <2>2. made >= 1 BY DEF LayoutInv, Progress, Banks
  <2>3. img[Blk + (Gap + i)] = ZERO BY <2>2 DEF GapInv
  <2>4. QED BY <2>1, <2>3 DEF Word
<1>4. QED BY <1>2, <1>3, WordRead

(* FSBL's offset of bank 2 in an image fresh from rawprt.py: the length    *)
(* word is 0, for all sizes of sectors and all files that end before it.   *)
THEOREM GapEmpty == Spec => []GapRead
<1>1. Init => GapInv BY DEF Init, GapInv, Filling
<1>2. Spec => []GapInv BY <1>1, LayoutAlways, NextGap, PTL DEF Spec
<1>3. QED BY <1>2, LayoutAlways, GapSeen, PTL
-----------------------------------------------------------------------------
(* Division with remainder, and that it has one result. *)
LEMMA DivMod ==
  ASSUME NEW n \in Nat, NEW d \in Nat \ {0}
  PROVE  n \div d \in Nat /\ n % d \in 0 .. d - 1 /\ n = d * (n \div d) + (n % d)
  OBVIOUS

LEMMA DivUnique ==
  ASSUME NEW q \in Nat, NEW d \in Nat \ {0}, NEW r \in 0 .. d - 1
  PROVE  (d * q + r) \div d = q /\ (d * q + r) % d = r
  OBVIOUS

(* ALIGN_VALUE adds what is left of the last block. *)
LEMMA AlignedUp ==
  ASSUME NEW n \in Nat
  PROVE  LET room == (Blk - (n % Blk)) % Blk IN
         /\ ALIGN_VALUE(n) = n + room
         /\ room \in 0 .. Blk - 1
<1> Blk \in Nat \ {0} BY SizeAssumption
<1> DEFINE q == n \div Blk
           r == n % Blk
<1>1. q \in Nat /\ r \in 0 .. Blk - 1 /\ n = Blk * q + r BY DivMod
<1> HIDE DEF q, r
<1>2. CASE r = 0
  <2>1. n + Blk - 1 = Blk * q + (Blk - 1) /\ Blk - 1 \in 0 .. Blk - 1 BY <1>1, <1>2
  <2>2. (n + Blk - 1) \div Blk = q BY <2>1, <1>1, DivUnique
  <2>3. Blk - r = Blk * 1 + 0 /\ 0 \in 0 .. Blk - 1 BY <1>1, <1>2
  <2>4. (Blk - r) % Blk = 0 BY <2>3, DivUnique
  <2>5. q * Blk = Blk * q BY <1>1
  <2>6. Blk * q \in Nat /\ n = Blk * q BY <1>1, <1>2
  <2>7. ALIGN_VALUE(n) = n BY <2>2, <2>5, <2>6 DEF ALIGN_VALUE
  <2>8. (Blk - (n % Blk)) % Blk = 0 BY <2>4 DEF r
  <2>9. QED BY <2>6, <2>7, <2>8
<1>3. CASE r # 0
  <2>1. Blk * (q + 1) = Blk * q + Blk /\ Blk * q \in Nat /\ (q + 1) * Blk = Blk * (q + 1)
    BY <1>1
  <2>2. n + Blk - 1 = Blk * (q + 1) + (r - 1) /\ r - 1 \in 0 .. Blk - 1 /\ q + 1 \in Nat
    BY <1>1, <1>3, <2>1
  <2>3. (n + Blk - 1) \div Blk = q + 1 BY <2>2, <1>1, DivUnique
  <2>4. Blk - r = Blk * 0 + (Blk - r) /\ Blk - r \in 0 .. Blk - 1 BY <1>1, <1>3
  <2>5. (Blk - r) % Blk = Blk - r BY <2>4, DivUnique
  <2>6. QED BY <2>1, <2>3, <2>4, <2>5, <1>1, <1>3 DEF r, ALIGN_VALUE
<1>4. QED BY <1>2, <1>3

LEMMA CopySeen == LayoutInv => CopyEdge
<1> SUFFICES ASSUME LayoutInv, FilesFit, pc = "done", ssbl_len > 0 PROVE CopyEdge
  BY DEF CopyEdge
<1> DEFINE room == (Blk - (ssbl_len % Blk)) % Blk
           lost == IF room >= LenW THEN 0 ELSE LenW - room
           seen == Least(ssbl_len - lost, fsbl_len)
           base == Blk + fsbl_sector
<1>1. /\ TypeOK /\ made = 3 /\ fsbl_len \in Nat /\ ssbl_len \in Nat
      /\ LenW \in Nat /\ Blk \in Nat /\ base \in Nat /\ fsbl_sector \in Nat
  BY SizeAssumption DEF LayoutInv, Progress, Banks, TypeOK
<1>2. HasPart(img, Blk, 2)
  <2>1. HasPart(img, BankOfs(1), 2) BY <1>1 DEF LayoutInv, BanksAligned
  <2>2. QED BY <2>1, BankFacts
<1>3. /\ PartOfs(2) = fsbl_sector /\ PartLen(2) = ssbl_len
      /\ Contents(2) = Bytes("FSBL.efi", fsbl_len) /\ Len(Contents(2)) = fsbl_len
  BY <1>1, PieceTypes DEF PartOfs, PartLen, Contents, Files
<1>4. CopyOfs(1) = base BY <1>1, <1>3, SizeAssumption DEF CopyOfs, BOOT_FW_SRTOFS
<1>5. ReadWord(img, base) = ssbl_len
  <2>1. \A i \in 1 .. LenW : img[base + i] = Word(ssbl_len)[i] BY <1>2, <1>3 DEF HasPart
  <2>2. QED BY <2>1, <1>1, WordRead
<1>6. room \in Nat /\ ALIGN_VALUE(ssbl_len) = ssbl_len + room BY <1>1, AlignedUp
<1> HIDE DEF room, base
<1>7. CopiedLen(1) = ssbl_len + room - LenW
  <2>1. ReadWord(img, CopyOfs(1)) = ssbl_len BY <1>4, <1>5
  <2>2. CopiedLen(1) = ALIGN_VALUE(ReadWord(img, CopyOfs(1))) - LenW BY DEF CopiedLen
  <2>3. QED BY <2>1, <2>2, <1>1, <1>6
<1>8. Least(CopiedLen(1), ssbl_len) = ssbl_len - lost BY <1>1, <1>6, <1>7 DEF Least
<1>9. ASSUME NEW i \in 1 .. seen PROVE Copied(1)[i] = Contents(2)[i]
  <2>1. i \in 1 .. CopiedLen(1) /\ i \in 1 .. fsbl_len BY <1>1, <1>6, <1>7 DEF Least
  <2>2. Copied(1)[i] = img[base + LenW + i] BY <2>1, <1>4 DEF Copied, ReadAt
  <2>3. QED BY <2>1, <2>2, <1>2, <1>3 DEF HasPart, base
<1>10. QED BY <1>8, <1>9 DEF CopyEdge, room

(* SBC_BootModeNormalAndpUdate on an image of rawprt.py: of an SSBL.efi of *)
(* any size, for any size of block and word, the copy lacks exactly the    *)
(* bytes of the end that the word displaced from the last block.           *)
THEOREM CopyCut == Spec => []CopyEdge
  BY CopySeen, LayoutAlways, PTL

=============================================================================
