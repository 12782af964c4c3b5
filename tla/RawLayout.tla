------------------------------ MODULE RawLayout ------------------------------
(***************************************************************************)
(* rawprt.py, which makes the image of the raw device, and the places at   *)
(* which the loaders look for what it wrote.  The tool and the loaders     *)
(* have a definition of the layout each; nothing but these runs compares   *)
(* them.                                                                   *)
(*                                                                         *)
(* The tool fills a bank by assignments to slices of a bytearray that say  *)
(* a start and a length where Python takes a start and a stop: a stop      *)
(* before the start inserts and moves the rest of the array up.  Sizes are *)
(* parameters: word, block, sectors.  Offsets count from 0.                *)
(***************************************************************************)
EXTENDS Naturals, Sequences

CONSTANTS
  LenW,         \* bytes of a length word: 4
  Blk,          \* block of the raw device: 512
  Step,         \* what the loaders add for bank 2: 1 MiB
  fsbl_sector, os_sector, bootsw_sector,   \* 4, 20, 100 MiB
  ResLen,       \* SYS_OSID_MAX_LEN and SYS_PRES_MAX_LEN together: 128
  CertLen,      \* SYS_CERT_LEN: 2048
  ListLen,      \* SYS_SWLIST_OFS_LEN: 8192
  FileLens,     \* sizes FSBL.efi and SSBL.efi may have
  CertLens      \* sizes of root_ca_ecc.crt.der

ASSUME SizeAssumption ==
  /\ LenW \in Nat \ {0} /\ Blk \in Nat \ {0} /\ Step \in Nat
  /\ fsbl_sector \in Nat /\ os_sector \in Nat /\ bootsw_sector \in Nat
  /\ LenW < fsbl_sector /\ LenW < os_sector /\ LenW < bootsw_sector /\ LenW < Blk
  /\ ResLen \in Nat /\ CertLen \in Nat /\ ListLen \in Nat
  /\ FileLens \subseteq Nat /\ CertLens \subseteq 0 .. CertLen

Banks == 3
boot_sector == fsbl_sector + fsbl_sector + os_sector + bootsw_sector

(* A byte: zero, a byte of the header, byte i of the length word of n, or  *)
(* byte i of a file.                                                       *)
Files == {"FSBL.efi", "SSBL.efi", "root_ca"}
Byte == [f : Files \cup {"zero", "hdr", "len"}, n : Nat, i : Nat]
ZERO == [f |-> "zero", n |-> 0, i |-> 0]
Zeros(n) == [i \in 1 .. n |-> ZERO]
Word(n) == [i \in 1 .. LenW |-> IF n = 0 THEN ZERO ELSE [f |-> "len", n |-> n, i |-> i]]
Bytes(file, n) == [i \in 1 .. n |-> [f |-> file, n |-> n, i |-> i]]
Header == [i \in 1 .. Blk |-> [f |-> "hdr", n |-> Blk, i |-> i]]

VARIABLES
  fsbl_len, ssbl_len, ca_len,   \* sizes of the files
  pc,
  bank,      \* fwimg_array
  slot,      \* the part of the bank that is next
  copy_cnt,  \* where it goes
  made,      \* banks written to the file
  img        \* rawprt.bin

vars == <<fsbl_len, ssbl_len, ca_len, pc, bank, slot, copy_cnt, made, img>>

Init ==
  /\ fsbl_len \in FileLens /\ ssbl_len \in FileLens /\ ca_len \in CertLens
  /\ pc = "header" /\ bank = << >> /\ slot = 1 /\ copy_cnt = 0 /\ made = 0 /\ img = << >>

-----------------------------------------------------------------------------
Least(a, b) == IF a <= b THEN a ELSE b
Most(a, b) == IF a <= b THEN b ELSE a

(* s[start : stop] = v, as Python does it: start and stop are clipped to   *)
(* the array, and a stop before start stands for start.                    *)
SliceAssign(s, start, stop, v) ==
  LET lo == Least(start, Len(s))
      hi == Most(lo, Least(stop, Len(s))) IN
  [i \in 1 .. lo + Len(v) + (Len(s) - hi) |->
     IF i <= lo THEN s[i]
     ELSE IF i <= lo + Len(v) THEN v[i - lo]
     ELSE s[i - (lo + Len(v)) + hi]]

(* The four parts of a bank as make_fw_image puts them: the length word,   *)
(* the contents, the room.  The second has the length of SSBL.efi and the  *)
(* contents of FSBL.efi; OS and boot software are stand-ins.               *)
PartLen(k) == IF k \in {1, 3} THEN fsbl_len ELSE ssbl_len
Contents(k) == IF k = 4 THEN Bytes("SSBL.efi", ssbl_len) ELSE Bytes("FSBL.efi", fsbl_len)
Sector(k) == IF k <= 2 THEN fsbl_sector ELSE IF k = 3 THEN os_sector ELSE bootsw_sector

(* make_rawprt_header and the first write. *)
WriteHeader ==
  /\ pc = "header" /\ pc' = "bank"
  /\ img' = Header
  /\ UNCHANGED <<fsbl_len, ssbl_len, ca_len, bank, slot, copy_cnt, made>>

NewBank ==
  /\ pc = "bank" /\ pc' = "word"
  /\ bank' = Zeros(boot_sector) /\ slot' = 1 /\ copy_cnt' = 0
  /\ UNCHANGED <<fsbl_len, ssbl_len, ca_len, made, img>>

(* fwimg_array[copy_cnt : 4] = len.to_bytes(4, ...) *)
PutWord ==
  /\ pc = "word" /\ pc' = "image"
  /\ bank' = SliceAssign(bank, copy_cnt, LenW, Word(PartLen(slot)))
  /\ copy_cnt' = copy_cnt + LenW
  /\ UNCHANGED <<fsbl_len, ssbl_len, ca_len, slot, made, img>>

(* Mutant: the next part is put a whole sector further on. *)
PutImage_Far ==
  /\ pc = "image"
  /\ bank' = SliceAssign(bank, copy_cnt, PartLen(slot), Contents(slot))
  /\ copy_cnt' = copy_cnt + Sector(slot)
  /\ slot' = slot + 1
  /\ pc' = IF slot < 4 THEN "word" ELSE "append"
  /\ UNCHANGED <<fsbl_len, ssbl_len, ca_len, made, img>>

(* fwimg_array[copy_cnt : len] = content *)
PutImage ==
  /\ pc = "image"
  /\ bank' = SliceAssign(bank, copy_cnt, PartLen(slot), Contents(slot))
  /\ copy_cnt' = copy_cnt + (Sector(slot) - LenW)
  /\ slot' = slot + 1
  /\ pc' = IF slot < 4 THEN "word" ELSE "append"
  /\ UNCHANGED <<fsbl_len, ssbl_len, ca_len, made, img>>

(* Mutant: what the insertions moved past the end is kept. *)
CutBank_Uncut == bank

(* fwimg_array[:boot_sector] *)
CutBank == SubSeq(bank, 1, Least(boot_sector, Len(bank)))

(* The bank is appended to the file: bank 1, bank 2, the factory bank. *)
AppendBank ==
  /\ pc = "append"
  /\ img' = img \o CutBank
  /\ made' = made + 1
  /\ pc' = IF made' < Banks THEN "bank" ELSE "storage"
  /\ UNCHANGED <<fsbl_len, ssbl_len, ca_len, bank, slot, copy_cnt>>

(* A certificate as the tool puts it: the word and then room for CertLen.  *)
CertPart == Word(ca_len) \o Bytes("root_ca", ca_len) \o Zeros(CertLen - ca_len)

(* Mutant: the certificates follow the OS id at once. *)
AppendStorage_Short ==
  /\ pc = "storage" /\ pc' = "done"
  /\ img' = img \o Zeros(ResLen \div 2) \o CertPart \o CertPart \o CertPart \o CertPart \o Zeros(ListLen)
  /\ UNCHANGED <<fsbl_len, ssbl_len, ca_len, bank, slot, copy_cnt, made>>

(* make_bootfw_storage: four times the same certificate. *)
AppendStorage ==
  /\ pc = "storage" /\ pc' = "done"
  /\ img' = img \o Zeros(ResLen) \o CertPart \o CertPart \o CertPart \o CertPart \o Zeros(ListLen)
  /\ UNCHANGED <<fsbl_len, ssbl_len, ca_len, bank, slot, copy_cnt, made>>

Next ==
  \/ WriteHeader \/ NewBank \/ PutWord \/ PutImage \/ AppendBank \/ AppendStorage

Spec == Init /\ [][Next]_vars

-----------------------------------------------------------------------------
(* The loaders' side. *)

(* boot_fw_inf_t: where part k of a bank begins. *)
PartOfs(k) ==
  IF k = 1 THEN 0
  ELSE IF k = 2 THEN fsbl_sector
  ELSE IF k = 3 THEN fsbl_sector + fsbl_sector
  ELSE fsbl_sector + fsbl_sector + os_sector

(* BOOT_SECTOR1_OFS .. BOOT_SECTOR3_OFS and SYS_CONF_START_OFS. *)
BOOT_FW_SRTOFS == Blk
BankOfs(b) == BOOT_FW_SRTOFS + (b - 1) * boot_sector
SYS_CONF_START_OFS == BankOfs(Banks + 1)
SYS_CONF_ROOT_CA_OFS == ResLen
SYS_CONF_DEVID_CRT_OFS == SYS_CONF_ROOT_CA_OFS + CertLen

(* n bytes at an offset. *)
ReadAt(area, ofs, n) == [i \in 1 .. n |-> area[ofs + i]]

(* A length word as UINT32: 0, the number that was written, or some other. *)
ReadWord(area, ofs) ==
  LET w == ReadAt(area, ofs, LenW) IN
  IF w = Zeros(LenW) THEN 0
  ELSE IF w = Word(w[1].n) THEN w[1].n ELSE Len(area)

(* Mutant: the length is cut to whole blocks. *)
ALIGN_VALUE_Down(n) == (n \div Blk) * Blk

ALIGN_VALUE(n) == ((n + Blk - 1) \div Blk) * Blk

(* SBC_BootModeNormalAndpUdate: the SSBL of the bank is read with its word *)
(* in as many whole blocks as the image alone would take, and what follows *)
(* the word is written to SSBL.efi.                                        *)
CopyOfs(b) == BOOT_FW_SRTOFS + (b - 1) * Step + PartOfs(2)
CopiedLen(b) == ALIGN_VALUE(ReadWord(img, CopyOfs(b))) - LenW
Copied(b) == ReadAt(img, CopyOfs(b) + LenW, CopiedLen(b))

-----------------------------------------------------------------------------
(* Both files fit a sector behind their length word. *)
FilesFit == fsbl_len + LenW <= fsbl_sector /\ fsbl_len + LenW <= os_sector
            /\ ssbl_len + LenW <= fsbl_sector /\ ssbl_len + LenW <= bootsw_sector

(* Part k of a bank that begins at base, as the tool meant it. *)
HasPart(area, base, k) ==
  /\ \A i \in 1 .. LenW : area[base + PartOfs(k) + i] = Word(PartLen(k))[i]
  /\ \A i \in 1 .. Len(Contents(k)) :
       area[base + PartOfs(k) + LenW + i] = Contents(k)[i]

(* Types of the tool's run. *)
TypeOK ==
  /\ fsbl_len \in FileLens /\ ssbl_len \in FileLens /\ ca_len \in CertLens
  /\ pc \in {"header", "bank", "word", "image", "append", "storage", "done"}
  /\ slot \in 1 .. 5 /\ copy_cnt \in 0 .. boot_sector /\ made \in 0 .. Banks
  /\ bank \in Seq(Byte) /\ img \in Seq(Byte)

(* The parts already put into the bank stay where boot_fw_inf_t has them,  *)
(* although every later assignment inserts and moves what is behind it.    *)
PartsKept ==
  FilesFit /\ pc \in {"word", "image", "append"} =>
    \A k \in 1 .. slot - 1 : HasPart(bank, 0, k)

(* Each bank begins at the loaders' BOOT_SECTOR offset, and the system     *)
(* configuration at SYS_CONF_START_OFS, whatever the sizes of the files up *)
(* to a sector: the insertions never leave a bank too short to cut.        *)
BanksAligned ==
  FilesFit /\ pc # "header" =>
    /\ pc # "done" => Len(img) = BankOfs(made + 1)
    /\ \A b \in 1 .. made : \A k \in 1 .. 4 : HasPart(img, BankOfs(b), k)

(* What lies at the loaders' offsets of the finished configuration area:   *)
(* no base answer where SBC_BaseAnswerValidate looks for it, the whole     *)
(* root certificate, and, since the tool left LenW bytes more before it,   *)
(* no device certificate.  (The readers of the certificates,               *)
(* SBC_FSBLIntgCheck and SBC_DeviceIdKyeVerify, are called in no build.)   *)
ConfigRead ==
  FilesFit /\ pc = "done" =>
    LET conf == SYS_CONF_START_OFS
        root == conf + SYS_CONF_ROOT_CA_OFS IN
    /\ ReadAt(img, conf, ResLen) = Zeros(ResLen)
    /\ ReadWord(img, root) = ca_len
    /\ ReadAt(img, root + LenW, ca_len) = Bytes("root_ca", ca_len)
    /\ ca_len + LenW <= CertLen => ReadWord(img, conf + SYS_CONF_DEVID_CRT_OFS) = 0

(* The copy of bank 1's SSBL has all bytes of the image when its last      *)
(* block has room for the word as well, and else lacks as many at the end  *)
(* as do not fit, never more than the word has.                            *)
CopyEdge ==
  FilesFit /\ pc = "done" /\ ssbl_len > 0 =>
    LET room == (Blk - (ssbl_len % Blk)) % Blk
        lost == IF room >= LenW THEN 0 ELSE LenW - room
        seen == Least(ssbl_len - lost, fsbl_len) IN
    /\ Least(CopiedLen(1), ssbl_len) = ssbl_len - lost
    /\ \A i \in 1 .. seen : Copied(1)[i] = Contents(2)[i]

(* Of an image fresh from the tool, FSBL takes 0 for the length of bank    *)
(* 2's SSBL as long as FSBL.efi ends before the place it looks at: the     *)
(* bytes behind a part stay zero under all later insertions, a read of no  *)
(* blocks is refused, and a boot that selects bank 2 ends in FSBL          *)
(* (GapUsable of BootState is FALSE).                                      *)
GapRead ==
  FilesFit /\ pc = "done" /\ fsbl_len + LenW <= Step /\ Step + LenW <= fsbl_sector =>
    ReadWord(img, CopyOfs(2)) = 0

=============================================================================
