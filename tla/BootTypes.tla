------------------------------ MODULE BootTypes ------------------------------
(***************************************************************************)
(* The vocabulary shared by the first stage loader (FSBL), the second      *)
(* stage loader (SSBL) and the tools that prepare the raw partition: boot  *)
(* and key modes, the raw-partition header, the firmware banks and where   *)
(* the loaders look for a bank's SSBL image.                               *)
(***************************************************************************)
EXTENDS Integers

(* enum of SBC_FileCtrl.h: boot modes *)
BOOT_MODE_NONE     == 0
BOOT_MODE_NORMAL   == 1
BOOT_MODE_UPDATE   == 2
BOOT_MODE_RECOVERY == 3
BOOT_MODE_FACTORY  == 4
BOOT_MODE_UNKNOWN  == 5

(* enum of SBC_FileCtrl.h: key modes *)
KEY_MODE_NONE    == 0
KEY_MODE_NORMAL  == 1
KEY_MODE_BOOT    == 2
KEY_MODE_UPDATE  == 3
KEY_MODE_UNKNOWN == 4

(* What SBC_ReadBootMode can return *)
FileModes == {BOOT_MODE_NORMAL, BOOT_MODE_UPDATE, BOOT_MODE_FACTORY, BOOT_MODE_UNKNOWN}

(* SB_PROC_ST_NRMA and SB_PROC_ST_ABNRAM of SBC_BootProc.h *)
NRMA   == "NRMA"
ABNRAM == "ABNRAM"

(* SBCStatus, told apart only as success or not, and block handles *)
SBCOK   == "SBCOK"
SBCFAIL == "SBCFAIL"
NULL == "null"
RAW  == "raw"

MAX_UINT16 == 65535
UINT16 == 0 .. MAX_UINT16

-----------------------------------------------------------------------------
(***************************************************************************)
(* The raw-partition header, LBA 0 of the raw device.  bootpres is two     *)
(* big-endian words, each a bank number in the high half and a letter in   *)
(* the low half: "C" marks the current bank, "P" the previous one.         *)
(***************************************************************************)
Entry  == [id : UINT16, tag : {"C", "P", "other"}]
Pres   == [low : Entry, hi : Entry]
Header == [bm : UINT16, km : UINT16, pres : Pres]

(* The bank both UefiMain functions read out of bootpres. *)
CurrBank(pres) ==
  IF pres.low.tag = "C" THEN pres.low.id
  ELSE IF pres.hi.tag = "C" THEN pres.hi.id
  ELSE 0

Banks == {1, 2}

(* The FSBL's FindPreviouslyBank: an unknown bank yields 0xFFFFFFFF.  The  *)
(* value is written as one no bank has (TLC's integers are 32 bits wide).  *)
NoBank32 == 65536
FSBL_FindPreviouslyBank(bankid) ==
  CASE bankid = 1 -> 2 [] bankid = 2 -> 1 [] OTHER -> NoBank32

(* Mutant of the next definition: the predecessor taken by subtraction. *)
FindPreviouslyBank_Sub(bankid) == IF bankid = 1 THEN 2 ELSE bankid - 1

(* The SSBL's FindPreviouslyBank: an unknown bank yields 0. *)
FindPreviouslyBank(bankid) ==
  CASE bankid = 1 -> 2 [] bankid = 2 -> 1 [] OTHER -> 0

-----------------------------------------------------------------------------
(***************************************************************************)
(* Layout of the raw device, in bytes.                                     *)
(***************************************************************************)
SBC_RAWPRT_DFLT_BLK_SZ == 512

RAWPRT_HDR_LEN == 128                     \* sizeof(rawprt_hdr_t)
BOOT_FW_IMGMAX  == 134217728              \* 128 << 20
BOOT_SSBL_OFS   == 4194304                \* 0x400000
BOOT_SECTOR_OFS(b) == 512 + BOOT_FW_IMGMAX * (b - 1)  \* BOOT_SECTOR1_OFS, BOOT_SECTOR2_OFS

(* Where FSBL and _ssbl_image_load look for bank b's SSBL: the bits of     *)
(* BOOT_SECTOR1_OFS, (b - 1) << 20 and BOOT_SSBL_OFS do not overlap, so    *)
(* the code's bitwise or is a sum.                                         *)
SsblReadOfs(b) == 512 + 1048576 * (b - 1) + BOOT_SSBL_OFS

(* Images a file or a part of the raw device can hold: a bank's SSBL, or   *)
(* the bytes at an offset where no bank starts, or a half-written file.   *)
Images == {"none", "gap", "torn", "bank1", "bank2"}
BankImage(b) == CASE b = 1 -> "bank1" [] b = 2 -> "bank2" [] OTHER -> "none"
ImageAt(ofs) ==
  CASE ofs = BOOT_SECTOR_OFS(1) + BOOT_SSBL_OFS -> "bank1"
    [] ofs = BOOT_SECTOR_OFS(2) + BOOT_SSBL_OFS -> "bank2"
    [] OTHER -> "gap"

(* EFI_BLOCK_IO_PROTOCOL.WriteBlocks refuses a buffer that is not a whole  *)
(* number of blocks (EFI_BAD_BUFFER_SIZE) and then writes nothing.         *)
WholeBlocks(len) == len % SBC_RAWPRT_DFLT_BLK_SZ = 0

=============================================================================
