------------------------------ MODULE DiceKeys ------------------------------
(***************************************************************************)
(* The keys SSBL derives in a boot: SBC_DiceKeysGen (device id, firmware   *)
(* id, OS id, each a hash over the one before) and SBC_GenMigrationKey.    *)
(* SHA-256 is symbolic: a digest is the message it was made of, so two     *)
(* digests are equal exactly when the messages are.  Between boots the     *)
(* installed images and the hardware change; within a boot reads fail, and *)
(* not every failure is noticed.  The boot chain takes a derivation as one *)
(* step that succeeds or not; here is what the keys stand for.             *)
(***************************************************************************)
EXTENDS Naturals, Sequences

CONSTANTS
  Chars,       \* of serial numbers; the first 32 bytes of a file count as one
  Sites,       \* what may be installed: records as in SiteAssumption
  MaxBoots,    \* derivations in a behaviour
  MaxFaults    \* failing reads in a behaviour

ASSUME SiteAssumption ==
  \A s \in Sites :
    /\ s.mb \in Seq(Chars) /\ s.mm \in Seq(Chars)
    /\ s.nvme \in Seq(Chars) /\ s.spare \in Seq(Chars)
    /\ s.fsbl.head \in Chars /\ s.copy.head \in Chars /\ s.curr \in {1, 2}
    /\ \A b \in {1, 2} :
         s.bank[b] = [fsbl |-> s.bank[b].fsbl, ssbl |-> s.bank[b].ssbl, os |-> s.bank[b].os]

VARIABLES
  site,     \* what is installed
  pc,       \* the step of the derivation
  clean,    \* has no read failed in this boot?
  info,     \* the serial numbers of the call that is running
  rdlv,     \* the bytes of FSBL.efi that go into the device id
  devid, fwid, osid, migid,
  fwinf,    \* the bank buffer of SBC_GenMigrationKey
  hashes,   \* migkey_hash
  log,      \* completed derivations
  boots, faults

ids == <<devid, fwid, osid, migid>>
mig == <<fwinf, hashes>>
vars == <<site, pc, clean, info, rdlv, ids, mig, log, boots, faults>>

Hash(msg) == [sha256 |-> msg]
NoKey == Hash(<<>>)
Zeros == "zeros"      \* a zeroed buffer
Pool  == "pool"       \* memory that was allocated and never written

(* mb, mm and nvme are serial numbers, spare that of a second NVMe drive;  *)
(* fsbl is \EFI\BOOT\FSBL.efi, its first 32 bytes and the rest; copy has   *)
(* what the other file systems hold under the names of FSBL.efi and of the *)
(* kernel, as far as it is read; bank[b] the images of bank b on the raw   *)
(* device; curr the current bank.                                          *)
Other(b) == 3 - b
Current(s) == s.bank[s.curr]
Newer(s) == s.bank[Other(s.curr)]

NoSerials == [mb |-> <<>>, mm |-> <<>>, nvme |-> <<>>]
NoImages == [fsbl |-> Pool, ssbl |-> Pool, os |-> Pool]

Fresh ==
  /\ clean' = TRUE /\ info' = NoSerials /\ rdlv' = Zeros
  /\ devid' = NoKey /\ fwid' = NoKey /\ osid' = NoKey /\ migid' = NoKey
  /\ fwinf' = NoImages /\ hashes' = <<>>

Init ==
  /\ site \in Sites /\ pc = "off"
  /\ clean = TRUE /\ info = NoSerials /\ rdlv = Zeros
  /\ devid = NoKey /\ fwid = NoKey /\ osid = NoKey /\ migid = NoKey
  /\ fwinf = NoImages /\ hashes = <<>>
  /\ log = {} /\ boots = 0 /\ faults = 0

-----------------------------------------------------------------------------
NoFault == UNCHANGED <<clean, faults>>
Fault == faults < MaxFaults /\ faults' = faults + 1 /\ clean' = FALSE

(* A failure the code notices ends the derivation, and with it the boot. *)
Abort == Fault /\ pc' = "off"

(* Something else is installed before the machine boots. *)
Boot ==
  /\ pc = "off" /\ boots < MaxBoots
  /\ site' \in Sites
  /\ pc' = "serials" /\ boots' = boots + 1 /\ Fresh
  /\ UNCHANGED <<log, faults>>

(* What _baseboard_sn, _memorydevice_sn and _nvme_get_serial leave of the  *)
(* serial numbers when they fail: an empty one or, of the drives, that of  *)
(* the first one that answers.                                             *)
Missing(s) == [mb : {s.mb, <<>>}, mm : {s.mm, <<>>}, nvme : {s.nvme, s.spare, <<>>}]

(* The three results are ignored. *)
ReadSerials(from, to) ==
  /\ pc = from /\ pc' = to
  /\ \/ NoFault /\ info' = [mb |-> site.mb, mm |-> site.mm, nvme |-> site.nvme]
     \/ Fault /\ info' \in Missing(site)

Serials == info.mb \o info.mm \o info.nvme

DevIdSerials ==
  /\ ReadSerials("serials", "devid")
  /\ UNCHANGED <<site, rdlv, ids, mig, log, boots>>

(* efi_boot_fsbl_load goes to the first file system whose volume opens and *)
(* reads \EFI\BOOT\FSBL.efi there.  Its status is ignored: a failure       *)
(* leaves the file of another file system, a buffer that was not filled    *)
(* (it may still hold what an earlier read of FSBL.efi left there) or a    *)
(* null pointer; the last is noticed (Abort in GenDeviceID).               *)
efi_boot_fsbl_load ==
  \/ NoFault /\ rdlv' = site.fsbl.head
  \/ Fault /\ rdlv' \in {site.copy.head, site.fsbl.head, Pool}

(* SBC_GenDeviceID: the hash of the file is computed, and what goes into   *)
(* the device id is the first 32 bytes of the file itself.                 *)
GenDeviceID ==
  /\ pc = "devid"
  /\ \/ /\ efi_boot_fsbl_load
        /\ devid' = Hash(Serials \o <<rdlv'>>)
        /\ pc' = "fwid"
     \/ Abort /\ UNCHANGED <<rdlv, devid>>
  /\ UNCHANGED <<site, info, fwid, osid, migid, mig, log, boots>>

(* SBC_GenFWID: the SSBL image is loaded, then lv is pointed at the zeroed *)
(* digest buffer before the hash is taken.                                 *)
GenFWID ==
  /\ pc = "fwid"
  /\ \/ /\ NoFault
        /\ fwid' = Hash(<<devid, Hash(<<Zeros>>)>>)
        /\ pc' = "osid"
     \/ Abort /\ UNCHANGED fwid
  /\ UNCHANGED <<site, info, rdlv, devid, osid, migid, mig, log, boots>>

(* Mutant: the kernel is loaded but its hash is not the one that is used. *)
GenOSID_NoKernel ==
  /\ pc = "osid"
  /\ \/ NoFault /\ osid' = Hash(<<fwid, Hash(<<Zeros>>)>>) /\ pc' = "keys"
     \/ Abort /\ UNCHANGED osid
  /\ UNCHANGED <<site, info, rdlv, devid, fwid, migid, mig, log, boots>>

(* SBC_GenOSID: the kernel image, hashed over the firmware id.  A failed   *)
(* lookup may bring another copy of the kernel or part of it (EspFiles).   *)
GenOSID ==
  /\ pc = "osid"
  /\ \/ /\ \/ NoFault /\ osid' = Hash(<<fwid, Hash(<<site.kernel>>)>>)
           \/ Fault /\ osid' = Hash(<<fwid, Hash(<<site.copy.kernel>>)>>)
        /\ pc' = "keys"
     \/ Abort /\ UNCHANGED osid
  /\ UNCHANGED <<site, info, rdlv, devid, fwid, migid, mig, log, boots>>

(* What a later boot compares with. *)
Record ==
  [site |-> site, clean |-> clean, devid |-> devid, fwid |-> fwid, osid |-> osid, migid |-> migid]

(* A boot that is not an update goes on without a migration key. *)
NoUpdate ==
  /\ pc = "keys"
  /\ log' = log \cup {Record} /\ pc' = "off"
  /\ UNCHANGED <<site, clean, info, rdlv, ids, mig, boots, faults>>

(* SBC_GenMigrationKey: the serial numbers again. *)
MigSerials ==
  /\ ReadSerials("keys", "migcurrent")
  /\ UNCHANGED <<site, rdlv, ids, mig, log, boots>>

(* Mutant: the current FSBL is left out. *)
MigCurrent_NoFsbl ==
  /\ pc = "migcurrent"
  /\ \/ /\ NoFault
        /\ fwinf' = Current(site)
        /\ hashes' = <<Hash(Serials), Hash(<<fwinf'.ssbl>>), Hash(<<fwinf'.os>>)>>
        /\ pc' = "mignewer"
     \/ Abort /\ UNCHANGED mig
  /\ UNCHANGED <<site, info, rdlv, ids, log, boots>>

(* SBC_GenMigrationKey, steps 1 and 2: the hardware and the three images   *)
(* of the current bank, which is read whole into fwinf.                    *)
MigCurrent ==
  /\ pc = "migcurrent"
  /\ \/ /\ NoFault
        /\ fwinf' = Current(site)
        /\ hashes' = <<Hash(Serials), Hash(<<fwinf'.fsbl>>),
                       Hash(<<fwinf'.ssbl>>), Hash(<<fwinf'.os>>)>>
        /\ pc' = "mignewer"
     \/ Abort /\ UNCHANGED mig
  /\ UNCHANGED <<site, info, rdlv, ids, log, boots>>

(* The second read is as long as a pointer, aligned to one block: of the   *)
(* newer bank it brings the start of the FSBL image.  The rest of fwinf is *)
(* still the current bank's.                                               *)
SecondRead(buf, b) == [buf EXCEPT !.fsbl = b.fsbl]

(* SBC_GenMigrationKey, step 3 and the key itself. *)
MigNewer ==
  /\ pc = "mignewer"
  /\ \/ /\ NoFault
        /\ fwinf' = SecondRead(fwinf, Newer(site))
        /\ hashes' = hashes \o <<Hash(<<fwinf'.ssbl>>), Hash(<<fwinf'.os>>)>>
        /\ migid' = Hash(hashes')
        /\ pc' = "migrated"
     \/ Abort /\ UNCHANGED <<mig, migid>>
  /\ UNCHANGED <<site, info, rdlv, devid, fwid, osid, log, boots>>

Update ==
  /\ pc = "migrated"
  /\ log' = log \cup {Record} /\ pc' = "off"
  /\ UNCHANGED <<site, clean, info, rdlv, ids, mig, boots, faults>>

Next ==
  \/ Boot \/ DevIdSerials \/ GenDeviceID \/ GenFWID \/ GenOSID \/ NoUpdate
  \/ MigSerials \/ MigCurrent \/ MigNewer \/ Update

Spec == Init /\ [][Next]_vars

-----------------------------------------------------------------------------
(* The serial numbers end where they end: they are put one after another   *)
(* without a length or a separator.                                        *)
Hardware(s) == s.mb \o s.mm \o s.nvme

(* What can have gone into the OS id of a boot at site s: without a failed *)
(* read, one thing only.                                                   *)
Measured(s, c) ==
  IF c THEN {[hw |-> Hardware(s), head |-> s.fsbl.head, kernel |-> s.kernel]}
  ELSE [hw : {Hardware(i) : i \in Missing(s)},
        head : {s.fsbl.head, s.copy.head, Pool}, kernel : {s.kernel, s.copy.kernel}]

(* The base answer sealed with the OS id in one boot can be opened in a    *)
(* later one exactly as long as the run of serial numbers, the start of    *)
(* FSBL.efi and the kernel are the same: installing other banks, selecting *)
(* the other bank or updating in between changes nothing, and neither does *)
(* hardware whose serial numbers only divide the same run differently.  A  *)
(* boot that did not notice a failed read (SBC_GenDeviceID) comes by the   *)
(* key of another one only from what was left of its own serial numbers    *)
(* and from the files on its own file systems.  Of FSBL.efi the first 32   *)
(* bytes count, not the whole file (see FwIdCoversLoaders).                *)
OsidBinds ==
  \A a, b \in log :
    LET common == Measured(a.site, a.clean) \cap Measured(b.site, b.clean) IN
    /\ a.osid = b.osid => common # {}
    /\ a.clean /\ b.clean /\ common # {} => a.osid = b.osid

(* The migration key of an update stands for the hardware and the images   *)
(* of the bank that was current, whatever was left in the bank buffer.     *)
MigidBinds ==
  \A a, b \in {r \in log : r.migid # NoKey} : a.clean /\ b.clean =>
    (a.migid = b.migid <=>
       Hardware(a.site) = Hardware(b.site) /\ Current(a.site) = Current(b.site))

-----------------------------------------------------------------------------
(* What comments say of the keys; each is refuted by a run of its own.     *)

(* SBC_AntiTampering.h:155, "Device ID = HASH_SHA256(Base Board SN ||      *)
(* Memory SN || NVME SSD SN || FSLBL stream)", and SBC_AntiTampering.c:    *)
(* 1585, "Added the Hash for SSBL": the firmware id, made of the device id *)
(* and the SSBL, tells apart two installations with different loaders.  If *)
(* either line held, no two of them with both loaders different would have *)
(* the same one.                                                           *)
FwIdCoversLoaders ==
  \A a, b \in log : a.clean /\ b.clean /\ a.fwid = b.fwid =>
    a.site.fsbl = b.site.fsbl \/ a.site.bank[1].ssbl = b.site.bank[1].ssbl

(* SBC_AntiTampering.c:1683, "Migration Key = H(..||H(Newer SSBL)||H(Newer *)
(* KERNEL))": the migration key tells apart two updates.                   *)
MigKeyCoversNewer ==
  \A a, b \in {r \in log : r.migid # NoKey} : a.clean /\ b.clean /\ a.migid = b.migid =>
    Newer(a.site).ssbl = Newer(b.site).ssbl /\ Newer(a.site).os = Newer(b.site).os

=============================================================================
