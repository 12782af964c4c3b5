# A TLA+ model of the SBC secure boot loaders

The repository is a copy of EDK2 with one package of its own, `SBCPkg`: two UEFI
applications that form a measured boot chain, **FSBL** (first stage boot loader) and
**SSBL** (second stage boot loader), and the Python scripts in `FwSignPy` that sign
images and prepare the disk. This directory models that package. Paths below are
relative to `src/SBCPkg/Application/`.

## 1. The system

### Parts, their state and their operations

| part | source | state | operations |
|---|---|---|---|
| FSBL flow | `FSBL/FSBL.c` | header copy in RAM, bank numbers | find the raw device, verify `\EFI\rocky\FSBL.efi`, derive the device id, copy the selected bank's SSBL to `\EFI\boot\SSBL.efi`, start `\EFI\rocky\SSBL.efi` |
| SSBL flow | `SSBL/SSBL.c` | the same, `btproc`, `diceid`, base answer | find the raw device, verify `\EFI\boot\FSBL.efi`, derive the DICE keys, act on the boot mode, start GRUB |
| system control | `SSBL/SBC_SystemControl.c` | `boot_proc_t` | change the modes in the header, seal the base answer, reset, shut down |
| raw device discovery | `*/SBC_FileCtrl.c`, `SBC_BlkIoHandleInit` | handle buffer, local pointer, caller's header | probe every block device for the magic number |
| raw device | `*/SBC_FileCtrl.c` | header (LBA 0), two 128 MiB banks, system configuration | read and write blocks |
| files | `*/SBC_FileCtrl.c`, `SBC_FSBL_Verify`, `SBC_SSBL_Verify` | read and write buffers | query a size, find, read and write a file; verify a signed image |
| base answer | `SSBL/SBC_AntiTampering.c` | a record in the system configuration | seal and store, extract and validate |
| keys | `SSBL/SBC_AntiTampering.c`, `SBC_Hashing.c` | `diceid`, bank buffer | device id, firmware id, OS id, migration key |
| image start | `*/SBC_LoadKernelImage.c` | the image handle | start SSBL, start GRUB from the first file system where it loads |
| tools | `src/FwSignPy/` | files on the host | sign images; lay out header, banks, certificates of the raw device |
| crypto wrappers, log | `SBC_CryptAES.c`, `SBC_EccSignVeriify.c`, `SBC_X509.c`, `SBC_Log.c` | none that decides anything | calls into CryptoPkg; text output |

The parts interact through the raw device and the EFI system partition only. FSBL's RAM
is gone when SSBL runs, and all of it at a reset; what one boot leaves for the next is
the header (boot mode, key mode, bank selection), the sealed base answer and the files.

### How an update goes

A tool under the running system writes boot mode UPDATE. In the next boot SSBL derives
the migration key, seals the base answer with it, writes RECOVERY and resets. In the
boot after that FSBL selects the previous bank, SSBL seals the base answer with the OS
id, writes NORMAL and resets. FACTORY is entered from outside and has no way out.

### What is hard

Nothing in the loaders runs concurrently. What makes them hard is failure: nearly every
call can fail, some results are ignored, some error paths are inverted, and power can go
between any two writes, so that each boot starts from whatever the last one left. The
rows of `hazards` in `PROJECT.json` name the lines. What must hold in spite of that:

* the system starts only after all checks of the same boot;
* work that is pending on the disk is not skipped, and is completed in the end;
* the disk only ever changes along the path above, with the seal before the mode;
* the loaders never change the bank selection, also when their header is another
  device's;
* the base answer record is always one whole record, and nothing around it changes unless
  the answer is too long for its slot;
* verification accepts only what is signed to the last byte, whichever copies it comes upon;
* an OS id is the same in every boot of the same site;
* what `rawprt.py` wrote is found where the loaders look for it.

## 2. The modules

| module | models | built on |
|---|---|---|
| `BootTypes` | modes, header, banks, disk layout | |
| `BootState` | variables, faults, outcomes of a block write | `BootTypes` |
| `FSBL` | `UefiMain` of FSBL, one action per call that can fail or that writes | `BootState` |
| `SSBL` | `UefiMain` of SSBL and the handlers of `SBC_SystemControl.c` | `BootState` |
| `ModeMachine` | the abstract specification of header and base answer | `BootTypes` |
| `BootChain` | both loaders, power, operator, update tool; the properties | `FSBL`, `SSBL`, `ModeMachine` |
| `DeviceSearch` | the abstract search for the raw device: found, not found, processor fault | |
| `BlkIoScan` | `SBC_BlkIoHandleInit`, handle by handle | `DeviceSearch` |
| `AnswerCell` | the abstract base answer: a cell that a store replaces in one step | |
| `BaseAnswer` | the base answer record, byte by byte, with torn writes | `AnswerCell` |
| `EspFiles` | one boot's work on several file systems: verification, copy, start of SSBL, kernel, start of GRUB | |
| `FileService` | the abstract work on files: operations that succeed or are refused, one step each | |
| `FileBoot` | `EspFiles` with a history variable, compared with `FileService` | `EspFiles`, `FileService` |
| `RawLayout` | `rawprt.py`, and what the loaders find at their own offsets | |
| `DiceKeys` | the key derivations over several boots | |
| `BootClaims` | what comments and messages say of the chain | `MCBootChain` |
| `*Proofs` | the theorems | the module named |

**Boot chain.** `pc` is the call the machine is about to make; `hdr`, `ans`, `full` are on
the raw device, `esp`, `good`, `file` on the EFI system partition, and the rest is RAM,
which `FreshRam` clears when an image starts and `Restart` at a reset. A result that the
code checks is a disjunct of the action that makes the call; a result that it ignores
makes no difference to `pc`. Verification is accept or reject (`good` says which files
carry a valid signature). `st` is `btproc.bootst`, `ret` SSBL's `ret`, `mode` its
`bootmd`; `heap` is the buffer `SBC_SSBL_Verify` allocates and
`SBC_BaseAnswerEncryptStore` frees; `done` collects the checks and derivations that
succeeded since power-on. The `_FILE_RD_BM_` branches are modelled, as `SSBL.inf`
defines it; `_SBC_DEVID_VERIFY_` and `SAT_PROT_SW_ENABLE` are defined nowhere.

*Faults.* A device operation fails if its precondition does not hold or if a fault
strikes, and each fault uses up one of `MaxFaults`. A block write is refused if its
length is no multiple of 512 (FSBL's header writes are 128 bytes long), done, lost, or
"late": reported as failed and carried out all the same. Power may go at every step.
FSBL passes a failed scan, whose `ASSERT` is satisfied exactly by the failure; it goes on
with a null handle and a member of `ForeignHeaders`.

*Undefined behaviour.* In the factory case SSBL reads through a null context: either a
processor fault (`hang`) or zeros, which lead to `SBCNULLP`; both are disjuncts.

**BlkIoScan** has the loop of `SBC_BlkIoHandleInit` with a device that may refuse any
call. `SBC_RET_VALIDATE_ERRCODEMSG` leaves a function when its condition is *false*; the
three uses inside `if (EFI_ERROR(Status))` pass a condition that is true there, so the
search goes on. The boot chain takes the search as one step. `DeviceSearch` is that step:
success gives a raw device and its own header (`ScanSound`), failure no device and a
header that is not a raw device's (`FailureIsForeign`); `SearchSpec` says that the search
implements it. `outcome` is "searching" until the function returns, and the caller's
variables count from then on only, since nobody sees them before.

**BaseAnswer** writes the 64-byte slot at offset 64 of the system configuration. The length
of the answer is a byte of the signed image's trailer that nobody checks, 1 to 255
(`LenAssumption`; a record of length 0 reads as "Base Answer Not Found"). `fw_sign.py` signs
16 characters, with which the record ends where the root certificate begins; a longer one
runs into the certificate. `lens` remembers the lengths that reached the device, so that
`RestKept` can say which bytes are lost (`Spilled`) and that no others are. A block reaches the disk whole, blocks in any order, and the write may stop after any of them.
The boot chain takes a store as one step. `StoreAtomic` is what allows that: the set of
answers `SBC_BaseAnswerValidate` would accept from the device behaves like `AnswerCell`,
which a store replaces in one step and which never goes back or becomes empty again. The
step is the write of the one block that holds the record.

**EspFiles** follows the file accesses of one boot: `SBC_FSBL_Verify` (the copy in SSBL
differs in name and path only), the copy of a bank's SSBL, `SBC_SSBL_LoadAndStart`, the
load of the kernel, `SBC_GRUB_LoadAndStart`. The two start functions ignore the result of
`LocateHandleBuffer`; without a buffer the loop runs over uninitialised stack contents:
no round, or a processor fault. Each
of up to `N` file systems has its own files. Every lookup takes the first file system on
which the file opens; to get past a copy costs a fault, so the size query and the read
may come upon different copies. Lengths are in units of the 8-byte trailer; `Minus` is
the code's UINT32 subtraction, wrapping at `Word`. A trailer is where it ends, the length of
the signed information it gives and the length its signature is over. A file has one at its
end, and may have others inside (`inner`), a signed file that was appended to, say. Only so
many bytes are read as the size query gave, and verification takes what lies at their end
for the trailer (`AtEnd`): sized for one copy and read from a longer one, it accepts the
beginning of the longer one if that beginning is a signed file. Where no trailer ends, and
where a read or a pointer is outside the buffer, it is a processor fault or arbitrary bytes,
in which no certificate is found (`Wild`). An image of no bytes is refused, as
`SBC_HashCompute` refuses it. What a write does on a full volume, to a longer file and on
a device error follows FatPkg's driver (`src/FatPkg/EnhancedFatDxe/ReadWrite.c`). The boot chain has one copy of each file and takes
verification, copy and start as one step each. `FileService` is what it takes them for:
an operation is refused only because of its own files or a failing access of its own, and
succeeds only with a file system that has what it needs. The chain's one condition becomes
two here. `Sure` is enough for success when no access fails; without `May` there is none.
At a site whose copies agree, every file system taking writes, the two are the same condition
and `FileService` is the chain's choice between `Succeeds` and `Fails`. `FileBoot` adds the
history variable `mark`, the number of faults at the beginning of the operation, so that
"an access failed in this operation" can be said; it restricts no step. The comparison
showed that the chain's start of SSBL and of GRUB lacked the processor fault of
the loop over an uninitialised buffer; `FSBL_StartSSBL` and `SSBL_StartGrub` now have it.

**DiceKeys** treats SHA-256 as injective: a digest is the message it was made of. Serial
numbers are sequences, concatenated without a separator as the code does. A site has its
serial numbers, a second NVMe drive (`spare`), the beginning and the rest of `FSBL.efi`, the
kernel, what other file systems hold under these names (`copy`), and two banks. The three
readers of serial numbers and `efi_boot_fsbl_load` may fail without the code noticing;
`Missing` is what the readers then leave. `log` remembers what was installed in each boot,
whether an access failed in it and which keys came out.

**RawLayout** has the layout twice. The tool's side builds `img` by the assignments of
`make_fw_image` and `make_bootfw_storage`; `SliceAssign` is Python's assignment to a
slice, which inserts when the stop lies before the start, as it does for every part but
the first. The loaders' side (`PartOfs`, `BankOfs`, `SYS_CONF_*`, `Copied`) comes from
`SBC_FileCtrl.h` and `SBC_BootModeNormalAndpUdate` and is used by the properties only.
A byte is marked with the file and the place it comes from. Word, block and sector sizes
are parameters, so that TLC can use small ones.

## 3. The runs

Runs that pass:

* `boot_chain` (1.6 million states): all header modes with and without a current bank,
  four foreign headers, missing banks and files, two faults anywhere, one change from
  outside. Two faults are enough for a fault while the damage of another is being
  repaired; one change is enough to stage an update or to swap an image between two
  boots of it. The same run checks the liveness properties `UpdateCompletes` and
  `BootSettles` under `FairSpec`, and what single steps contribute to them: `BootProgress`
  (every step of a loader, resets included, makes `BootRank` smaller),
  `OnlyFaultsStopUpdate` (at a healthy site an update leaves its way only by a failure) and
  `FactoryStays` (the loaders keep boot mode and banks of a factory header; the key mode they
  are meant to change). Bounds: `MaxFaults`, `MaxEdits`.
* `blkio_scan`: every assignment of four kinds of first sector (two foreign, two raw) to
  up to four handles. Four handles let a stale pointer skip over a handle, and a raw
  device come before, between and after foreign ones. `ScanProgress` gives the measure
  that makes the search end. `MaxHandles`.
* `base_answer` (3,865 states): three blocks (the one with the record and two behind it),
  three stores of 1, 16, 17 or 255 bytes (shortest, filling the slot, one too many, longest),
  so that a record can shrink and grow and a torn store be followed by another. `Blocks`,
  `MaxStores`. The real area has 33 blocks; the others behave like the
  second and third.
* `esp_files` (784,354 states): eight kinds of file system in every combination of three,
  one of them with a signed copy and more bytes behind it,
  an earlier `SSBL.efi` that is missing or longer, two failing accesses. Three let a lookup
  pass one copy, find another and leave a third; two faults let the size query and the
  read go wrong independently. `FilesProgress`: each of the three loops tries every file
  system once, whatever the failed access left behind. `ServiceSpec`: the work on files
  implements `FileService`. `N`, `OldLens`, `Tails`, `Word`, `MaxFaults`.
* `dice_keys` (3.9 million states): two boots of a reference site and of sites that differ
  from it, most in one thing, one without an NVMe serial number, one whose serial numbers
  divide the same characters differently, two whose `FSBL.efi` differs behind its beginning;
  two failing accesses. `MaxBoots`, `MaxFaults`. The properties are about pairs of boots,
  and two failures disturb both boots of a pair, or one of them twice.
* `raw_layout` (22,308 states): words of 2 bytes, blocks of 4, sectors of 16, 20 and 24,
  thirteen sizes for each of the two files (empty, up to and across a block boundary, up
  to and beyond a sector), four sizes of certificate, the longest filling its room. The
  ratios are smaller than the real ones; that sizes matter only relative to block and
  sector is what the proofs show, for all sizes.

Deadlock is checked in the boot chain, where some step is always possible; in the other
modules the behaviour ends when its bound is used up or the work is over.

Runs that find a violation state what a comment or a message of the code says, and show
what the code does instead (`findings` in `PROJECT.json` quotes the lines):

* `claim_unknown_mode`: an unknown boot mode "SHOULD go to Abort" and starts GRUB.
* `claim_factory_keymode`: FSBL's change of the key mode never reaches the disk.
* `claim_selected_ssbl`: the SSBL of the selected bank is not the one that runs. Bank 2 is
  looked for 1 MiB behind bank 1, and the copy is not the file that is started.
* `claim_failed_seal`: an update whose seal failed changes to recovery mode all the same.
* `claim_fwid_loaders`: two comments together. The device id is said to be over the
  "FSLBL stream" (`SBC_AntiTampering.h:155`) and the firmware id to have the "Hash for SSBL"
  added (`SBC_AntiTampering.c:1585`). If either were so, two sites whose `FSBL.efi` and SSBL
  both differ could not share a firmware id. They do: of `FSBL.efi` the first 32 bytes
  count, of the SSBL nothing does.
* `claim_migkey_newer`: the migration key does not depend on the newer images.

Met while modelling, and recorded here only: a failed open does not end the search for
the raw device, as the message of its macro says, but goes on with an earlier handle's
pointer (`ScanSound` shows it to be harmless); after a failed write of `SSBL.efi` the loop
of `SBC_BootModeNormalAndpUdate` goes on with the short length the failed write left, 0 on
a full volume, and prints "SSBL Write is Done" for it; the length it passes has an
uninitialised upper half; the branch of `SBC_RecoveryBootProcessing`
for an abnormal boot is unreachable, since `UefiMain` shuts down wherever it sets
`SB_PROC_ST_ABNRAM` (`SsblKnows` has `st = NRMA` at every step that reaches a handler);
a serial number or an `FSBL.efi` that could not be read goes into the device id without an
error (`OsidBinds` says which other boots such a boot can share its OS id with); serial
numbers that divide the same characters differently give the same device id; verification
accepts a signed beginning of a longer file when the size query found a copy of just that
length; an answer of more than 16 bytes overwrites the root certificate.

In the layout: `rawprt.py:96` writes the magic number as the bytes AA 55 AA 55, which the
loader reads as 0x55AA55AA and compares with 0xAA55AA55 (`SBC_FileCtrl.h:60`; the swap in
`SBC_BlkIoHandleInit` is commented out), so an image fresh from the tool is not found
until those bytes are changed; `rawprt.py:64` puts `FSBL.efi` into the SSBL part; the
certificates behind the first are four bytes further on each than `SYS_CONF_DEVID_CRT_OFS`
and its successors say, and at the device certificate's offset there is none (`ConfigRead`;
no build calls the certificates' readers, `SBC_FSBLIntgCheck` and `SBC_DeviceIdKyeVerify`);
FSBL copies the SSBL without its last bytes, up to four, when it ends that close to a block
boundary (`CopyEdge`); where FSBL looks for bank 2's SSBL a fresh image has zeros, so a boot
that selects bank 2 stops in FSBL (`GapRead`: `GapUsable` is false for it). The slices
written as start and length do no harm: the banks come out as the loaders want them
(`BanksAligned`), because every insertion is behind the parts already written and the
excess is cut off.

**Fairness** (`FairSpec` of `BootChain`): the loaders run to their end, since nothing in
them waits; a machine that is off is switched on; one that has stopped outside the
system, or runs the system with an update staged, is switched off in the end. The last
two are the operator's part, without which no update completes. Nothing is assumed about
faults except that their number is finite. `UpdateCompletes` speaks of sites that stay
healthy: valid files, full banks, a current bank, and a word at bank 2's (wrong) offset
that FSBL can take for a length (`GapUsable`); without the last a recovery boot never
gets past FSBL.

## 4. The proofs

For every value of the constants that satisfies the named assumptions:

* `BootChainProofs`: `TypeCorrect`, `ChainCorrect`, and from them `HandoffCorrect`,
  `PendingWorkDone`, `SealsCorrect`, `BanksKept` and `Refinement` (the chain implements
  `ModeMachine`). Assumed: header sets contain headers, bounds are natural numbers,
  staged headers have mode UPDATE. The safety properties are not inductive: that GRUB
  starts after all checks, say, depends on which step follows which. `ChainInv` adds, step
  by step, what the RAM has to do with the disk (`FsblKnows`: behind a successful scan the
  header in RAM is the one on the disk; `SsblKnows`: the selection is, the boot is normal,
  the buffer is live; `ModeKnown`: each handler runs in the disk's mode, and behind the
  recovery store the answer is sealed with the OS id). A lemma per loader, with a step per
  action, shows that `ChainInv` is kept; the refinement uses `ChainInv` to map each header write to a step of
  the mode machine or to a stutter. `BootEnds`, `UpdateUnhindered` and `FactoryFinal` are
  about single steps. `BootEnds`: a step of a loader either goes to one of smaller
  `StepsLeft` or resets the machine, and `ModeKnown` says that a reset follows a change of
  the mode towards normal or a fault. `UpdateUnhindered` needs one more invariant,
  `TrackKnown`: the bank numbers and the key mode a loader acts on are those of the header on
  the disk, so that at a healthy site none of its checks refuses them.
* `BlkIoScanProofs`: `ScanCorrect`, `ScanResult`, `ScanTyped`, `FailureForeign`, for any
  number of handles. The key fact of `ScanInv` is that the local pointer names the current
  handle's device or one already found foreign, so a stale pointer can never be taken for
  the raw device. `SearchImplemented`: the search implements `DeviceSearch`; each step that
  returns maps to the outcome `ScanInv` allows, all others to stutters.
  `ScanTerminates`: handles left, then calls left for the current one.
* `EspFilesProofs`, for any number of file systems, any files and any number of failures:
  `VerifySound`. `VerifiedIsSigned` is not inductive: `BufferKnown` adds that the image length
  computed is the one the trailer at the end of the bytes read gives, unless it wrapped
  around, and that these bytes are as many as some copy has (`SizeKnown`), and `MinusInside` that a
  length inside the buffer did not wrap. `LoadCorrect`, `CopyCorrect`,
  `StartCorrect`, `FilesTyped`: `LoadKnown`, `CopyKnown` and `StartKnown` say for every step
  which file systems the loops have passed and why (without the file, or at the price of a
  fault), and what has been written so far. `FilesEnd`: at most `3 * N + 13` steps, whatever
  fails. Assumed: lengths fit UINT32, and at most one trailer ends at a place
  (`TrailerAssumption`).
* `FileBootProofs`: `ServiceImplemented`, the refinement of `FileService` for any number of
  file systems. The invariants of `EspFilesProofs` speak of boots without any fault, while an
  operation may be refused here only for a fault since its own beginning; `HistoryKnown`
  says of each step which copies the operation at hand has passed, and that it met a fault
  if it passed a copy it could have used. A step that ends an operation maps to `Success` or
  `Refusal`, a failing access to `Trouble`, all others to stutters. That a first file
  system with a file exists when any has it (`FirstInside`) is well-foundedness of the
  natural numbers.
* `BaseAnswerProofs`, for any number of blocks and any set of lengths from 1 to 255
  (`LenAssumption`): `RestSafe` (outside the slot exactly the bytes under the over-long
  answers that reached the device are changed; none if all have at most 16 bytes),
  `StoreTyped`, `RecordReadable` and `StoreImplementsCell`. `RestInv` adds to `RestKept` the
  same of the buffer that is being written. `AnswerInv` adds that the buffer holds the new
  record, that the record, also the longest, lies in block 0, and that the device's slot is the old one as long as block 0 is
  to be written and the new one after (`Current`).
* `RawLayoutProofs`: `LayoutTyped`, `PartsSafe`, `BanksPlaced`, `ConfigSeen`, `GapEmpty`, for every
  word, block and sector size with a word shorter than a block and a sector
  (`SizeAssumption`) and all files that fit. `LayoutInv` adds where `copy_cnt` stands for
  each part (`Progress`), and that a bank is never shorter than `boot_sector` while it is
  filled (`BankKnown`); lemmas say what `SliceAssign` keeps and moves. `GapInv` adds, for
  `GapEmpty`, that a bank is zero behind `copy_cnt`, however far it has been moved.
  `CopyCut` (what FSBL's copy lacks) is about remainders by a block size that is a
  parameter; `DivMod`, `DivUnique` and `AlignedUp` give what is needed of them.
* `DiceKeysProofs`: `OsidCorrect` and `MigidCorrect`, for any set of sites with serial
  numbers of any length (`SiteAssumption`) and any number of boots and failures. `KeysInv`
  follows the derivation step by step: `Derived` says from which of the things `Measured`
  allows the key at hand was made, in a boot with failed reads too, `Undisturbed` the same of
  the migration key in a boot without, and `Genuine` that each entry of the log is such a
  key. Two messages with the same last part are equal exactly when their fronts are, so
  equal OS ids were made of the same thing (`OsidInjective`).

Only model-checked: the liveness properties `ScanEnds`, `UpdateCompletes` and `BootSettles`,
because fairness and ENABLED are out of the prover's reach. What can be proved of them is.
`BootEnds`: a machine that is kept going comes to rest within a bounded number of steps, so
that `BootSettles` needs of TLC only that a loader's next step is always possible (the run
checks deadlock). `UpdateUnhindered` with `Refinement`: a boot of an update without a fault
does not rest before the mode has moved on, and the mode moves only towards normal; since
faults are finitely many, `UpdateCompletes` needs only that the operator switches the
machine on again. `ScanTerminates` stands to `ScanEnds` as `BootEnds` to `BootSettles`.

## 5. Not modelled

* Signature, certificate and cipher arithmetic, and with it most of `fw_sign.py`: no state,
  and out of a model checker's reach.
* The event log (`SBC_Log.c`): nothing reads it back and no decision depends on it.
* `SBC_BootModeFactory`, `SBC_RawPrtHeadRead`, `SBC_DeviceIdKyeVerify`,
  `SBC_FSBLIntgCheck` and the other loaders of `SBC_LoadKernelImage.c`: no build calls them.
* The byte order of the magic number: two literals that differ, recorded above.
* The older copies in `src/FSBL`, `src/FSBL_PKG`, `src/SSBL`, `src/SSBLFactory`: `SBCPkg.dsc`
  does not refer to them.
* EDK2, 3.7 million lines of vendored code, of which the loaders use block I/O, file and
  image services; these are modelled from that use, and a file's write from FatPkg. The share of all lines of the tree that
  the map covers is small for this reason and stays so.

## 6. State of the plan

Done: the boot chain, its abstract specification, liveness and proofs; device discovery
and the base answer record, each with an abstract specification it is proved to implement;
file access, verification and image start, proved to implement the single operations of the
boot chain; the keys; the layout of the raw device.

Every invariant and action property that a run checks is also a theorem.

Left: file systems with differing copies inside the boot chain itself. The chain has one copy
of each file; `ServiceImplemented` shows that verification, copy and start may be taken as
single steps, but not what a boot does that verifies one copy and starts another.
