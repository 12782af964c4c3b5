---------------------------- MODULE DiceKeysProofs ----------------------------
(***************************************************************************)
(* What the OS id and the migration key stand for, for all sites, numbers  *)
(* of boots and of failing reads.                                          *)
(***************************************************************************)
EXTENDS DiceKeys, TLAPS

(* The keys that come of what was measured. *)
DevidOf(hw, head) == Hash(hw \o <<head>>)
FwidOf(hw, head) == Hash(<<DevidOf(hw, head), Hash(<<Zeros>>)>>)
OsidOf(x) == Hash(<<FwidOf(x.hw, x.head), Hash(<<x.kernel>>)>>)

(* What there is to measure of hardware and FSBL.efi. *)
Runs(s, c) == IF c THEN {Hardware(s)} ELSE {Hardware(i) : i \in Missing(s)}
Heads(s, c) == IF c THEN {s.fsbl.head} ELSE {s.fsbl.head, s.copy.head, Pool}

(* The migration key of an update in which no read fails. *)
HashesOf(s) ==
  <<Hash(Hardware(s)), Hash(<<Current(s).fsbl>>), Hash(<<Current(s).ssbl>>), Hash(<<Current(s).os>>)>>
MigidOf(s) == Hash(HashesOf(s) \o <<Hash(<<Current(s).ssbl>>), Hash(<<Current(s).os>>)>>)

(* What the derivation of the OS id has reached, with failed reads or      *)
(* without.                                                                *)
Derived ==
  /\ pc = "devid" => Serials \in Runs(site, clean)
  /\ pc = "fwid" => \E hw \in Runs(site, clean), f \in Heads(site, clean) : devid = DevidOf(hw, f)
  /\ pc = "osid" => \E hw \in Runs(site, clean), f \in Heads(site, clean) : fwid = FwidOf(hw, f)
  /\ pc \in {"keys", "migcurrent", "mignewer", "migrated"} =>
       \E x \in Measured(site, clean) : osid = OsidOf(x)

(* What an update without a failed read has reached. *)
Undisturbed ==
  /\ pc = "migcurrent" => Serials = Hardware(site)
  /\ pc = "mignewer" => fwinf = Current(site) /\ hashes = HashesOf(site)
  /\ pc = "migrated" => migid = MigidOf(site)

(* A record of the log. *)
Genuine(r) ==
  /\ r.site \in Sites /\ r.clean \in BOOLEAN
  /\ \E x \in Measured(r.site, r.clean) : r.osid = OsidOf(x)
  /\ r.clean /\ r.migid # NoKey => r.migid = MigidOf(r.site)

KeysInv ==
  /\ site \in Sites /\ clean \in BOOLEAN
  /\ Derived
  /\ clean => Undisturbed
  /\ pc \in {"serials", "devid", "fwid", "osid", "keys", "migcurrent", "mignewer"} => migid = NoKey
  /\ \A r \in log : Genuine(r)

(* Digests are as different as what they were made of. *)
LEMMA HashInjective == \A x, y : Hash(x) = Hash(y) <=> x = y
<1> SUFFICES ASSUME NEW x, NEW y, Hash(x) = Hash(y) PROVE x = y OBVIOUS
<1>1. Hash(x).sha256 = x /\ Hash(y).sha256 = y BY DEF Hash
<1>2. QED BY <1>1

LEMMA RunType ==
  ASSUME NEW s \in Sites, NEW i \in Missing(s)
  PROVE  Hardware(i) \in Seq(Chars)
<1>1. i.mb \in Seq(Chars) /\ i.mm \in Seq(Chars) /\ i.nvme \in Seq(Chars)
  <2>1. /\ s.mb \in Seq(Chars) /\ s.mm \in Seq(Chars)
        /\ s.nvme \in Seq(Chars) /\ s.spare \in Seq(Chars)
    BY SiteAssumption
  <2>2. <<>> \in Seq(Chars) OBVIOUS
  <2>3. i.mb \in {s.mb, <<>>} /\ i.mm \in {s.mm, <<>>} /\ i.nvme \in {s.nvme, s.spare, <<>>}
    BY DEF Missing
  <2>4. QED BY <2>1, <2>2, <2>3
<1>2. i.mb \o i.mm \in Seq(Chars) BY <1>1
<1>3. QED BY <1>1, <1>2 DEF Hardware

(* Of serial numbers of which none is missing there is one run. *)
LEMMA WholeRun ==
  ASSUME NEW s \in Sites
  PROVE  \E i \in Missing(s) : Hardware(i) = Hardware(s)
<1> DEFINE i == [mb |-> s.mb, mm |-> s.mm, nvme |-> s.nvme]
<1>1. i \in Missing(s) BY DEF Missing
<1>2. Hardware(i) = Hardware(s) BY DEF Hardware
<1>3. QED BY <1>1, <1>2

(* A failed read only adds to what may have been measured. *)
LEMMA MeasuredGrows ==
  ASSUME NEW s \in Sites, NEW c \in BOOLEAN
  PROVE  /\ Runs(s, c) \subseteq Runs(s, FALSE)
         /\ Heads(s, c) \subseteq Heads(s, FALSE)
         /\ Measured(s, c) \subseteq Measured(s, FALSE)
<1>1. Runs(s, c) \subseteq Runs(s, FALSE) BY WholeRun DEF Runs
<1>2. Heads(s, c) \subseteq Heads(s, FALSE) BY DEF Heads
<1>3. Measured(s, c) \subseteq Measured(s, FALSE) BY WholeRun DEF Measured
<1>4. QED BY <1>1, <1>2, <1>3

LEMMA MeasuredOf ==
  ASSUME NEW s, NEW c \in BOOLEAN, NEW hw \in Runs(s, c), NEW f \in Heads(s, c),
         NEW k, k = s.kernel \/ (~ c /\ k = s.copy.kernel)
  PROVE  [hw |-> hw, head |-> f, kernel |-> k] \in Measured(s, c)
BY DEF Runs, Heads, Measured

LEMMA MeasuredType ==
  ASSUME NEW s \in Sites, NEW c \in BOOLEAN, NEW x \in Measured(s, c)
  PROVE  /\ x.hw \in Seq(Chars \cup {Pool}) /\ x.head \in Chars \cup {Pool}
         /\ x = [hw |-> x.hw, head |-> x.head, kernel |-> x.kernel]
<1>1. x.hw \in Seq(Chars)
  <2>1. CASE c
    <3>1. x.hw = Hardware(s) BY <2>1 DEF Measured
    <3>2. QED BY <3>1, WholeRun, RunType
  <2>2. CASE ~ c
    <3>1. \E i \in Missing(s) : x.hw = Hardware(i) BY <2>2 DEF Measured
    <3>2. QED BY <3>1, RunType
  <2>3. QED BY <2>1, <2>2
<1>2. x.head \in Chars \cup {Pool}
  <2>1. s.fsbl.head \in Chars /\ s.copy.head \in Chars BY SiteAssumption
  <2>2. x.head \in {s.fsbl.head, s.copy.head, Pool} BY DEF Measured
  <2>3. QED BY <2>1, <2>2
<1>3. x = [hw |-> x.hw, head |-> x.head, kernel |-> x.kernel] BY DEF Measured
<1>4. Seq(Chars) \subseteq Seq(Chars \cup {Pool}) OBVIOUS
<1>5. QED BY <1>1, <1>2, <1>3, <1>4

(* The start of the file is told apart from the serial numbers before it.  *)
LEMMA LastInjective ==
  ASSUME NEW S, NEW u \in Seq(S), NEW v \in Seq(S), NEW h \in S, NEW k \in S,
         u \o <<h>> = v \o <<k>>
  PROVE  u = v /\ h = k
<1>1. /\ Len(u \o <<h>>) = Len(u) + 1 /\ Len(v \o <<k>>) = Len(v) + 1
      /\ (u \o <<h>>)[Len(u) + 1] = h /\ (v \o <<k>>)[Len(v) + 1] = k
      /\ \A i \in 1 .. Len(u) : (u \o <<h>>)[i] = u[i]
      /\ \A i \in 1 .. Len(v) : (v \o <<k>>)[i] = v[i]
  OBVIOUS
<1>2. Len(u) = Len(v) /\ Len(u) \in Nat BY <1>1
<1>3. h = k BY <1>1, <1>2
<1>4. \A i \in 1 .. Len(u) : u[i] = v[i] BY <1>1, <1>2
<1>5. u = v BY <1>2, <1>4
<1>6. QED BY <1>3, <1>5

LEMMA OsidInjective ==
  ASSUME NEW s \in Sites, NEW c \in BOOLEAN, NEW x \in Measured(s, c),
         NEW t \in Sites, NEW d \in BOOLEAN, NEW y \in Measured(t, d), OsidOf(x) = OsidOf(y)
  PROVE  x = y
<1>1. <<FwidOf(x.hw, x.head), Hash(<<x.kernel>>)>> = <<FwidOf(y.hw, y.head), Hash(<<y.kernel>>)>>
  BY HashInjective DEF OsidOf
<1>2. FwidOf(x.hw, x.head) = FwidOf(y.hw, y.head) /\ Hash(<<x.kernel>>) = Hash(<<y.kernel>>)
  BY <1>1
<1>3. <<x.kernel>> = <<y.kernel>> BY <1>2, HashInjective
<1>4. x.kernel = y.kernel BY <1>3
<1>5. <<DevidOf(x.hw, x.head), Hash(<<Zeros>>)>> = <<DevidOf(y.hw, y.head), Hash(<<Zeros>>)>>
  BY <1>2, HashInjective DEF FwidOf
<1>6. DevidOf(x.hw, x.head) = DevidOf(y.hw, y.head) BY <1>5
<1>7. x.hw \o <<x.head>> = y.hw \o <<y.head>> BY <1>6, HashInjective DEF DevidOf
<1>8. x.hw = y.hw /\ x.head = y.head BY <1>7, MeasuredType, LastInjective
<1>9. QED BY <1>4, <1>8, MeasuredType

LEMMA SixHashes ==
  ASSUME NEW a, NEW b, NEW c, NEW d, NEW e, NEW f
  PROVE  <<a, b, c, d>> \o <<e, f>> = <<a, b, c, d, e, f>>
<1> DEFINE S == {a, b, c, d, e, f}
           x == <<a, b, c, d>>
           y == <<e, f>>
           z == <<a, b, c, d, e, f>>
<1>1. x \in Seq(S) /\ y \in Seq(S) /\ z \in Seq(S) /\ Len(x) = 4 /\ Len(y) = 2 /\ Len(z) = 6
  OBVIOUS
<1>2. x \o y \in Seq(S) /\ Len(x \o y) = 6 BY <1>1
<1>3. \A i \in 1 .. 6 : (x \o y)[i] = z[i]
  <2>1. \A i \in 1 .. 4 : (x \o y)[i] = x[i] BY <1>1
  <2>2. (x \o y)[5] = y[1] /\ (x \o y)[6] = y[2] BY <1>1
  <2>3. \A i \in 1 .. 6 : i \in 1 .. 4 \/ i = 5 \/ i = 6 OBVIOUS
  <2>4. \A i \in 1 .. 4 : x[i] = z[i] OBVIOUS
  <2>5. y[1] = z[5] /\ y[2] = z[6] OBVIOUS
  <2> HIDE DEF x, y, z
  <2>6. QED BY <2>1, <2>2, <2>3, <2>4, <2>5
<1> HIDE DEF x, y, z
<1>4. ASSUME NEW p \in Seq(S), NEW q \in Seq(S), Len(p) = Len(q), \A i \in 1 .. Len(p) : p[i] = q[i]
      PROVE  p = q
  BY <1>4
<1> HIDE DEF S
<1>5. x \o y = z BY <1>1, <1>2, <1>3, <1>4
<1>6. QED BY <1>5 DEF x, y, z

LEMMA MigidInjective ==
  ASSUME NEW s \in Sites, NEW t \in Sites
  PROVE  MigidOf(s) = MigidOf(t) <=> Hardware(s) = Hardware(t) /\ Current(s) = Current(t)
<1> DEFINE c == Current(s)
           d == Current(t)
<1>1. /\ c = [fsbl |-> c.fsbl, ssbl |-> c.ssbl, os |-> c.os]
      /\ d = [fsbl |-> d.fsbl, ssbl |-> d.ssbl, os |-> d.os]
  BY SiteAssumption DEF Current
<1> HIDE DEF c, d
<1>2. ASSUME MigidOf(s) = MigidOf(t) PROVE Hardware(s) = Hardware(t) /\ c = d
  <2> DEFINE six(r, x) == <<Hash(Hardware(r)), Hash(<<x.fsbl>>), Hash(<<x.ssbl>>), Hash(<<x.os>>),
                            Hash(<<x.ssbl>>), Hash(<<x.os>>)>>
  <2>1. MigidOf(s) = Hash(six(s, c)) /\ MigidOf(t) = Hash(six(t, d))
    <3>1. ASSUME NEW r \in Sites PROVE MigidOf(r) = Hash(six(r, Current(r)))
      <4> DEFINE p == Hash(Hardware(r))
                 q == Hash(<<Current(r).fsbl>>)
                 u == Hash(<<Current(r).ssbl>>)
                 v == Hash(<<Current(r).os>>)
      <4>1. MigidOf(r) = Hash(<<p, q, u, v>> \o <<u, v>>) BY DEF MigidOf, HashesOf
      <4>2. six(r, Current(r)) = <<p, q, u, v, u, v>> OBVIOUS
      <4> HIDE DEF p, q, u, v, six
      <4>3. <<p, q, u, v>> \o <<u, v>> = <<p, q, u, v, u, v>> BY SixHashes
      <4>4. QED BY <4>1, <4>2, <4>3
    <3>2. QED BY <3>1 DEF c, d
  <2>2. six(s, c) = six(t, d) BY <1>2, <2>1, HashInjective
  <2>3. /\ Hash(Hardware(s)) = Hash(Hardware(t)) /\ Hash(<<c.fsbl>>) = Hash(<<d.fsbl>>)
        /\ Hash(<<c.ssbl>>) = Hash(<<d.ssbl>>) /\ Hash(<<c.os>>) = Hash(<<d.os>>)
    BY <2>2
  <2>4. /\ Hardware(s) = Hardware(t) /\ <<c.fsbl>> = <<d.fsbl>>
        /\ <<c.ssbl>> = <<d.ssbl>> /\ <<c.os>> = <<d.os>>
    BY <2>3, HashInjective
  <2>5. c.fsbl = d.fsbl /\ c.ssbl = d.ssbl /\ c.os = d.os BY <2>4
  <2>6. c = d BY <1>1, <2>5
  <2>7. QED BY <2>4, <2>6
<1>3. ASSUME Hardware(s) = Hardware(t), c = d PROVE MigidOf(s) = MigidOf(t)
  BY <1>3 DEF MigidOf, HashesOf, c, d
<1>4. QED BY <1>2, <1>3 DEF c, d

-----------------------------------------------------------------------------
LEMMA KeysInit == Init => KeysInv
  BY DEF Init, KeysInv, Derived, Undisturbed

LEMMA BootStep == KeysInv /\ Boot => KeysInv'
  BY DEF KeysInv, Boot, Fresh, Derived, Undisturbed, Genuine

(* A step that ends the derivation. *)
LEMMA AbortStep ==
  ASSUME KeysInv, Abort, UNCHANGED <<site, log>>
  PROVE  KeysInv'
BY DEF KeysInv, Abort, Fault, Derived, Undisturbed, Genuine

LEMMA SerialsRead ==
  ASSUME KeysInv, NEW u, NEW v, ReadSerials(u, v), UNCHANGED site
  PROVE  /\ Serials' \in Runs(site, clean') /\ clean' \in BOOLEAN /\ (clean' => clean)
         /\ clean' => Serials' = Hardware(site)
<1>1. CASE NoFault /\ info' = [mb |-> site.mb, mm |-> site.mm, nvme |-> site.nvme]
  <2>1. Serials' = Hardware(site) BY <1>1 DEF Serials, Hardware
  <2>2. Hardware(site) \in Runs(site, clean) BY WholeRun DEF Runs, KeysInv
  <2>3. QED BY <1>1, <2>1, <2>2 DEF NoFault, KeysInv
<1>2. CASE Fault /\ info' \in Missing(site)
  <2>1. Serials' = Hardware(info') BY DEF Serials, Hardware
  <2>2. QED BY <1>2, <2>1 DEF Fault, Runs
<1>3. QED BY <1>1, <1>2 DEF ReadSerials

LEMMA SerialsStep == KeysInv /\ (DevIdSerials \/ MigSerials) => KeysInv'
<1> SUFFICES ASSUME KeysInv, DevIdSerials \/ MigSerials PROVE KeysInv' OBVIOUS
<1>1. UNCHANGED <<site, log, osid, migid>> BY DEF DevIdSerials, MigSerials, ids
<1>2. /\ Serials' \in Runs(site, clean') /\ clean' \in BOOLEAN /\ (clean' => clean)
      /\ clean' => Serials' = Hardware(site)
  BY <1>1, SerialsRead DEF DevIdSerials, MigSerials
<1>3. CASE DevIdSerials
  <2>1. pc = "serials" /\ pc' = "devid" BY <1>3 DEF DevIdSerials, ReadSerials
  <2>2. QED BY <1>1, <1>2, <2>1 DEF KeysInv, Derived, Undisturbed, Genuine
<1>4. CASE MigSerials
  <2>1. pc = "keys" /\ pc' = "migcurrent" BY <1>4 DEF MigSerials, ReadSerials
  <2>2. \E x \in Measured(site, clean') : osid = OsidOf(x)
    <3>1. \E x \in Measured(site, clean) : osid = OsidOf(x) BY <2>1 DEF KeysInv, Derived
    <3>2. Measured(site, clean) \subseteq Measured(site, clean')
      BY <1>2, MeasuredGrows DEF KeysInv
    <3>3. QED BY <3>1, <3>2
  <2>3. QED BY <1>1, <1>2, <2>1, <2>2 DEF KeysInv, Derived, Undisturbed, Genuine
<1>5. QED BY <1>3, <1>4

LEMMA DeviceStep == KeysInv /\ GenDeviceID => KeysInv'
<1> SUFFICES ASSUME KeysInv, GenDeviceID PROVE KeysInv' OBVIOUS
<1>1. UNCHANGED <<site, log, info, migid>> /\ pc = "devid" BY DEF GenDeviceID
<1>2. CASE Abort BY <1>1, <1>2, AbortStep
<1>3. CASE efi_boot_fsbl_load /\ devid' = Hash(Serials \o <<rdlv'>>) /\ pc' = "fwid"
  <2>1. rdlv' \in Heads(site, clean') /\ clean' \in BOOLEAN /\ (clean' = clean \/ clean' = FALSE)
    BY <1>3 DEF efi_boot_fsbl_load, NoFault, Fault, Heads, KeysInv
  <2>2. Serials \in Runs(site, clean') BY <1>1, <2>1, MeasuredGrows DEF KeysInv, Derived
  <2>3. devid' = DevidOf(Serials, rdlv') BY <1>3 DEF DevidOf
  <2>4. \E hw \in Runs(site, clean'), f \in Heads(site, clean') : devid' = DevidOf(hw, f)
    BY <2>1, <2>2, <2>3
  <2>5. QED BY <1>1, <1>3, <2>1, <2>4 DEF KeysInv, Derived, Undisturbed, Genuine
<1>4. QED BY <1>2, <1>3 DEF GenDeviceID

LEMMA FirmwareStep == KeysInv /\ GenFWID => KeysInv'
<1> SUFFICES ASSUME KeysInv, GenFWID PROVE KeysInv' OBVIOUS
<1>1. UNCHANGED <<site, log, migid>> /\ pc = "fwid" BY DEF GenFWID
<1>2. CASE Abort BY <1>1, <1>2, AbortStep
<1>3. CASE NoFault /\ fwid' = Hash(<<devid, Hash(<<Zeros>>)>>) /\ pc' = "osid"
  <2>1. PICK hw \in Runs(site, clean), f \in Heads(site, clean) : devid = DevidOf(hw, f)
    BY <1>1 DEF KeysInv, Derived
  <2>2. fwid' = FwidOf(hw, f) BY <1>3, <2>1 DEF FwidOf
  <2>3. clean' = clean BY <1>3 DEF NoFault
  <2>4. QED BY <1>1, <1>3, <2>2, <2>3 DEF KeysInv, Derived, Undisturbed, Genuine
<1>4. QED BY <1>2, <1>3 DEF GenFWID

LEMMA SystemStep == KeysInv /\ GenOSID => KeysInv'
<1> SUFFICES ASSUME KeysInv, GenOSID PROVE KeysInv' OBVIOUS
<1>1. UNCHANGED <<site, log, migid>> /\ pc = "osid" BY DEF GenOSID
<1>2. CASE Abort BY <1>1, <1>2, AbortStep
<1>3. ASSUME NEW k, pc' = "keys", osid' = Hash(<<fwid, Hash(<<k>>)>>),
             \/ NoFault /\ k = site.kernel
             \/ Fault /\ k = site.copy.kernel
      PROVE  KeysInv'
  <2>1. clean' \in BOOLEAN /\ (clean' = clean \/ clean' = FALSE) BY <1>3 DEF NoFault, Fault, KeysInv
  <2>2. PICK hw \in Runs(site, clean'), f \in Heads(site, clean') : fwid = FwidOf(hw, f)
    BY <1>1, <2>1, MeasuredGrows DEF KeysInv, Derived
  <2> DEFINE x == [hw |-> hw, head |-> f, kernel |-> k]
  <2>3. x \in Measured(site, clean')
    <3>1. k = site.kernel \/ (~ clean' /\ k = site.copy.kernel) BY <1>3 DEF Fault
    <3>2. QED BY <2>1, <3>1, MeasuredOf
  <2>4. osid' = OsidOf(x)
    <3>1. x.hw = hw /\ x.head = f /\ x.kernel = k OBVIOUS
    <3> HIDE DEF x
    <3>2. QED BY <1>3, <2>2, <3>1 DEF OsidOf
  <2> HIDE DEF x
  <2>5. QED BY <1>1, <1>3, <2>1, <2>3, <2>4 DEF KeysInv, Derived, Undisturbed, Genuine
<1>4. QED BY <1>2, <1>3 DEF GenOSID

LEMMA LogStep == KeysInv /\ (NoUpdate \/ Update) => KeysInv'
<1> SUFFICES ASSUME KeysInv, NoUpdate \/ Update PROVE KeysInv' OBVIOUS
<1>1. /\ pc' = "off" /\ UNCHANGED <<site, clean, migid>> /\ log' = log \cup {Record}
      /\ pc \in {"keys", "migrated"} /\ (pc = "keys" => migid = NoKey)
  BY DEF NoUpdate, Update, ids, KeysInv
<1>2. /\ Record.site = site /\ Record.clean = clean /\ Record.osid = osid /\ Record.migid = migid
  BY DEF Record
<1>3. Genuine(Record) BY <1>1, <1>2 DEF KeysInv, Derived, Undisturbed, Genuine
<1>4. QED BY <1>1, <1>3 DEF KeysInv, Derived, Undisturbed, Genuine

LEMMA CurrentStep == KeysInv /\ MigCurrent => KeysInv'
<1> SUFFICES ASSUME KeysInv, MigCurrent PROVE KeysInv' OBVIOUS
<1>1. UNCHANGED <<site, log, osid, migid>> /\ pc = "migcurrent" BY DEF MigCurrent, ids
<1>2. CASE Abort BY <1>1, <1>2, AbortStep
<1>3. CASE ~ Abort
  <2>1. /\ pc' = "mignewer" /\ clean' = clean /\ fwinf' = Current(site)
        /\ hashes' = <<Hash(Serials), Hash(<<fwinf'.fsbl>>), Hash(<<fwinf'.ssbl>>), Hash(<<fwinf'.os>>)>>
    BY <1>3 DEF MigCurrent, NoFault
  <2>2. clean => hashes' = HashesOf(site) BY <1>1, <2>1 DEF KeysInv, Undisturbed, HashesOf
  <2>3. QED BY <1>1, <2>1, <2>2 DEF KeysInv, Derived, Undisturbed, Genuine
<1>4. QED BY <1>2, <1>3

(* The block read of the newer bank leaves the SSBL and the kernel of the  *)
(* current one in the buffer.                                              *)
LEMMA NewerStep == KeysInv /\ MigNewer => KeysInv'
<1> SUFFICES ASSUME KeysInv, MigNewer PROVE KeysInv' OBVIOUS
<1>1. CASE Abort BY <1>1, AbortStep DEF MigNewer
<1>2. CASE ~ Abort
  <2>1. /\ pc = "mignewer" /\ pc' = "migrated" /\ UNCHANGED <<site, clean, osid, log>>
        /\ fwinf' = SecondRead(fwinf, Newer(site))
        /\ migid' = Hash(hashes \o <<Hash(<<fwinf'.ssbl>>), Hash(<<fwinf'.os>>)>>)
    BY <1>2 DEF MigNewer, NoFault
  <2>2. ASSUME clean PROVE migid' = MigidOf(site)
    <3>1. fwinf = Current(site) /\ hashes = HashesOf(site) BY <2>1, <2>2 DEF KeysInv, Undisturbed
    <3>2. Current(site) = [fsbl |-> Current(site).fsbl, ssbl |-> Current(site).ssbl, os |-> Current(site).os]
      BY SiteAssumption DEF KeysInv, Current
    <3>3. fwinf'.ssbl = Current(site).ssbl /\ fwinf'.os = Current(site).os
      BY <2>1, <3>1, <3>2 DEF SecondRead
    <3>4. QED BY <2>1, <3>1, <3>3 DEF MigidOf
  <2>3. QED BY <2>1, <2>2 DEF KeysInv, Derived, Undisturbed, Genuine
<1>3. QED BY <1>1, <1>2

LEMMA KeysAlways == Spec => []KeysInv
<1>1. KeysInv /\ UNCHANGED vars => KeysInv' 
  <2> SUFFICES ASSUME KeysInv, UNCHANGED vars PROVE KeysInv' OBVIOUS
  <2>1. UNCHANGED <<site, pc, clean, devid, fwid, osid, migid, fwinf, hashes, log>> BY DEF vars, ids, mig
  <2>2. Serials' = Serials BY DEF vars, Serials
  <2>3. QED BY <2>1, <2>2 DEF KeysInv, Derived, Undisturbed, Genuine
<1>2. KeysInv /\ [Next]_vars => KeysInv'
  BY <1>1, BootStep, SerialsStep, DeviceStep, FirmwareStep, SystemStep, LogStep, CurrentStep, NewerStep
     DEF Next
<1>3. QED BY KeysInit, <1>2, PTL DEF Spec

(* SBC_GenOSID over SBC_GenFWID over SBC_GenDeviceID: two boots have the   *)
(* same OS id only if they can have measured the same, and undisturbed     *)
(* boots exactly if run of serial numbers, start of FSBL.efi and kernel    *)
(* are the same.                                                           *)
THEOREM OsidCorrect == Spec => []OsidBinds
<1>1. KeysInv => OsidBinds
  <2> SUFFICES ASSUME KeysInv, NEW a \in log, NEW b \in log
               PROVE  LET common == Measured(a.site, a.clean) \cap Measured(b.site, b.clean) IN
                      /\ a.osid = b.osid => common # {}
                      /\ a.clean /\ b.clean /\ common # {} => a.osid = b.osid
    BY DEF OsidBinds
  <2>1. /\ a.site \in Sites /\ b.site \in Sites /\ a.clean \in BOOLEAN /\ b.clean \in BOOLEAN
    BY DEF KeysInv, Genuine
  <2>2. PICK x \in Measured(a.site, a.clean) : a.osid = OsidOf(x) BY DEF KeysInv, Genuine
  <2>3. PICK y \in Measured(b.site, b.clean) : b.osid = OsidOf(y) BY DEF KeysInv, Genuine
  <2>4. a.osid = b.osid => x = y BY <2>1, <2>2, <2>3, OsidInjective
  <2>5. ASSUME a.clean, b.clean, NEW z \in Measured(a.site, a.clean), z \in Measured(b.site, b.clean)
        PROVE  x = z /\ y = z
    BY <2>5 DEF Measured
  <2>6. QED BY <2>2, <2>3, <2>4, <2>5
<1>2. QED BY <1>1, KeysAlways, PTL

(* SBC_GenMigrationKey: two undisturbed updates have the same migration key *)
(* exactly if serial numbers and the images of the current bank are.       *)
THEOREM MigidCorrect == Spec => []MigidBinds
<1>1. KeysInv => MigidBinds
  <2> SUFFICES ASSUME KeysInv, NEW a \in log, NEW b \in log, a.migid # NoKey, b.migid # NoKey,
                      a.clean, b.clean
               PROVE  a.migid = b.migid <=>
                        Hardware(a.site) = Hardware(b.site) /\ Current(a.site) = Current(b.site)
    BY DEF MigidBinds
  <2>1. /\ a.site \in Sites /\ b.site \in Sites
        /\ a.migid = MigidOf(a.site) /\ b.migid = MigidOf(b.site)
    BY DEF KeysInv, Genuine
  <2>2. QED BY <2>1, MigidInjective
<1>2. QED BY <1>1, KeysAlways, PTL
=============================================================================
