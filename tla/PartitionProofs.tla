-------------------------- MODULE PartitionProofs ---------------------------
(***************************************************************************)
(* Boot finds partitions, file systems and mounts, for any disks, tables,  *)
(* numbers of slots and failures of reads; then, in the second half, what  *)
(* the calls on an ext2 partition do to it.                                *)
(***************************************************************************)
EXTENDS Mounts, Ext2, FiniteSetTheorems, SequenceTheorems, WellFoundedInduction, TLAPS

\* A sequence of whatever.
IsSeq(s) == Len(s) \in Nat /\ s = [i \in 1 .. Len(s) |-> s[i]]

\* What Append does to such a sequence.
LEMMA AppendAny ==
  ASSUME NEW s, IsSeq(s), NEW x
  PROVE  /\ IsSeq(Append(s, x)) /\ Len(Append(s, x)) = Len(s) + 1
         /\ \A i \in 1 .. Len(s) : Append(s, x)[i] = s[i]
         /\ Append(s, x)[Len(s) + 1] = x
<1> DEFINE S == {s[i] : i \in 1 .. Len(s)} \cup {x}
<1>1. Len(s) \in Nat /\ s = [i \in 1 .. Len(s) |-> s[i]]
  BY DEF IsSeq
<1>2. \A i \in 1 .. Len(s) : s[i] \in S
  OBVIOUS
<1> HIDE DEF S
<1>3. s \in [1 .. Len(s) -> S]
  BY <1>1, <1>2
<1>4. s \in Seq(S)
  BY <1>1, <1>3
<1>5. x \in S
  BY DEF S
<1>6. /\ Append(s, x) \in Seq(S) /\ Len(Append(s, x)) = Len(s) + 1
      /\ \A i \in 1 .. Len(s) : Append(s, x)[i] = s[i]
      /\ Append(s, x)[Len(s) + 1] = x
  BY <1>4, <1>5, AppendProperties
<1>7. IsSeq(Append(s, x))
  <2>1. PICK a : a = Append(s, x)
    OBVIOUS
  <2>2. a \in Seq(S)
    BY <1>6, <2>1
  <2>3. Len(a) \in Nat /\ a = [i \in 1 .. Len(a) |-> a[i]]
    BY <2>2
  <2> QED
    BY <2>1, <2>3 DEF IsSeq
<1> QED
  BY <1>6, <1>7

\* Its domain.
LEMMA DomainOfSeq ==
  ASSUME NEW s, IsSeq(s)
  PROVE  DOMAIN s = 1 .. Len(s) /\ Len(s) \in Nat
<1>1. s = [i \in 1 .. Len(s) |-> s[i]] /\ Len(s) \in Nat
  BY DEF IsSeq
<1>2. DOMAIN [i \in 1 .. Len(s) |-> s[i]] = 1 .. Len(s)
  OBVIOUS
<1> QED
  BY <1>1, <1>2

\* A set of naturals that is not empty has a least element.
LEMMA LeastExists ==
  ASSUME NEW S, S \subseteq Nat, S # {}
  PROVE  \E m \in S : \A k \in S : m <= k
<1>1. PICK m \in S : \A y \in S : ~(<<y, m>> \in OpToRel(<, Nat))
  BY NatLessThanWellFounded, WFMin
<1>2. \A y \in S : ~(y < m)
  BY <1>1 DEF OpToRel
<1> QED
  BY <1>2

-----------------------------------------------------------------------------
\* device_create gives the devices of one major different minors.
Peers(list, major) == {k \in DOMAIN list : list[k].major = major}

DevicesNamed(list) ==
  /\ IsSeq(list)
  /\ \A i \in 1 .. Len(list) : list[i] = [major |-> list[i].major, minor |-> list[i].minor]
  /\ \A i \in 1 .. Len(list) :
       list[i].minor \in Nat /\ list[i].minor < Cardinality(Peers(list, list[i].major))
  /\ \A i, j \in 1 .. Len(list) :
       list[i].major = list[j].major /\ list[i].minor = list[j].minor => i = j

\* The peers of a device that is added.
LEMMA PeersOfAppend ==
  ASSUME NEW list, IsSeq(list), NEW x, NEW m
  PROVE  /\ IsFiniteSet(Peers(list, m)) /\ Cardinality(Peers(list, m)) \in Nat
         /\ Cardinality(Peers(Append(list, x), m)) =
              IF x.major = m THEN Cardinality(Peers(list, m)) + 1
                             ELSE Cardinality(Peers(list, m))
<1>1. /\ Len(list) \in Nat /\ DOMAIN list = 1 .. Len(list)
      /\ DOMAIN Append(list, x) = 1 .. Len(list) + 1
      /\ \A i \in 1 .. Len(list) : Append(list, x)[i] = list[i]
      /\ Append(list, x)[Len(list) + 1] = x
  BY AppendAny, DomainOfSeq
<1>2. Peers(list, m) \subseteq 1 .. Len(list)
  BY <1>1 DEF Peers
<1>3. IsFiniteSet(1 .. Len(list))
  BY <1>1, FS_Interval
<1>4. IsFiniteSet(Peers(list, m)) /\ Cardinality(Peers(list, m)) \in Nat
  BY <1>2, <1>3, FS_Subset, FS_CardinalityType
<1>5. CASE x.major = m
  <2>1. Peers(Append(list, x), m) = Peers(list, m) \cup {Len(list) + 1}
    BY <1>1, <1>5 DEF Peers
  <2>2. Len(list) + 1 \notin Peers(list, m)
    BY <1>1, <1>2
  <2>3. Cardinality(Peers(list, m) \cup {Len(list) + 1}) = Cardinality(Peers(list, m)) + 1
    BY <1>4, <2>2, FS_AddElement
  <2> QED
    BY <1>4, <1>5, <2>1, <2>3
<1>6. CASE x.major # m
  <2>1. Peers(Append(list, x), m) = Peers(list, m)
    BY <1>1, <1>6 DEF Peers
  <2> QED
    BY <1>4, <1>6, <2>1
<1> QED
  BY <1>5, <1>6

\* device_create: the new device has a name no other has, since its minor counts
\* the devices of its major.
LEMMA CreateNames ==
  ASSUME NEW list, DevicesNamed(list), NEW major
  PROVE  /\ DevicesNamed(DeviceCreate(list, major))
         /\ Len(DeviceCreate(list, major)) = Len(list) + 1
         /\ \A i \in 1 .. Len(list) : DeviceCreate(list, major)[i] = list[i]
         /\ DeviceCreate(list, major)[Len(list) + 1].major = major
<1> DEFINE c == Cardinality(Peers(list, major))
           x == [major |-> major, minor |-> c]
           l == Append(list, x)
<1>1. DeviceCreate(list, major) = l
  BY DEF DeviceCreate, Peers
<1>2. IsSeq(list) /\ Len(list) \in Nat
  BY DEF DevicesNamed, IsSeq
<1>3. /\ IsSeq(l) /\ Len(l) = Len(list) + 1
      /\ \A i \in 1 .. Len(list) : l[i] = list[i]
      /\ l[Len(list) + 1] = x
  BY <1>2, AppendAny
<1>4. c \in Nat /\ x.major = major /\ x.minor = c
  BY <1>2, PeersOfAppend
<1>5. /\ Cardinality(Peers(l, major)) = c + 1
      /\ \A m : m # major => Cardinality(Peers(l, m)) = Cardinality(Peers(list, m))
  BY <1>2, <1>4, PeersOfAppend
<1>6. \A i \in 1 .. Len(l) : i \in 1 .. Len(list) \/ i = Len(list) + 1
  BY <1>2, <1>3
<1>7. x = [major |-> x.major, minor |-> x.minor]
  OBVIOUS
<1> HIDE DEF c, x, l
<1>8. \A i \in 1 .. Len(l) : l[i] = [major |-> l[i].major, minor |-> l[i].minor]
  <2> TAKE i \in 1 .. Len(l)
  <2>1. CASE i \in 1 .. Len(list)
    BY <1>3, <2>1 DEF DevicesNamed
  <2>2. CASE i = Len(list) + 1
    BY <1>3, <1>7, <2>2
  <2> QED
    BY <1>6, <2>1, <2>2
<1>9. \A i \in 1 .. Len(list) :
        /\ list[i].minor \in Nat
        /\ list[i].minor < Cardinality(Peers(l, list[i].major))
        /\ list[i].major = major => list[i].minor < c
  <2> TAKE i \in 1 .. Len(list)
  <2>1. list[i].minor \in Nat /\ list[i].minor < Cardinality(Peers(list, list[i].major))
    BY DEF DevicesNamed
  <2>2. CASE list[i].major = major
    BY <1>4, <1>5, <2>1, <2>2 DEF c
  <2>3. CASE list[i].major # major
    BY <1>5, <2>1, <2>3
  <2> QED
    BY <2>2, <2>3
<1>10. \A i \in 1 .. Len(l) :
         l[i].minor \in Nat /\ l[i].minor < Cardinality(Peers(l, l[i].major))
  BY <1>3, <1>4, <1>5, <1>6, <1>9
<1>11. \A i, j \in 1 .. Len(l) :
         l[i].major = l[j].major /\ l[i].minor = l[j].minor => i = j
  <2>1. \A i, j \in 1 .. Len(list) :
          list[i].major = list[j].major /\ list[i].minor = list[j].minor => i = j
    BY DEF DevicesNamed
  <2>2. \A i \in 1 .. Len(list) : ~(list[i].major = major /\ list[i].minor = c)
    BY <1>4, <1>9
  <2> QED
    BY <1>3, <1>4, <1>6, <2>1, <2>2
<1>12. DevicesNamed(l)
  BY <1>3, <1>8, <1>10, <1>11 DEF DevicesNamed
<1> QED
  BY <1>1, <1>3, <1>4, <1>12

\* device_search finds the device that has the name, whole.
LEMMA SearchFindsDevice ==
  ASSUME DevicesNamed(devices), NEW k \in 1 .. Len(devices)
  PROVE  DeviceSearch(DeviceName(devices[k])) = k
<1> DEFINE name == DeviceName(devices[k])
           I == {i \in 1 .. Len(devices) : IsPrefix(name, DeviceName(devices[i]))}
<1>1. Len(devices) \in Nat
  BY DEF DevicesNamed, IsSeq
<1>2. \A a, b, c, d : IsPrefix(<<a, b>>, <<c, d>>) <=> a = c /\ b = d
  <2> TAKE a, b, c, d
  <2>1. Len(<<a, b>>) = 2 /\ Len(<<c, d>>) = 2
    OBVIOUS
  <2>2. \A s : s \in Seq({a, b, c, d}) /\ Len(s) = 2 => SubSeq(s, 1, 2) = s
    BY SubSeqFull
  <2>3. <<a, b>> \in Seq({a, b, c, d}) /\ <<c, d>> \in Seq({a, b, c, d})
    OBVIOUS
  <2>4. SubSeq(<<a, b>>, 1, 2) = <<a, b>> /\ SubSeq(<<c, d>>, 1, 2) = <<c, d>>
    BY <2>1, <2>2, <2>3
  <2> QED
    BY <2>1, <2>4 DEF IsPrefix
<1>3. ASSUME NEW i \in 1 .. Len(devices)
      PROVE  IsPrefix(name, DeviceName(devices[i])) <=> i = k
  BY <1>2, <1>3 DEF DeviceName, DevicesNamed
<1>4. I = {k}
  BY <1>3
<1>5. Min({k}) = k
  BY <1>1 DEF Min
<1> HIDE DEF name
<1>6. DeviceSearch(name) = IF I # {} THEN Min(I) ELSE 0
  BY DEF DeviceSearch, SelectInSeq
<1> QED
  BY <1>4, <1>5, <1>6 DEF name

-----------------------------------------------------------------------------
(***************************************************************************)
(* Where probe_fs is, and what it has found out by then.                   *)
(***************************************************************************)
Scanning == pc \in {"scan", "gpt", "mbr"}
Trying == pc \in {"fatDetect", "fatRegister", "ext2Detect", "ext2Register"}

Shapes ==
  /\ images \in [1 .. Len(Ports) -> Images]
  /\ DevicesNamed(devices) /\ IsSeq(root) /\ IsSeq(mounts) /\ IsSeq(failed)
  /\ dev \in Nat \ {0} /\ part \in Nat /\ n \in Nat
  /\ pc \in {"pci", "comm", "scan", "gpt", "mbr", "mount", "done"} \/ Trying

\* The ports come first, and nothing else is a disk.
PortsFirst ==
  /\ \A i \in 1 .. Len(devices) :
       i <= Len(Ports) => devices[i].major = Ports[i]
  /\ \A i \in 1 .. Len(devices) : i > Len(Ports) => devices[i].major \notin DiskMajors
  /\ pc # "pci" => Len(devices) >= Len(Ports)

Position ==
  /\ pc \in {"pci", "comm"} => root = <<>> /\ dev = 1 /\ part = 0 /\ n = 0
  /\ Scanning => Len(root) = dev - 1 /\ dev <= Len(devices) + 1 /\ part = 0
  /\ pc = "scan" => n = 0
  /\ pc \in {"gpt", "mbr"} => dev <= Len(devices)
  /\ pc = "mount" \/ Trying \/ pc = "done" => Len(root) = Len(devices)
  /\ Trying => dev <= Len(root) /\ part < Len(root[dev])
  /\ pc \in {"gpt", "mbr"} \/ Trying => devices[dev].major \in DiskMajors

\* What the reads of the table have found so far.
TableSoFar ==
  /\ pc = "gpt" /\ n > 0 => images[dev].bootsig
  /\ pc = "mbr" /\ Healthy(dev) =>
       ~images[dev].bootsig \/ GptPartitions(images[dev].gpt) = <<>>

ScanInv ==
  Shapes /\ PortsFirst /\ Position /\ TableSoFar /\ PartitionsComeFromOneTable

\* A slot in use is a device's, so that a free one is no mount's.
SlotInv ==
  /\ DOMAIN ext2 = Slot
  /\ \A i \in 1 .. Len(mounts) : mounts[i].device # 0
  /\ \A i \in 1 .. Len(mounts) : mounts[i].fs = "ext2" => mounts[i].index \in Slot
  /\ MountsOwnTheirSlots

\* The partitions that have been tried by now.
Tried(d, p) ==
  \/ pc = "done"
  \/ (pc = "mount" \/ Trying) /\ (d < dev \/ (d = dev /\ p <= part))

MountedOrFull(d, p, lba) ==
  \/ FreeSlots(ext2, None) = {}
  \/ \E i \in 1 .. Len(mounts) :
       /\ mounts[i].device = d
       /\ mounts[i].lba = lba
       /\ mounts[i].fs = "ext2"
       /\ mounts[i].name = Mountpoint(devices[d], p - 1)

TriedAreMounted ==
  /\ pc = "fatRegister" => images[dev].content[root[dev][part + 1]] \in {"fat", "both"}
  /\ \A d \in 1 .. Len(Ports) : Healthy(d) =>
       \A p \in 1 .. Len(Listed(images[d])) :
         Tried(d, p) /\ images[d].content[Listed(images[d])[p]] = "ext2"
           => MountedOrFull(d, p, Listed(images[d])[p])

-----------------------------------------------------------------------------
\* The disk at hand is the one of the port the device was made for.
LEMMA DiskAtHand ==
  ASSUME Shapes, PortsFirst, dev <= Len(devices), devices[dev].major \in DiskMajors
  PROVE  Disk = images[dev] /\ dev \in 1 .. Len(Ports) /\ images[dev] \in Images
<1>1. dev \in 1 .. Len(devices) /\ Len(Ports) \in Nat
  BY PortsAssumption DEF Shapes, DevicesNamed, IsSeq
<1>2. DeviceSearch(DeviceName(devices[dev])) = dev
  BY <1>1, SearchFindsDevice DEF Shapes
<1>3. dev \in 1 .. Len(Ports)
  BY <1>1 DEF PortsFirst
<1> QED
  BY <1>2, <1>3 DEF Disk, Shapes

\* A disk that fails once does not read well any more.
LEMMA ReadFails ==
  ASSUME IsSeq(failed), NEW ok \in BOOLEAN, ReadDisk(ok)
  PROVE  /\ IsSeq(failed')
         /\ \A d : Healthy(d)' => Healthy(d)
         /\ \A d : ~ok /\ d = dev => ~Healthy(d)'
<1>1. CASE failed' = failed /\ ok
  BY <1>1 DEF Healthy
<1>2. CASE failed' = Append(failed, dev) /\ ~ok
  <2>1. /\ IsSeq(failed') /\ Len(failed') = Len(failed) + 1
        /\ \A i \in 1 .. Len(failed) : failed'[i] = failed[i]
        /\ failed'[Len(failed) + 1] = dev
    BY <1>2, AppendAny
  <2>2. /\ Len(failed) \in Nat /\ DOMAIN failed = 1 .. Len(failed)
        /\ DOMAIN failed' = 1 .. Len(failed) + 1
    BY <2>1, DomainOfSeq
  <2>3. \A d : Healthy(d)' => Healthy(d)
    BY <2>1, <2>2 DEF Healthy
  <2>4. \A d : d = dev => ~Healthy(d)'
    BY <2>1, <2>2 DEF Healthy
  <2> QED
    BY <2>1, <2>3, <2>4
<1> QED
  BY <1>1, <1>2 DEF ReadDisk

\* What PartitionsComeFromOneTable says of one disk.
OneTable(d, partitions) ==
  IF Healthy(d) THEN partitions = Listed(images[d])
  ELSE partitions \in {<<>>, GptPartitions(images[d].gpt), MbrPartitions(images[d].mbr)}

\* A read that fails later on only weakens what is said of a device.
LEMMA OneTableStays ==
  ASSUME NEW d, NEW ps, OneTable(d, ps), images' = images, Healthy(d)' => Healthy(d)
  PROVE  OneTable(d, ps)'
<1>1. Listed(images[d]) \in {<<>>, GptPartitions(images[d].gpt), MbrPartitions(images[d].mbr)}
  BY DEF Listed
<1>2. images'[d] = images[d]
  OBVIOUS
<1>3. CASE Healthy(d)'
  BY <1>2, <1>3 DEF OneTable
<1>4. CASE ~Healthy(d)'
  BY <1>1, <1>2, <1>4 DEF OneTable
<1> QED
  BY <1>3, <1>4

\* PartitionsComeFromOneTable, device by device.
LEMMA OneTableOfAll ==
  PartitionsComeFromOneTable <=>
    \A d \in DOMAIN root : devices[d].major \in DiskMajors => OneTable(d, root[d])
  BY DEF PartitionsComeFromOneTable, OneTable

\* The steps that scan nothing leave what was found.
LEMMA TablesStay ==
  ASSUME PartitionsComeFromOneTable, root' = root, devices' = devices, images' = images,
         \A d : Healthy(d)' => Healthy(d)
  PROVE  PartitionsComeFromOneTable'
<1>1. \A d \in DOMAIN root : devices[d].major \in DiskMajors => OneTable(d, root[d])
  BY OneTableOfAll
<1>2. ASSUME NEW d \in DOMAIN root, devices[d].major \in DiskMajors
      PROVE  OneTable(d, root[d])'
  <2>1. PICK ps : ps = root[d]
    OBVIOUS
  <2>2. OneTable(d, ps)'
    BY <1>1, <1>2, <2>1, OneTableStays
  <2>3. ps = root'[d]
    BY <2>1
  <2> QED
    BY <2>2, <2>3
<1> QED
  BY <1>2 DEF PartitionsComeFromOneTable, OneTable

\* A device is scanned.
LEMMA ScannedKeeps ==
  ASSUME ScanInv, Scanning, NEW k, k = dev, k <= Len(devices),
         NEW ps, Scanned(ps), UNCHANGED <<images, devices, mounts, part>>,
         IsSeq(failed'), \A d : Healthy(d)' => Healthy(d),
         devices[k].major \in DiskMajors => OneTable(k, ps)'
  PROVE  ScanInv'
<1>1. Shapes /\ PortsFirst /\ Position /\ PartitionsComeFromOneTable
  BY DEF ScanInv
<1>2. /\ k \in Nat /\ Len(root) = k - 1 /\ part = 0 /\ IsSeq(root)
      /\ Len(devices) \in Nat
  BY <1>1 DEF Shapes, Position, DevicesNamed, IsSeq
<1>3. root' = Append(root, ps) /\ dev' = k + 1 /\ pc' = "scan" /\ n' = 0
  BY DEF Scanned
<1>4. /\ IsSeq(root') /\ Len(root') = k
      /\ \A i \in 1 .. (k - 1) : root'[i] = root[i]
      /\ root'[k] = ps
  BY <1>2, <1>3, AppendAny
<1>5. DOMAIN root = 1 .. (k - 1) /\ DOMAIN root' = 1 .. k
  BY <1>2, <1>4, DomainOfSeq
<1>6. Shapes'
  BY <1>1, <1>2, <1>3, <1>4 DEF Shapes
<1>7. PortsFirst'
  BY <1>1, <1>3 DEF PortsFirst, Scanning
<1>8. Position'
  BY <1>2, <1>3, <1>4 DEF Position, Scanning, Trying
<1>9. TableSoFar'
  BY <1>3 DEF TableSoFar
<1>10. PartitionsComeFromOneTable'
  <2>1. ASSUME NEW d \in DOMAIN root', devices[d].major \in DiskMajors
        PROVE  OneTable(d, root[d])'
    <3>1. CASE d = k
      BY <1>4, <2>1, <3>1
    <3>2. CASE d # k
      <4>1. d \in DOMAIN root /\ root'[d] = root[d]
        BY <1>2, <1>4, <1>5, <3>2
      <4>2. PICK qs : qs = root[d]
        OBVIOUS
      <4>3. OneTable(d, qs)
        BY <1>1, <2>1, <4>1, <4>2, OneTableOfAll
      <4>4. OneTable(d, qs)'
        BY <4>3, OneTableStays
      <4> QED
        BY <4>1, <4>2, <4>4
    <3> QED
      BY <3>1, <3>2
  <2> QED
    BY <2>1 DEF PartitionsComeFromOneTable, OneTable
<1> QED
  BY <1>6, <1>7, <1>8, <1>9, <1>10 DEF ScanInv

\* The devices are registered.
LEMMA RegisterSteps ==
  ASSUME ScanInv, RegisterPort \/ RegisterComm
  PROVE  ScanInv'
<1>1. /\ Shapes /\ PortsFirst /\ Position /\ Len(devices) \in Nat
      /\ DevicesNamed(devices) /\ Len(Ports) \in Nat
      /\ \A i \in 1 .. Len(Ports) : Ports[i] \in DiskMajors
  BY PortsAssumption DEF ScanInv, Shapes, DevicesNamed, IsSeq
<1>2. /\ UNCHANGED <<images, root, mounts, dev, part, n, failed>>
      /\ pc \in {"pci", "comm"} /\ pc' \in {"pci", "comm", "scan"}
      /\ root = <<>> /\ dev = 1 /\ part = 0 /\ n = 0
  BY <1>1 DEF RegisterPort, RegisterComm, Position
<1>3. DevicesNamed(devices') /\ PortsFirst'
  <2>1. CASE devices' = devices /\ (pc' = "pci" => pc = "pci")
             /\ (pc' # "pci" => Len(devices) >= Len(Ports))
    BY <1>1, <2>1 DEF PortsFirst
  <2>2. CASE RegisterPort /\ Len(devices) < Len(Ports)
    <3>1. PICK l : l = DeviceCreate(devices, Ports[Len(devices) + 1])
      OBVIOUS
    <3>2. devices' = l /\ pc' = "pci"
      BY <2>2, <3>1 DEF RegisterPort
    <3>3. /\ DevicesNamed(l) /\ Len(l) = Len(devices) + 1
          /\ \A i \in 1 .. Len(devices) : l[i] = devices[i]
          /\ l[Len(devices) + 1].major = Ports[Len(devices) + 1]
      BY <1>1, <3>1, CreateNames
    <3> QED
      BY <1>1, <2>2, <3>2, <3>3 DEF PortsFirst
  <2>3. CASE RegisterComm /\ devices' # devices
    <3>1. PICK l, m : l = DeviceCreate(devices, SERIAL) /\ m = DeviceCreate(l, TTY)
      OBVIOUS
    <3>2. devices' = m /\ pc' = "comm" /\ pc = "comm"
      BY <2>3, <3>1 DEF RegisterComm
    <3>3. /\ DevicesNamed(l) /\ Len(l) = Len(devices) + 1
          /\ \A i \in 1 .. Len(devices) : l[i] = devices[i]
          /\ l[Len(devices) + 1].major = SERIAL
      BY <1>1, <3>1, CreateNames
    <3>4. /\ DevicesNamed(m) /\ Len(m) = Len(l) + 1
          /\ \A i \in 1 .. Len(l) : m[i] = l[i]
          /\ m[Len(l) + 1].major = TTY
      BY <3>1, <3>3, CreateNames
    <3>5. SERIAL \notin DiskMajors /\ TTY \notin DiskMajors
      BY DEF SERIAL, TTY, DiskMajors
    <3>6. Len(devices) >= Len(Ports)
      BY <1>1, <3>2 DEF PortsFirst
    <3>7. \A i \in 1 .. Len(m) : i <= Len(Ports) => m[i].major = Ports[i]
      <4> SUFFICES ASSUME NEW i \in 1 .. Len(m), i <= Len(Ports) PROVE m[i].major = Ports[i]
        OBVIOUS
      <4>1. i \in 1 .. Len(devices) /\ i \in 1 .. Len(l)
        BY <1>1, <3>3, <3>6
      <4> QED
        BY <1>1, <3>3, <3>4, <4>1 DEF PortsFirst
    <3>8. \A i \in 1 .. Len(m) : i > Len(Ports) => m[i].major \notin DiskMajors
      <4> SUFFICES ASSUME NEW i \in 1 .. Len(m), i > Len(Ports)
                   PROVE  m[i].major \notin DiskMajors
        OBVIOUS
      <4>1. CASE i \in 1 .. Len(devices)
        <5>1. m[i] = devices[i]
          BY <1>1, <3>3, <3>4, <4>1
        <5> QED
          BY <1>1, <4>1, <5>1 DEF PortsFirst
      <4>2. CASE i = Len(devices) + 1
        BY <1>1, <3>3, <3>4, <3>5, <4>2
      <4>3. CASE i = Len(devices) + 2
        BY <1>1, <3>3, <3>4, <3>5, <4>3
      <4> QED
        BY <1>1, <3>3, <3>4, <4>1, <4>2, <4>3
    <3>9. Len(m) >= Len(Ports)
      BY <1>1, <3>3, <3>4, <3>6
    <3> QED
      BY <3>2, <3>4, <3>7, <3>8, <3>9 DEF PortsFirst
  <2> QED
    BY <1>1, <2>1, <2>2, <2>3 DEF RegisterPort, RegisterComm, PortsFirst
<1>4. Shapes'
  BY <1>1, <1>2, <1>3 DEF Shapes
<1>5. Position'
  <2>1. Len(devices') \in Nat /\ Len(root) = 0
    BY <1>2, <1>3 DEF DevicesNamed, IsSeq
  <2> QED
    BY <1>2, <2>1 DEF Position, Scanning, Trying
<1>6. TableSoFar' /\ PartitionsComeFromOneTable'
  <2>1. DOMAIN root' = {}
    BY <1>2
  <2> QED
    BY <1>2, <2>1 DEF TableSoFar, PartitionsComeFromOneTable
<1> QED
  BY <1>3, <1>4, <1>5, <1>6 DEF ScanInv

\* The steps between two devices, and those of mounting, leave the tables.
LEMMA QuietKeeps ==
  ASSUME ScanInv, UNCHANGED <<images, devices, root>>,
         IsSeq(failed'), IsSeq(mounts'), \A d : Healthy(d)' => Healthy(d),
         dev' \in Nat \ {0}, part' \in Nat, n' \in Nat,
         pc' \in {"scan", "gpt", "mbr", "mount", "done"} \/ Trying',
         pc # "pci", Position', TableSoFar'
  PROVE  ScanInv'
<1>1. Shapes'
  BY DEF ScanInv, Shapes
<1>2. PortsFirst'
  BY DEF ScanInv, PortsFirst
<1>3. PartitionsComeFromOneTable'
  BY TablesStay DEF ScanInv
<1> QED
  BY <1>1, <1>2, <1>3 DEF ScanInv

\* detect_devices goes on to the next device, or to the mounts.
LEMMA ScanDeviceStep ==
  ASSUME ScanInv, ScanDevice
  PROVE  ScanInv'
<1>1. Shapes /\ Position /\ IsSeq(failed) /\ IsSeq(mounts) /\ Len(devices) \in Nat
      /\ IsSeq(root) /\ dev \in Nat \ {0} /\ part = 0 /\ n = 0
      /\ Len(root) = dev - 1 /\ dev <= Len(devices) + 1
  BY DEF ScanInv, Shapes, DevicesNamed, IsSeq, Position, ScanDevice, Scanning
<1>2. /\ UNCHANGED <<images, devices, mounts, part, failed>> /\ pc = "scan"
      /\ IsSeq(failed') /\ IsSeq(mounts') /\ \A d : Healthy(d)' => Healthy(d)
  BY <1>1 DEF ScanDevice, Healthy
<1>3. CASE dev > Len(devices) /\ pc' = "mount" /\ dev' = 1 /\ UNCHANGED <<root, n>>
  <2>1. Position' /\ TableSoFar'
    BY <1>1, <1>2, <1>3 DEF Position, TableSoFar, Scanning, Trying
  <2> QED
    BY <1>1, <1>2, <1>3, <2>1, QuietKeeps
<1>4. CASE dev <= Len(devices) /\ devices[dev].major \notin DiskMajors /\ Scanned(<<0>>)
  <2>1. PICK k, ps : k = dev /\ ps = <<0>>
    OBVIOUS
  <2> QED
    BY <1>1, <1>2, <1>4, <2>1, ScannedKeeps DEF Scanning
<1>5. CASE /\ dev <= Len(devices) /\ devices[dev].major \in DiskMajors
           /\ pc' = "gpt" /\ UNCHANGED <<root, dev, n>>
  <2>1. Position' /\ TableSoFar'
    BY <1>1, <1>2, <1>5 DEF Position, TableSoFar, Scanning, Trying
  <2> QED
    BY <1>1, <1>2, <1>5, <2>1, QuietKeeps
<1> QED
  BY <1>3, <1>4, <1>5 DEF ScanDevice

\* Without entries there are no partitions.
LEMMA EmptyGpt == GptPartitions(<<>>) = <<>>
  BY DEF GptPartitions, SelectInSeq

\* read_gpt: the table is added when all of it could be read.
LEMMA ReadGptStep ==
  ASSUME ScanInv, ReadGpt
  PROVE  ScanInv'
<1>1. /\ Shapes /\ PortsFirst /\ Position /\ TableSoFar /\ IsSeq(failed) /\ IsSeq(mounts)
      /\ Len(devices) \in Nat /\ dev \in Nat \ {0} /\ part = 0 /\ n \in Nat
      /\ Len(root) = dev - 1 /\ dev <= Len(devices) /\ devices[dev].major \in DiskMajors
  BY DEF ScanInv, Shapes, DevicesNamed, IsSeq, Position, ReadGpt, Scanning
<1>2. pc = "gpt" /\ UNCHANGED <<images, devices, mounts, part>>
  BY DEF ReadGpt
<1>3. Disk = images[dev] /\ (n > 0 => images[dev].bootsig)
  BY <1>1, <1>2, DiskAtHand DEF TableSoFar
<1>4. PICK ok \in BOOLEAN :
        /\ ReadDisk(ok)
        /\ \/ ~(ok /\ GptGoesOn) /\ GptFails
           \/ /\ ok /\ GptGoesOn
              /\ IF n < 1 + TableSectors(Disk.gpt)
                   THEN n' = n + 1 /\ UNCHANGED <<root, dev, pc>>
                   ELSE GptAdds
  BY DEF ReadGpt
<1>5. /\ IsSeq(failed') /\ \A d : Healthy(d)' => Healthy(d)
      /\ \A d : ~ok /\ d = dev => ~Healthy(d)'
  BY <1>1, <1>4, ReadFails
<1>6. PICK k : k = dev
  OBVIOUS
<1>7. ASSUME GptFails,
             ok => ~images[k].bootsig \/ GptPartitions(images[k].gpt) = <<>>
      PROVE  ScanInv'
  <2>1. pc' = "mbr" /\ n' = 0 /\ UNCHANGED <<root, dev>>
    BY <1>7 DEF GptFails
  <2>2. Position'
    BY <1>1, <1>2, <2>1 DEF Position, Scanning, Trying
  <2>3. TableSoFar'
    <3>1. CASE ok
      BY <1>2, <1>6, <1>7, <2>1, <3>1 DEF TableSoFar
    <3>2. CASE ~ok
      <4>1. dev' = k /\ ~Healthy(k)'
        BY <1>5, <1>6, <2>1, <3>2
      <4>2. ~Healthy(dev)'
        BY <4>1 DEF Healthy
      <4> QED
        BY <2>1, <4>2 DEF TableSoFar
    <3> QED
      BY <3>1, <3>2
  <2> QED
    BY <1>1, <1>2, <1>5, <2>1, <2>2, <2>3, QuietKeeps
<1>8. CASE ~(ok /\ GptGoesOn) /\ GptFails
  <2>1. ok => ~images[k].bootsig \/ images[k].gpt = <<>>
    BY <1>3, <1>6, <1>8 DEF GptGoesOn
  <2> QED
    BY <1>7, <1>8, <2>1, EmptyGpt
<1>9. CASE ok /\ GptGoesOn /\ n' = n + 1 /\ UNCHANGED <<root, dev, pc>>
  <2>1. images[dev].bootsig
    BY <1>1, <1>3, <1>9 DEF GptGoesOn
  <2>2. Position' /\ TableSoFar'
    BY <1>1, <1>2, <1>9, <2>1 DEF Position, TableSoFar, Scanning, Trying
  <2> QED
    BY <1>1, <1>2, <1>5, <1>9, <2>2, QuietKeeps
<1>10. CASE ok /\ GptGoesOn /\ GptAdds
  <2>1. CASE GptPartitions(Disk.gpt) = <<>> /\ GptFails
    BY <1>3, <1>6, <1>7, <2>1
  <2>2. CASE GptPartitions(Disk.gpt) # <<>> /\ Scanned(GptPartitions(Disk.gpt))
    <3>1. PICK ps : ps = GptPartitions(images[k].gpt)
      OBVIOUS
    <3>2. ps # <<>> /\ Scanned(ps)
      BY <1>3, <1>6, <2>2, <3>1
    <3>3. images[k].bootsig
      BY <1>1, <1>3, <1>6, <1>10 DEF GptGoesOn
    <3>4. ps = Listed(images[k])
      BY <3>1, <3>2, <3>3 DEF Listed
    <3>5. OneTable(k, ps)'
      BY <1>2, <3>1, <3>4 DEF OneTable
    <3> QED
      BY <1>1, <1>2, <1>5, <1>6, <3>2, <3>5, ScannedKeeps DEF Scanning
  <2> QED
    BY <1>10, <2>1, <2>2 DEF GptAdds
<1> QED
  BY <1>4, <1>8, <1>9, <1>10

\* read_mbr, asked when the GPT gave nothing.
LEMMA ReadMbrStep ==
  ASSUME ScanInv, ReadMbr
  PROVE  ScanInv'
<1>1. /\ Shapes /\ PortsFirst /\ Position /\ TableSoFar /\ IsSeq(failed)
      /\ dev <= Len(devices) /\ devices[dev].major \in DiskMajors
  BY DEF ScanInv, Shapes, Position, ReadMbr
<1>2. pc = "mbr" /\ UNCHANGED <<images, devices, mounts, part>>
  BY DEF ReadMbr
<1>3. Disk = images[dev]
  BY <1>1, DiskAtHand
<1>4. PICK ok \in BOOLEAN :
        /\ ReadDisk(ok)
        /\ Scanned(IF ok /\ Disk.bootsig THEN MbrPartitions(Disk.mbr) ELSE <<>>)
  BY DEF ReadMbr
<1>5. /\ IsSeq(failed') /\ \A d : Healthy(d)' => Healthy(d)
      /\ \A d : ~ok /\ d = dev => ~Healthy(d)'
  BY <1>1, <1>4, ReadFails
<1>6. PICK k : k = dev
  OBVIOUS
<1>7. PICK ps : ps = IF ok /\ images[k].bootsig THEN MbrPartitions(images[k].mbr) ELSE <<>>
  OBVIOUS
<1>8. Scanned(ps)
  BY <1>3, <1>4, <1>6, <1>7
<1>9. OneTable(k, ps)'
  <2>1. CASE Healthy(k)'
    <3>1. ok /\ Healthy(k)
      BY <1>5, <1>6, <2>1
    <3>2. ~images[k].bootsig \/ GptPartitions(images[k].gpt) = <<>>
      BY <1>1, <1>2, <1>6, <3>1 DEF TableSoFar
    <3>3. ps = Listed(images[k])
      BY <1>7, <3>1, <3>2 DEF Listed
    <3> QED
      BY <1>2, <2>1, <3>3 DEF OneTable
  <2>2. CASE ~Healthy(k)'
    BY <1>2, <1>7, <2>2 DEF OneTable
  <2> QED
    BY <2>1, <2>2
<1> QED
  BY <1>1, <1>2, <1>5, <1>6, <1>8, <1>9, ScannedKeeps DEF Scanning

\* The steps of mounting.
Mounting == TryPartition \/ FatDetect \/ FatRegister \/ Ext2Detect \/ Ext2Register

\* What they have in common.
LEMMA MountingFrame ==
  ASSUME ScanInv, Mounting
  PROVE  /\ UNCHANGED <<images, devices, root>> /\ IsSeq(failed')
         /\ \A d : Healthy(d)' => Healthy(d)
         /\ mounts' # mounts => \E m : mounts' = Append(mounts, m)
<1>1. IsSeq(failed)
  BY DEF ScanInv, Shapes
<1>2. failed' = failed \/ \E ok \in BOOLEAN : ReadDisk(ok)
  BY DEF Mounting, TryPartition, FatDetect, FatRegister, Ext2Detect, Ext2Register
<1>3. IsSeq(failed') /\ \A d : Healthy(d)' => Healthy(d)
  <2>1. CASE failed' = failed
    BY <1>1, <2>1 DEF Healthy
  <2>2. ASSUME NEW ok \in BOOLEAN, ReadDisk(ok)
        PROVE  IsSeq(failed') /\ \A d : Healthy(d)' => Healthy(d)
    BY <1>1, <2>2, ReadFails
  <2> QED
    BY <1>2, <2>1, <2>2
<1>4. UNCHANGED <<images, devices, root>>
  BY DEF Mounting, TryPartition, FatDetect, FatRegister, Ext2Detect, Ext2Register
<1>5. mounts' # mounts => \E m : mounts' = Append(mounts, m)
  BY DEF Mounting, TryPartition, FatDetect, FatRegister, Ext2Detect, Ext2Register,
         AddMount, RegisterFails, Registered
<1> QED
  BY <1>3, <1>4, <1>5

\* Mounting leaves the devices and the tables.
LEMMA MountingSteps ==
  ASSUME ScanInv, Mounting
  PROVE  ScanInv'
<1>1. /\ UNCHANGED <<images, devices, root>> /\ IsSeq(failed') /\ IsSeq(mounts)
      /\ \A d : Healthy(d)' => Healthy(d)
      /\ mounts' # mounts => \E m : mounts' = Append(mounts, m)
  BY MountingFrame DEF ScanInv, Shapes
<1>2. IsSeq(mounts')
  <2>1. CASE mounts' = mounts
    BY <1>1, <2>1
  <2>2. ASSUME NEW m, mounts' = Append(mounts, m) PROVE IsSeq(mounts')
    <3>1. IsSeq(Append(mounts, m))
      BY <1>1, AppendAny
    <3> QED
      BY <2>2, <3>1
  <2> QED
    BY <1>1, <2>1, <2>2
<1>3. /\ Shapes /\ Position /\ (pc = "mount" \/ Trying)
      /\ dev \in Nat \ {0} /\ part \in Nat /\ n \in Nat
  BY DEF ScanInv, Shapes, Mounting, TryPartition, FatDetect, FatRegister, Ext2Detect,
         Ext2Register, Trying
<1>4. /\ pc' \in {"mount", "done"} \/ Trying'
      /\ dev' \in Nat \ {0} /\ part' \in Nat /\ n' \in Nat
      /\ Trying' => dev' <= Len(root) /\ part' < Len(root[dev'])
                    /\ devices[dev'].major \in DiskMajors
  <2>1. CASE TryPartition
    BY <1>3, <2>1 DEF TryPartition, NextPartition, Trying
  <2>2. CASE FatDetect
    BY <1>3, <2>2 DEF FatDetect, Trying, Position
  <2>3. CASE FatRegister
    BY <1>3, <2>3 DEF FatRegister, NextPartition, Trying
  <2>4. CASE Ext2Detect
    BY <1>3, <2>4 DEF Ext2Detect, NextPartition, Trying, Position
  <2>5. CASE Ext2Register
    BY <1>3, <2>5 DEF Ext2Register, NextPartition, RegisterFails, Registered, Trying,
                      Position
  <2> QED
    BY <2>1, <2>2, <2>3, <2>4, <2>5 DEF Mounting
<1>5. Position' /\ TableSoFar' /\ pc # "pci"
  BY <1>1, <1>3, <1>4 DEF Position, TableSoFar, Scanning, Trying
<1> QED
  BY <1>1, <1>2, <1>4, <1>5, QuietKeeps

\* FileOpen and stuttering leave what boot has made.
LEMMA OpenKeeps ==
  ASSUME ScanInv, UNCHANGED <<images, devices, root, mounts, pc, dev, part, n, failed>>
  PROVE  ScanInv'
<1>1. Shapes' /\ PortsFirst' /\ Position'
  BY DEF ScanInv, Shapes, PortsFirst, Position, Scanning, Trying
<1>2. (\A d : Healthy(d)' => Healthy(d)) /\ (Healthy(dev)' => Healthy(dev))
  BY DEF Healthy
<1>3. TableSoFar'
  BY <1>2 DEF ScanInv, TableSoFar
<1>4. PartitionsComeFromOneTable'
  BY <1>2, TablesStay DEF ScanInv
<1> QED
  BY <1>1, <1>3, <1>4 DEF ScanInv

\* Before the first device.
LEMMA InitScanInv == Init => ScanInv
<1> SUFFICES ASSUME Init PROVE ScanInv
  OBVIOUS
<1>1. IsSeq(<<>>) /\ Len(<<>>) = 0 /\ DOMAIN <<>> = {}
  BY DEF IsSeq
<1>2. DevicesNamed(devices)
  BY <1>1 DEF Init, DevicesNamed
<1>3. Shapes
  BY <1>1, <1>2 DEF Init, Shapes
<1>4. PortsFirst /\ Position /\ TableSoFar
  BY <1>1 DEF Init, PortsFirst, Position, TableSoFar, Scanning, Trying
<1>5. PartitionsComeFromOneTable
  BY <1>1 DEF Init, PartitionsComeFromOneTable
<1> QED
  BY <1>3, <1>4, <1>5 DEF ScanInv

\* Every step keeps the devices named and the tables whole.
LEMMA NextScanInv == ScanInv /\ [Next]_vars => ScanInv'
<1> SUFFICES ASSUME ScanInv, [Next]_vars PROVE ScanInv'
  OBVIOUS
<1>1. CASE FileOpen \/ UNCHANGED vars
  BY <1>1, OpenKeeps DEF FileOpen, vars
<1> QED
  BY <1>1, RegisterSteps, ScanDeviceStep, ReadGptStep, ReadMbrStep, MountingSteps
     DEF Next, Mounting

(* A disk that reads well has the partitions of one of its tables, the GPT *)
(* before the MBR, and one that does not has those of one table or none,   *)
(* for any disks, tables and failures (detect_partitions).                 *)
THEOREM TablesAreTakenWhole == Spec => []PartitionsComeFromOneTable
<1>1. ScanInv => PartitionsComeFromOneTable
  BY DEF ScanInv
<1> QED
  BY <1>1, InitScanInv, NextScanInv, PTL DEF Spec

-----------------------------------------------------------------------------
\* The slot a registration takes is a free one.
LEMMA LowestSlotIsFree ==
  ASSUME FreeSlots(ext2, None) # {}
  PROVE  /\ LowestSlot(FreeSlots(ext2, None)) \in Slot
         /\ ext2[LowestSlot(FreeSlots(ext2, None))] = None
<1>1. PICK F : F = FreeSlots(ext2, None)
  OBVIOUS
<1>2. F # {} /\ F \subseteq Nat /\ \A s \in F : s \in Slot /\ ext2[s] = None
  BY <1>1, CountsAssumption DEF FreeSlots, Slot
<1>3. \E s \in F : \A t \in F : s <= t
  BY <1>2, LeastExists
<1>4. LowestSlot(F) \in F
  BY <1>3 DEF LowestSlot
<1> QED
  BY <1>1, <1>2, <1>4

\* SlotInv, entry by entry.
LEMMA SlotsOfAll ==
  ASSUME IsSeq(mounts)
  PROVE  MountsOwnTheirSlots <=>
           \A i \in 1 .. Len(mounts) : mounts[i].fs = "ext2" =>
             /\ ext2[mounts[i].index] = [device |-> mounts[i].device, lba |-> mounts[i].lba]
             /\ \A j \in 1 .. Len(mounts) :
                  j # i /\ mounts[j].fs = "ext2" => mounts[j].index # mounts[i].index
<1>1. DOMAIN mounts = 1 .. Len(mounts)
  BY DomainOfSeq
<1> QED
  BY <1>1 DEF MountsOwnTheirSlots

\* A mount is added.
LEMMA AddMountIs ==
  ASSUME NEW fs, NEW index, AddMount(fs, index)
  PROVE  \E m : /\ mounts' = Append(mounts, m)
                /\ m.device = dev /\ m.lba = Lba /\ m.fs = fs /\ m.index = index
                /\ m.name = Mountpoint(devices[dev], part)
<1>1. PICK m : m = [device |-> dev, lba |-> Lba, fs |-> fs, index |-> index,
                    name |-> Mountpoint(devices[dev], part)]
  OBVIOUS
<1>2. mounts' = Append(mounts, m)
  BY <1>1 DEF AddMount
<1> QED
  BY <1>1, <1>2

\* A FAT32 mount concerns no slot of ext2.
LEMMA FatMountKeepsSlots ==
  ASSUME Shapes, SlotInv, NEW index, AddMount("fat32", index), ext2' = ext2
  PROVE  SlotInv'
<1>1. PICK m : mounts' = Append(mounts, m) /\ m.device = dev /\ m.fs = "fat32"
  BY AddMountIs
<1>2. /\ IsSeq(mounts) /\ Len(mounts) \in Nat /\ dev # 0
  BY DEF Shapes, IsSeq
<1>3. /\ IsSeq(mounts') /\ Len(mounts') = Len(mounts) + 1
      /\ \A i \in 1 .. Len(mounts) : mounts'[i] = mounts[i]
      /\ mounts'[Len(mounts) + 1] = m
  BY <1>1, <1>2, AppendAny
<1>4. \A i \in 1 .. Len(mounts') :
        (i \in 1 .. Len(mounts) /\ mounts'[i] = mounts[i])
        \/ (mounts'[i].device # 0 /\ mounts'[i].fs # "ext2")
  BY <1>1, <1>2, <1>3
<1>5. MountsOwnTheirSlots
  BY DEF SlotInv
<1>6. MountsOwnTheirSlots'
  <2>1. DOMAIN mounts' = 1 .. Len(mounts') /\ DOMAIN mounts = 1 .. Len(mounts)
    BY <1>2, <1>3, DomainOfSeq
  <2> QED
    BY <1>4, <1>5, <2>1 DEF MountsOwnTheirSlots
<1> QED
  BY <1>4, <1>6 DEF SlotInv

\* An ext2 mount takes a slot that no other mount has.
LEMMA Ext2MountTakesSlot ==
  ASSUME Shapes, SlotInv, FreeSlots(ext2, None) # {},
         Registered(LowestSlot(FreeSlots(ext2, None)))
  PROVE  SlotInv'
<1>1. PICK s : s = LowestSlot(FreeSlots(ext2, None)) /\ s \in Slot /\ ext2[s] = None
  BY LowestSlotIsFree
<1>2. PICK v : v = [device |-> dev, lba |-> Lba]
  OBVIOUS
<1>3. AddMount("ext2", s) /\ ext2' = [ext2 EXCEPT ![s] = v]
  BY <1>1, <1>2 DEF Registered
<1>4. PICK m : /\ mounts' = Append(mounts, m) /\ m.device = dev /\ m.lba = Lba
               /\ m.fs = "ext2" /\ m.index = s
  BY <1>3, AddMountIs
<1>5. IsSeq(mounts) /\ Len(mounts) \in Nat /\ dev # 0 /\ DOMAIN ext2 = Slot
  BY DEF Shapes, IsSeq, SlotInv
<1>6. /\ IsSeq(mounts') /\ Len(mounts') = Len(mounts) + 1
      /\ \A i \in 1 .. Len(mounts) : mounts'[i] = mounts[i]
      /\ mounts'[Len(mounts) + 1] = m
  BY <1>4, <1>5, AppendAny
<1>7. /\ DOMAIN ext2' = Slot /\ ext2'[s] = v
      /\ \A t \in Slot : t # s => ext2'[t] = ext2[t]
  BY <1>1, <1>3, <1>5
<1>8. \A i \in 1 .. Len(mounts) : mounts[i].fs = "ext2" =>
        /\ mounts[i].index \in Slot /\ mounts[i].index # s
        /\ ext2[mounts[i].index] = [device |-> mounts[i].device, lba |-> mounts[i].lba]
        /\ \A j \in 1 .. Len(mounts) :
             j # i /\ mounts[j].fs = "ext2" => mounts[j].index # mounts[i].index
  <2> SUFFICES ASSUME NEW i \in 1 .. Len(mounts), mounts[i].fs = "ext2"
               PROVE  /\ mounts[i].index \in Slot /\ mounts[i].index # s
                      /\ ext2[mounts[i].index] =
                           [device |-> mounts[i].device, lba |-> mounts[i].lba]
                      /\ \A j \in 1 .. Len(mounts) :
                           j # i /\ mounts[j].fs = "ext2" => mounts[j].index # mounts[i].index
    OBVIOUS
  <2>1. /\ mounts[i].index \in Slot /\ mounts[i].device # 0
        /\ ext2[mounts[i].index] = [device |-> mounts[i].device, lba |-> mounts[i].lba]
        /\ \A j \in 1 .. Len(mounts) :
             j # i /\ mounts[j].fs = "ext2" => mounts[j].index # mounts[i].index
    BY <1>5, SlotsOfAll DEF SlotInv
  <2>2. mounts[i].index # s
    BY <1>1, <2>1 DEF None
  <2> QED
    BY <2>1, <2>2
<1>9. \A i \in 1 .. Len(mounts') :
        (i \in 1 .. Len(mounts) /\ mounts'[i] = mounts[i])
        \/ (i = Len(mounts) + 1 /\ mounts'[i] = m)
  BY <1>5, <1>6
<1>10. \A i \in 1 .. Len(mounts') : mounts'[i].fs = "ext2" =>
         /\ ext2'[mounts'[i].index] = [device |-> mounts'[i].device, lba |-> mounts'[i].lba]
         /\ \A j \in 1 .. Len(mounts') :
              j # i /\ mounts'[j].fs = "ext2" => mounts'[j].index # mounts'[i].index
  <2> SUFFICES ASSUME NEW i \in 1 .. Len(mounts'), mounts'[i].fs = "ext2"
               PROVE  /\ ext2'[mounts'[i].index] =
                           [device |-> mounts'[i].device, lba |-> mounts'[i].lba]
                      /\ \A j \in 1 .. Len(mounts') : j # i /\ mounts'[j].fs = "ext2"
                            => mounts'[j].index # mounts'[i].index
    OBVIOUS
  <2>1. CASE i \in 1 .. Len(mounts) /\ mounts'[i] = mounts[i]
    <3>1. ext2'[mounts[i].index] = [device |-> mounts[i].device, lba |-> mounts[i].lba]
      <4>1. mounts[i].fs = "ext2" /\ i \in 1 .. Len(mounts)
        BY <2>1
      <4>2. mounts[i].index \in Slot /\ mounts[i].index # s
        BY <1>8, <4>1
      <4>3. ext2'[mounts[i].index] = ext2[mounts[i].index]
        BY <1>7, <4>2
      <4> QED
        BY <1>8, <4>1, <4>3
    <3>2. \A j \in 1 .. Len(mounts') : j # i /\ mounts'[j].fs = "ext2"
            => mounts'[j].index # mounts[i].index
      <4> SUFFICES ASSUME NEW j \in 1 .. Len(mounts'), j # i, mounts'[j].fs = "ext2"
                   PROVE  mounts'[j].index # mounts[i].index
        OBVIOUS
      <4>1. CASE j \in 1 .. Len(mounts) /\ mounts'[j] = mounts[j]
        BY <1>8, <2>1, <4>1
      <4>2. CASE mounts'[j] = m
        BY <1>4, <1>8, <2>1, <4>2
      <4> QED
        BY <1>9, <4>1, <4>2
    <3> QED
      BY <2>1, <3>1, <3>2
  <2>2. CASE i = Len(mounts) + 1 /\ mounts'[i] = m
    <3>1. ext2'[m.index] = [device |-> m.device, lba |-> m.lba]
      BY <1>2, <1>4, <1>7
    <3>2. \A j \in 1 .. Len(mounts') : j # i /\ mounts'[j].fs = "ext2"
            => mounts'[j].index # m.index
      BY <1>4, <1>8, <1>9, <2>2
    <3> QED
      BY <2>2, <3>1, <3>2
  <2> QED
    BY <1>9, <2>1, <2>2
<1>11. MountsOwnTheirSlots'
  <2>1. DOMAIN mounts' = 1 .. Len(mounts')
    BY <1>6, DomainOfSeq
  <2> QED
    BY <1>10, <2>1 DEF MountsOwnTheirSlots
<1>12. \A i \in 1 .. Len(mounts') : mounts'[i].device # 0
         /\ (mounts'[i].fs = "ext2" => mounts'[i].index \in Slot)
  BY <1>1, <1>4, <1>5, <1>9 DEF SlotInv
<1> QED
  BY <1>7, <1>11, <1>12 DEF SlotInv

\* Every step keeps the slots owned.
LEMMA NextSlotInv ==
  ASSUME ScanInv, SlotInv, [Next]_vars
  PROVE  SlotInv'
<1>1. Shapes
  BY DEF ScanInv
<1>2. CASE UNCHANGED <<ext2, mounts>>
  BY <1>2 DEF SlotInv, MountsOwnTheirSlots
<1>3. CASE FatRegister
  BY <1>1, <1>2, <1>3, FatMountKeepsSlots DEF FatRegister
<1>4. CASE Ext2Register
  BY <1>1, <1>2, <1>4, Ext2MountTakesSlot DEF Ext2Register, RegisterFails
<1> QED
  BY <1>2, <1>3, <1>4 DEF Next, vars, RegisterPort, RegisterComm, ScanDevice, ReadGpt,
     ReadMbr, TryPartition, FatDetect, Ext2Detect, FileOpen

(* The slot a mount names holds the disk and the sector it was mounted     *)
(* from, and is no other mount's, for any disks, slots and failures        *)
(* (mount_fs, ext2_compat_register_partition).                             *)
THEOREM SlotsStayOwned == Spec => []MountsOwnTheirSlots
<1>1. Init => SlotInv
  BY DEF Init, SlotInv, MountsOwnTheirSlots
<1>2. SlotInv => MountsOwnTheirSlots
  BY DEF SlotInv
<1>3. ScanInv /\ SlotInv /\ [Next]_vars => SlotInv'
  BY NextSlotInv
<1> QED
  BY <1>1, <1>2, <1>3, InitScanInv, NextScanInv, PTL DEF Spec

-----------------------------------------------------------------------------
\* A partition that has its mount keeps it, and slots do not become free.
LEMMA MountedStays ==
  ASSUME Shapes, devices' = devices, FreeSlots(ext2', None) \subseteq FreeSlots(ext2, None),
         mounts' = mounts \/ \E m : mounts' = Append(mounts, m),
         NEW d, NEW p, NEW lba, MountedOrFull(d, p, lba)
  PROVE  MountedOrFull(d, p, lba)'
<1>1. IsSeq(mounts) /\ Len(mounts) \in Nat
  BY DEF Shapes, IsSeq
<1>2. \A i \in 1 .. Len(mounts) : i \in 1 .. Len(mounts') /\ mounts'[i] = mounts[i]
  <2>1. CASE mounts' = mounts
    BY <2>1
  <2>2. ASSUME NEW m, mounts' = Append(mounts, m)
        PROVE  \A i \in 1 .. Len(mounts) : i \in 1 .. Len(mounts') /\ mounts'[i] = mounts[i]
    <3>1. /\ Len(mounts') = Len(mounts) + 1
          /\ \A i \in 1 .. Len(mounts) : mounts'[i] = mounts[i]
      BY <1>1, <2>2, AppendAny
    <3> QED
      BY <1>1, <3>1
  <2> QED
    BY <2>1, <2>2
<1>3. CASE FreeSlots(ext2, None) = {}
  BY <1>3 DEF MountedOrFull
<1>4. CASE \E i \in 1 .. Len(mounts) :
             /\ mounts[i].device = d /\ mounts[i].lba = lba /\ mounts[i].fs = "ext2"
             /\ mounts[i].name = Mountpoint(devices[d], p - 1)
  <2>1. PICK i \in 1 .. Len(mounts) :
          /\ mounts[i].device = d /\ mounts[i].lba = lba /\ mounts[i].fs = "ext2"
          /\ mounts[i].name = Mountpoint(devices[d], p - 1)
    BY <1>4
  <2>2. i \in 1 .. Len(mounts') /\ mounts'[i] = mounts[i]
    BY <1>2
  <2>3. PICK x : x = Mountpoint(devices[d], p - 1)
    OBVIOUS
  <2>4. Mountpoint(devices[d], p - 1)' = x
    BY <2>3
  <2> QED
    BY <2>1, <2>2, <2>3, <2>4 DEF MountedOrFull
<1> QED
  BY <1>3, <1>4 DEF MountedOrFull

\* What is left to show for a step: the partitions it has just tried.
LEMMA TriedKeeps ==
  ASSUME ScanInv, TriedAreMounted, UNCHANGED <<images, devices>>,
         FreeSlots(ext2', None) \subseteq FreeSlots(ext2, None),
         mounts' = mounts \/ \E m : mounts' = Append(mounts, m),
         \A d : Healthy(d)' => Healthy(d),
         pc' = "fatRegister" =>
           (images[dev].content[root[dev][part + 1]] \in {"fat", "both"})',
         \A d \in 1 .. Len(Ports) : \A p \in 1 .. Len(Listed(images[d])) :
           Healthy(d)' /\ Tried(d, p)' /\ images[d].content[Listed(images[d])[p]] = "ext2"
             => Tried(d, p) \/ MountedOrFull(d, p, Listed(images[d])[p])'
  PROVE  TriedAreMounted'
<1>1. ASSUME NEW d \in 1 .. Len(Ports), Healthy(d)', NEW p \in 1 .. Len(Listed(images[d])),
             Tried(d, p)', images[d].content[Listed(images[d])[p]] = "ext2"
      PROVE  MountedOrFull(d, p, Listed(images[d])[p])'
  <2>1. CASE Tried(d, p)
    <3>1. PICK lba : lba = Listed(images[d])[p]
      OBVIOUS
    <3>2. MountedOrFull(d, p, lba)
      BY <1>1, <2>1, <3>1 DEF TriedAreMounted
    <3>3. MountedOrFull(d, p, lba)'
      BY <3>2, MountedStays DEF ScanInv
    <3>4. Listed(images[d])[p]' = lba
      BY <3>1 DEF Listed
    <3> QED
      BY <3>3, <3>4 DEF MountedOrFull
  <2> QED
    BY <1>1, <2>1
<1>2. \A d : images'[d] = images[d]
  OBVIOUS
<1> QED
  BY <1>1, <1>2 DEF TriedAreMounted

\* A port's device is a disk, and when it reads well it has what it lists.
LEMMA HealthyRoot ==
  ASSUME ScanInv, NEW d \in 1 .. Len(Ports), d \in 1 .. Len(root), Healthy(d),
         d \in 1 .. Len(devices)
  PROVE  /\ devices[d].major \in DiskMajors /\ root[d] = Listed(images[d])
         /\ Listed(images[d]) \in Seq(Nat)
<1>1. devices[d].major = Ports[d] /\ d <= Len(Ports)
  BY PortsAssumption DEF ScanInv, PortsFirst
<1>2. Ports[d] \in DiskMajors
  BY PortsAssumption, ElementOfSeq
<1>3. d \in DOMAIN root
  BY DomainOfSeq DEF ScanInv, Shapes
<1>4. images[d] \in Images
  BY DEF ScanInv, Shapes
<1> QED
  BY <1>1, <1>2, <1>3, <1>4, ImagesAssumption DEF ScanInv, PartitionsComeFromOneTable

\* A registration takes a slot and none frees one.
LEMMA SlotsFill ==
  ASSUME ScanInv, SlotInv, Mounting
  PROVE  FreeSlots(ext2', None) \subseteq FreeSlots(ext2, None)
<1>1. CASE ext2' = ext2
  BY <1>1
<1>2. CASE Registered(LowestSlot(FreeSlots(ext2, None)))
  <2>1. PICK s, v : /\ s = LowestSlot(FreeSlots(ext2, None))
                    /\ v = [device |-> dev, lba |-> Lba]
    OBVIOUS
  <2>2. ext2' = [ext2 EXCEPT ![s] = v] /\ DOMAIN ext2 = Slot
    BY <1>2, <2>1 DEF Registered, SlotInv
  <2>3. v # None
    BY <2>1 DEF None, ScanInv, Shapes
  <2> QED
    BY <2>2, <2>3 DEF FreeSlots
<1> QED
  BY <1>1, <1>2 DEF Mounting, TryPartition, FatDetect, FatRegister, Ext2Detect,
     Ext2Register, RegisterFails

\* The list of mounts changes at its end only.
LEMMA MountsGrow ==
  ASSUME ScanInv, Mounting
  PROVE  mounts' = mounts \/ \E m : mounts' = Append(mounts, m)
  BY MountingFrame

\* A step on to the next partition has tried one more: the one at hand.
LEMMA NextPartitionTries ==
  ASSUME ScanInv, SlotInv, TriedAreMounted, Mounting, Trying, NextPartition, dev' = dev,
         NEW k, k = dev, NEW q, q = part + 1, NEW lba, lba = root[dev][part + 1],
         Healthy(k)' /\ images[k].content[lba] = "ext2" => MountedOrFull(k, q, lba)'
  PROVE  TriedAreMounted'
<1>1. /\ UNCHANGED <<images, devices, root>> /\ \A d : Healthy(d)' => Healthy(d)
      /\ FreeSlots(ext2', None) \subseteq FreeSlots(ext2, None)
      /\ mounts' = mounts \/ \E m : mounts' = Append(mounts, m)
  BY MountingFrame, SlotsFill, MountsGrow
<1>2. /\ pc' = "mount" /\ part' = q /\ part \in Nat /\ k \in Nat \ {0} /\ k <= Len(root)
      /\ Len(root) = Len(devices) /\ Len(root) \in Nat
  BY DEF NextPartition, ScanInv, Shapes, IsSeq, Position
<1>3. ASSUME NEW d \in 1 .. Len(Ports), NEW p \in 1 .. Len(Listed(images[d])),
             Healthy(d)', Tried(d, p)', images[d].content[Listed(images[d])[p]] = "ext2"
      PROVE  Tried(d, p) \/ MountedOrFull(d, p, Listed(images[d])[p])'
  <2>1. CASE d < k \/ (d = k /\ p <= part)
    BY <2>1 DEF Tried
  <2>2. CASE d = k /\ p = q
    <3>1. d \in 1 .. Len(root) /\ d \in 1 .. Len(devices)
      BY <1>2, <2>2
    <3>2. root[d] = Listed(images[d])
      BY <1>1, <1>3, <3>1, HealthyRoot
    <3>3. Listed(images[d])[p] = lba
      BY <2>2, <3>2
    <3>4. MountedOrFull(k, q, lba)'
      BY <1>3, <2>2, <3>3
    <3>5. Listed(images[d])[p]' = lba
      BY <1>1, <3>3 DEF Listed
    <3> QED
      BY <2>2, <3>4, <3>5 DEF MountedOrFull
  <2>3. d < k \/ (d = k /\ p <= q)
    BY <1>2, <1>3 DEF Tried, Trying
  <2>4. p <= q => p <= part \/ p = q
    <3>1. p \in Int
      OBVIOUS
    <3> QED
      BY <1>2, <3>1
  <2> QED
    BY <2>1, <2>2, <2>3, <2>4
<1> QED
  BY <1>1, <1>2, <1>3, TriedKeeps

\* The step from partition to partition and from device to device skips no
\* partition of a disk.
LEMMA TryPartitionTries ==
  ASSUME ScanInv, SlotInv, TriedAreMounted, TryPartition
  PROVE  TriedAreMounted'
<1>0. Mounting
  BY DEF Mounting
<1>1. /\ UNCHANGED <<images, devices, root>> /\ \A d : Healthy(d)' => Healthy(d)
      /\ FreeSlots(ext2', None) \subseteq FreeSlots(ext2, None)
      /\ mounts' = mounts \/ \E m : mounts' = Append(mounts, m)
  BY <1>0, MountingFrame, SlotsFill, MountsGrow
<1>2. /\ pc = "mount" /\ dev \in Nat \ {0} /\ part \in Nat /\ Len(root) \in Nat
      /\ Len(root) = Len(devices) /\ Len(devices) >= Len(Ports) /\ Len(Ports) \in Nat
      /\ pc' # "fatRegister"
  BY PortsAssumption DEF TryPartition, NextPartition, ScanInv, Shapes, IsSeq, Position,
     PortsFirst
<1>3. ASSUME NEW d \in 1 .. Len(Ports), NEW p \in 1 .. Len(Listed(images[d])),
             Healthy(d)', Tried(d, p)'
      PROVE  d < dev \/ (d = dev /\ p <= part)
  <2>1. CASE dev > Len(root)
    BY <1>2, <2>1
  <2>2. CASE dev <= Len(root) /\ part >= Len(root[dev]) /\ dev' = dev + 1 /\ part' = 0
             /\ pc' = pc
    <3>1. d < dev + 1 \/ p <= 0
      BY <1>2, <1>3, <2>2 DEF Tried, Trying
    <3>2. d < dev \/ d = dev
      BY <1>2, <3>1
    <3>3. CASE d = dev
      <4>1. root[d] = Listed(images[d]) /\ Listed(images[d]) \in Seq(Nat)
        BY <1>1, <1>2, <1>3, <2>2, <3>3, HealthyRoot
      <4>2. Len(Listed(images[d])) \in Nat /\ Len(Listed(images[d])) <= part
        BY <2>2, <3>3, <4>1
      <4> QED
        BY <1>2, <3>3, <4>2
    <3> QED
      BY <3>2, <3>3
  <2>3. CASE pc' = "fatDetect" /\ UNCHANGED <<dev, part>>
    BY <1>3, <2>3 DEF Tried, Trying
  <2>4. CASE dev <= Len(root) /\ devices[dev].major \notin DiskMajors /\ NextPartition
             /\ dev' = dev
    <3>1. d < dev \/ d = dev
      BY <1>2, <1>3, <2>4 DEF Tried, Trying, NextPartition
    <3>2. d # dev
      BY <1>1, <1>2, <1>3, <2>4, HealthyRoot
    <3> QED
      BY <3>1, <3>2
  <2> QED
    BY <2>1, <2>2, <2>3, <2>4 DEF TryPartition
<1> QED
  BY <1>1, <1>2, <1>3, TriedKeeps DEF Tried

\* FAT32 takes no partition with ext2 alone on it.
LEMMA FatSteps ==
  ASSUME ScanInv, SlotInv, TriedAreMounted, FatDetect \/ FatRegister
  PROVE  TriedAreMounted'
<1>0. Mounting
  BY DEF Mounting
<1>1. /\ UNCHANGED <<images, devices, root>> /\ \A d : Healthy(d)' => Healthy(d)
      /\ FreeSlots(ext2', None) \subseteq FreeSlots(ext2, None)
      /\ mounts' = mounts \/ \E m : mounts' = Append(mounts, m)
  BY <1>0, MountingFrame, SlotsFill, MountsGrow
<1>2. /\ Trying /\ dev' = dev /\ Shapes /\ PortsFirst /\ dev <= Len(devices)
      /\ devices[dev].major \in DiskMajors
  BY DEF FatDetect, FatRegister, Trying, ScanInv, Position
<1>3. Disk = images[dev]
  BY <1>2, DiskAtHand
<1>4. CASE FatDetect
  <2>1. Trying' /\ UNCHANGED <<dev, part>>
    BY <1>4 DEF FatDetect, Trying
  <2>2. pc' = "fatRegister" => images[dev].content[root[dev][part + 1]] \in {"fat", "both"}
    BY <1>3, <1>4 DEF FatDetect, HasFat, Content, Lba
  <2>3. \A d, p : Tried(d, p)' => Tried(d, p)
    BY <1>2, <2>1 DEF Tried, Trying
  <2> QED
    BY <1>1, <2>1, <2>2, <2>3, TriedKeeps
<1>5. CASE FatRegister
  <2>1. PICK k, q, lba : k = dev /\ q = part + 1 /\ lba = root[dev][part + 1]
    OBVIOUS
  <2>2. images[k].content[lba] # "ext2"
    BY <1>5, <2>1 DEF FatRegister, TriedAreMounted
  <2>3. NextPartition
    BY <1>5 DEF FatRegister
  <2> QED
    BY <1>0, <1>2, <2>1, <2>2, <2>3, NextPartitionTries
<1> QED
  BY <1>4, <1>5

\* A partition ext2 does not recognise has no superblock or a failed read.
LEMMA Ext2DetectTries ==
  ASSUME ScanInv, SlotInv, TriedAreMounted, Ext2Detect
  PROVE  TriedAreMounted'
<1>0. Mounting
  BY DEF Mounting
<1>1. /\ UNCHANGED <<images, devices, root>> /\ \A d : Healthy(d)' => Healthy(d)
      /\ FreeSlots(ext2', None) \subseteq FreeSlots(ext2, None)
      /\ mounts' = mounts \/ \E m : mounts' = Append(mounts, m)
  BY <1>0, MountingFrame, SlotsFill, MountsGrow
<1>2. /\ Trying /\ dev' = dev /\ Shapes /\ PortsFirst /\ dev <= Len(devices)
      /\ devices[dev].major \in DiskMajors /\ IsSeq(failed)
  BY DEF Ext2Detect, Trying, ScanInv, Position, Shapes
<1>3. Disk = images[dev]
  BY <1>2, DiskAtHand
<1>4. PICK ok \in BOOLEAN :
        /\ ReadDisk(ok)
        /\ IF ok /\ HasMagic THEN pc' = "ext2Register" /\ UNCHANGED <<part, n>>
                             ELSE NextPartition
  BY DEF Ext2Detect
<1>5. CASE ok /\ HasMagic
  <2>1. Trying' /\ pc' # "fatRegister" /\ part' = part
    BY <1>4, <1>5 DEF Trying
  <2>2. \A d, p : Tried(d, p)' => Tried(d, p)
    BY <1>2, <2>1 DEF Tried, Trying
  <2> QED
    BY <1>1, <2>1, <2>2, TriedKeeps
<1>6. CASE ~(ok /\ HasMagic)
  <2>1. PICK k, q, lba : k = dev /\ q = part + 1 /\ lba = root[dev][part + 1]
    OBVIOUS
  <2>2. ok => images[k].content[lba] # "ext2"
    BY <1>3, <1>6, <2>1 DEF HasMagic, Content, Lba
  <2>3. ~ok => ~Healthy(k)'
    BY <1>2, <1>4, <2>1, ReadFails
  <2>4. NextPartition
    BY <1>4, <1>6
  <2> QED
    BY <1>0, <1>2, <2>1, <2>2, <2>3, <2>4, NextPartitionTries
<1> QED
  BY <1>5, <1>6

\* A registration that is given up has no slot or a failed read.
LEMMA Ext2RegisterTries ==
  ASSUME ScanInv, SlotInv, TriedAreMounted, Ext2Register
  PROVE  TriedAreMounted'
<1>0. Mounting
  BY DEF Mounting
<1>1. /\ UNCHANGED <<images, devices, root>> /\ \A d : Healthy(d)' => Healthy(d)
      /\ FreeSlots(ext2', None) \subseteq FreeSlots(ext2, None)
      /\ mounts' = mounts \/ \E m : mounts' = Append(mounts, m)
  BY <1>0, MountingFrame, SlotsFill, MountsGrow
<1>2. /\ Trying /\ dev' = dev /\ Shapes /\ PortsFirst /\ dev <= Len(devices)
      /\ devices[dev].major \in DiskMajors /\ IsSeq(failed) /\ IsSeq(mounts)
      /\ part \in Nat
  BY DEF Ext2Register, Trying, ScanInv, Position, Shapes
<1>3. Disk = images[dev]
  BY <1>2, DiskAtHand
<1>4. PICK k, q, lba : k = dev /\ q = part + 1 /\ lba = root[dev][part + 1]
  OBVIOUS
<1>5. CASE FreeSlots(ext2, None) = {} /\ RegisterFails
  <2>1. MountedOrFull(k, q, lba)' /\ NextPartition
    BY <1>1, <1>5 DEF MountedOrFull, RegisterFails
  <2> QED
    BY <1>0, <1>2, <1>4, <2>1, NextPartitionTries
<1>6. ASSUME NEW ok \in BOOLEAN, ReadDisk(ok), ~ok \/ (n = 0 /\ ~GroupsAgree), RegisterFails
      PROVE  TriedAreMounted'
  <2>1. ok => images[k].content[lba] # "ext2"
    BY <1>3, <1>4, <1>6 DEF GroupsAgree, Content, Lba
  <2>2. ~ok => ~Healthy(k)'
    BY <1>2, <1>4, <1>6, ReadFails
  <2>3. NextPartition
    BY <1>6 DEF RegisterFails
  <2> QED
    BY <1>0, <1>2, <1>4, <2>1, <2>2, <2>3, NextPartitionTries
<1>7. CASE n' = n + 1 /\ UNCHANGED <<ext2, mounts, pc, part>>
  <2>1. \A d, p : Tried(d, p)' => Tried(d, p)
    BY <1>2, <1>7 DEF Tried, Trying
  <2>2. pc' # "fatRegister"
    BY <1>7 DEF Ext2Register
  <2> QED
    BY <1>1, <2>1, <2>2, TriedKeeps
<1>8. ASSUME NEW s, Registered(s)
      PROVE  TriedAreMounted'
  <2>1. AddMount("ext2", s) /\ NextPartition
    BY <1>8 DEF Registered
  <2>2. PICK m : /\ mounts' = Append(mounts, m) /\ m.device = k /\ m.lba = lba
                 /\ m.fs = "ext2" /\ m.name = Mountpoint(devices[dev], part)
    BY <1>4, <2>1, AddMountIs DEF Lba
  <2>3. Len(mounts) + 1 \in 1 .. Len(mounts') /\ mounts'[Len(mounts) + 1] = m
    <3>1. /\ Len(mounts') = Len(mounts) + 1 /\ mounts'[Len(mounts) + 1] = m
          /\ Len(mounts) \in Nat
      BY <1>2, <2>2, AppendAny DEF IsSeq
    <3> QED
      BY <3>1
  <2>4. q - 1 = part
    BY <1>2, <1>4
  <2>5. m.name = Mountpoint(devices[k], q - 1)
    BY <1>4, <2>2, <2>4
  <2>6. Mountpoint(devices[k], q - 1)' = Mountpoint(devices[k], q - 1)
    BY <1>1
  <2>7. MountedOrFull(k, q, lba)'
    BY <2>2, <2>3, <2>5, <2>6 DEF MountedOrFull
  <2> QED
    BY <1>0, <1>2, <1>4, <2>1, <2>7, NextPartitionTries
<1> QED
  BY <1>5, <1>6, <1>7, <1>8 DEF Ext2Register

\* Every step keeps the tried partitions mounted.
LEMMA NextTriedAreMounted ==
  ASSUME ScanInv, SlotInv, TriedAreMounted, [Next]_vars
  PROVE  TriedAreMounted'
<1>1. ASSUME pc' \in {"pci", "comm", "scan", "gpt", "mbr"}
      PROVE  TriedAreMounted'
  BY <1>1 DEF TriedAreMounted, Tried, Trying
<1>2. CASE RegisterPort \/ RegisterComm
  BY <1>1, <1>2 DEF RegisterPort, RegisterComm
<1>3. CASE ReadGpt \/ ReadMbr
  BY <1>1, <1>3 DEF ReadGpt, ReadMbr, GptFails, GptAdds, Scanned
<1>4. CASE ScanDevice
  <2>1. CASE pc' = "mount" /\ dev' = 1
    <3>1. part' = 0
      BY <1>4 DEF ScanInv, Position, Scanning, ScanDevice
    <3>2. \A d \in 1 .. Len(Ports) : \A p : p \in Nat \ {0} => ~Tried(d, p)'
      BY <2>1, <3>1 DEF Tried, Trying
    <3>3. images' = images
      BY <1>4 DEF ScanDevice
    <3>4. \A d \in 1 .. Len(Ports) : \A p \in 1 .. Len(Listed(images[d])') : p \in Nat \ {0}
      OBVIOUS
    <3> QED
      BY <2>1, <3>2, <3>4 DEF TriedAreMounted
  <2> QED
    BY <1>1, <1>4, <2>1 DEF ScanDevice, Scanned
<1>5. CASE FileOpen \/ UNCHANGED vars
  <2>1. /\ UNCHANGED <<images, devices, root, mounts, ext2, pc, dev, part, failed>>
    BY <1>5 DEF FileOpen, vars
  <2>2. /\ \A d : Healthy(d)' => Healthy(d)
        /\ \A d, p : Tried(d, p)' => Tried(d, p)
    BY <2>1 DEF Healthy, Tried, Trying
  <2>3. pc' = "fatRegister" =>
          (images[dev].content[root[dev][part + 1]] \in {"fat", "both"})'
    BY <2>1 DEF TriedAreMounted
  <2> QED
    BY <2>1, <2>2, <2>3, TriedKeeps
<1> QED
  BY <1>2, <1>3, <1>4, <1>5, TryPartitionTries, FatSteps, Ext2DetectTries,
     Ext2RegisterTries DEF Next

(* When probe_fs is done, every ext2 partition of every disk that read     *)
(* well is mounted under its name, unless all slots are taken, for any     *)
(* disks, tables, slots and failures (probe_fs, detect_partition_fs,       *)
(* mount_fs).                                                              *)
THEOREM HealthyDisksGetMounted == Spec => []HealthyDisksAreMounted
<1>1. Init => SlotInv /\ TriedAreMounted
  BY DEF Init, SlotInv, MountsOwnTheirSlots, TriedAreMounted, Tried, Trying
<1>2. ScanInv /\ SlotInv /\ TriedAreMounted /\ [Next]_vars => SlotInv' /\ TriedAreMounted'
  BY NextSlotInv, NextTriedAreMounted
<1>3. ScanInv /\ TriedAreMounted => HealthyDisksAreMounted
  <2> SUFFICES ASSUME ScanInv, TriedAreMounted, pc = "done",
                      NEW d \in 1 .. Len(Ports), Healthy(d),
                      NEW p \in DOMAIN Listed(images[d]),
                      images[d].content[Listed(images[d])[p]] = "ext2"
               PROVE  MountedOrFull(d, p, Listed(images[d])[p])
    <3>1. DOMAIN mounts = 1 .. Len(mounts) \/ ~ScanInv
      BY DomainOfSeq DEF ScanInv, Shapes
    <3> QED
      BY <3>1 DEF HealthyDisksAreMounted, MountedOrFull
  <2>1. images[d] \in Images
    BY DEF ScanInv, Shapes
  <2>2. Listed(images[d]) \in Seq(Nat)
    BY <2>1, ImagesAssumption
  <2>3. p \in 1 .. Len(Listed(images[d]))
    BY <2>2
  <2> QED
    BY <2>3 DEF TriedAreMounted, Tried
<1> QED
  BY <1>1, <1>2, <1>3, InitScanInv, NextScanInv, PTL DEF Spec

-----------------------------------------------------------------------------
(***************************************************************************)
(* The digits of a number.  The definition is recursive: the functions on  *)
(* 0..m that satisfy it exist and agree, so that they make up the one on   *)
(* all numbers.                                                            *)
(***************************************************************************)
DigitStep(f, i) == IF i < Base THEN <<i>> ELSE Append(f[i \div Base], i % Base)

DigitsTo(m, f) ==
  f \in [0 .. m -> Seq(Nat)] /\ \A i \in 0 .. m : f[i] = DigitStep(f, i)

\* The number without its last digit is a smaller one.
LEMMA LeadingPart ==
  ASSUME NEW i \in Nat, ~(i < Base)
  PROVE  i \div Base \in Nat /\ i \div Base < i /\ i % Base \in Nat /\ i > 0
<1>1. Base \in Nat /\ Base > 1 /\ i > 0
  BY BaseAssumption
<1> QED
  BY <1>1

\* Two of them agree where both are defined.
LEMMA DigitsAgree ==
  ASSUME NEW m \in Nat, NEW f, DigitsTo(m, f), NEW k \in Nat, NEW g, DigitsTo(k, g),
         NEW i \in Nat, i <= m, i <= k
  PROVE  f[i] = g[i]
<1> DEFINE Differ == {j \in Nat : j <= m /\ j <= k /\ f[j] # g[j]}
<1>1. SUFFICES ASSUME Differ # {} PROVE FALSE
  OBVIOUS
<1>2. PICK j \in Differ : \A l \in Differ : j <= l
  BY <1>1, LeastExists
<1>3. f[j] = DigitStep(f, j) /\ g[j] = DigitStep(g, j)
  BY <1>2 DEF DigitsTo
<1>4. CASE j < Base
  BY <1>2, <1>3, <1>4 DEF DigitStep
<1>5. CASE ~(j < Base)
  <2>1. PICK l : l = j \div Base
    OBVIOUS
  <2>2. l \in Nat /\ l < j
    BY <1>5, <2>1, LeadingPart
  <2>3. f[l] = g[l]
    BY <1>2, <2>2
  <2> QED
    BY <1>2, <1>3, <1>5, <2>1, <2>3 DEF DigitStep
<1> QED
  BY <1>4, <1>5

\* One of them reaches as far as one wants.
LEMMA DigitsExist ==
  ASSUME NEW m \in Nat
  PROVE  \E f : DigitsTo(m, f)
<1> DEFINE Missing == {k \in Nat : ~\E f : DigitsTo(k, f)}
<1>1. SUFFICES ASSUME Missing # {} PROVE FALSE
  OBVIOUS
<1>2. PICK k \in Missing : \A l \in Missing : k <= l
  BY <1>1, LeastExists
<1>3. CASE k = 0
  <2>1. PICK f : f = [i \in 0 .. 0 |-> <<0>>]
    OBVIOUS
  <2>2. f \in [0 .. 0 -> Seq(Nat)] /\ f[0] = <<0>>
    BY <2>1
  <2>3. DigitStep(f, 0) = <<0>>
    BY BaseAssumption DEF DigitStep
  <2>4. DigitsTo(0, f)
    BY <2>2, <2>3 DEF DigitsTo
  <2> QED
    BY <1>2, <1>3, <2>4
<1>4. CASE k > 0
  <2>1. PICK g : DigitsTo(k - 1, g)
    <3>1. k - 1 \in Nat /\ ~(k <= k - 1)
      BY <1>4
    <3> QED
      BY <1>2, <3>1
  <2>2. PICK v : v = DigitStep(g, k)
    OBVIOUS
  <2>3. v \in Seq(Nat)
    <3>1. CASE k < Base
      BY <2>2, <3>1 DEF DigitStep
    <3>2. CASE ~(k < Base)
      <4>1. PICK l, r : l = k \div Base /\ r = k % Base
        OBVIOUS
      <4>2. l \in Nat /\ l < k /\ r \in Nat
        BY <3>2, <4>1, LeadingPart
      <4>3. g[l] \in Seq(Nat)
        BY <2>1, <4>2 DEF DigitsTo
      <4>4. v = Append(g[l], r)
        BY <2>2, <3>2, <4>1 DEF DigitStep
      <4> QED
        BY <4>2, <4>3, <4>4
    <3> QED
      BY <3>1, <3>2
  <2>4. PICK f : f = [i \in 0 .. k |-> IF i = k THEN v ELSE g[i]]
    OBVIOUS
  <2>5. /\ f[k] = v
        /\ \A i \in 0 .. (k - 1) : f[i] = g[i] /\ g[i] \in Seq(Nat) /\ g[i] = DigitStep(g, i)
    BY <1>4, <2>1, <2>4 DEF DigitsTo
  <2>6. \A i \in 0 .. k : f[i] \in Seq(Nat)
    BY <1>4, <2>3, <2>5
  <2>7. f \in [0 .. k -> Seq(Nat)]
    BY <2>4, <2>6
  <2>8. \A i \in 0 .. k : DigitStep(f, i) = DigitStep(g, i)
    <3> TAKE i \in 0 .. k
    <3>1. CASE i < Base
      BY <3>1 DEF DigitStep
    <3>2. CASE ~(i < Base)
      <4>1. PICK l : l = i \div Base
        OBVIOUS
      <4>2. l \in 0 .. (k - 1)
        BY <3>2, <4>1, LeadingPart
      <4>3. f[l] = g[l]
        BY <2>5, <4>2
      <4> QED
        BY <3>2, <4>1, <4>3 DEF DigitStep
    <3> QED
      BY <3>1, <3>2
  <2>9. \A i \in 0 .. k : f[i] = DigitStep(f, i)
    BY <1>4, <2>2, <2>5, <2>8
  <2>10. DigitsTo(k, f)
    BY <2>7, <2>9 DEF DigitsTo
  <2> QED
    BY <1>2, <2>10
<1> QED
  BY <1>2, <1>3, <1>4

\* sprintf's digits are what their definition says.
LEMMA DigitsAre == \A i \in Nat : Digits[i] = DigitStep(Digits, i)
<1> DEFINE F(m) == CHOOSE f : DigitsTo(m, f)
           h == [i \in Nat |-> F(i)[i]]
<1>1. \A m \in Nat : DigitsTo(m, F(m))
  BY DigitsExist
<1> HIDE DEF F
<1>2. \A i \in Nat : h[i] = DigitStep(h, i)
  <2> TAKE i \in Nat
  <2>1. h[i] = F(i)[i] /\ F(i)[i] = DigitStep(F(i), i)
    <3>1. PICK f : f = F(i) /\ DigitsTo(i, f)
      BY <1>1
    <3>2. i \in 0 .. i
      OBVIOUS
    <3>3. f[i] = DigitStep(f, i)
      BY <3>1, <3>2 DEF DigitsTo
    <3> QED
      BY <3>1, <3>3
  <2>2. CASE i < Base
    BY <2>1, <2>2 DEF DigitStep
  <2>3. CASE ~(i < Base)
    <3>1. PICK l : l = i \div Base
      OBVIOUS
    <3>2. l \in Nat /\ l <= i
      BY <2>3, <3>1, LeadingPart
    <3>3. F(i)[l] = F(l)[l]
      BY <1>1, <3>2, DigitsAgree
    <3>4. h[l] = F(i)[l]
      BY <3>2, <3>3
    <3> QED
      BY <2>1, <2>3, <3>1, <3>4 DEF DigitStep
  <2> QED
    BY <2>2, <2>3
<1>3. h = [i \in Nat |-> DigitStep(h, i)]
  BY <1>2
<1>4. \E d : d = [i \in Nat |-> DigitStep(d, i)]
  BY <1>3
<1>5. Digits = CHOOSE d : d = [i \in Nat |-> DigitStep(d, i)]
  BY DEF Digits, DigitStep
<1>6. Digits = [i \in Nat |-> DigitStep(Digits, i)]
  BY <1>4, <1>5
<1> QED
  BY <1>6

\* They are at least one, one exactly when the number is a digit.
LEMMA DigitsShape ==
  \A i \in Nat : /\ Digits[i] \in Seq(Nat) /\ Len(Digits[i]) >= 1
                 /\ i < Base => Digits[i] = <<i>>
                 /\ ~(i < Base) => Len(Digits[i]) >= 2
<1> DEFINE Shaped(i) == Digits[i] \in Seq(Nat) /\ Len(Digits[i]) >= 1
           Bad == {i \in Nat : ~Shaped(i)}
<1>1. ASSUME NEW i \in Nat, i < Base
      PROVE  Digits[i] = <<i>> /\ Shaped(i)
  <2>1. Digits[i] = <<i>>
    BY <1>1, DigitsAre DEF DigitStep
  <2>2. <<i>> \in Seq(Nat) /\ Len(<<i>>) = 1
    OBVIOUS
  <2> QED
    BY <2>1, <2>2
<1>2. ASSUME NEW i \in Nat, ~(i < Base), Shaped(i \div Base)
      PROVE  Shaped(i) /\ Len(Digits[i]) >= 2
  <2>1. PICK s, r : s = Digits[i \div Base] /\ r = i % Base
    OBVIOUS
  <2>2. s \in Seq(Nat) /\ Len(s) >= 1 /\ r \in Nat
    BY <1>2, <2>1, LeadingPart
  <2>3. Digits[i] = Append(s, r)
    BY <1>2, <2>1, DigitsAre DEF DigitStep
  <2>4. Append(s, r) \in Seq(Nat) /\ Len(Append(s, r)) = Len(s) + 1 /\ Len(s) \in Nat
    BY <2>2, AppendProperties
  <2> QED
    BY <2>2, <2>3, <2>4
<1> HIDE DEF Shaped
<1>3. Bad = {}
  <2>1. SUFFICES ASSUME Bad # {} PROVE FALSE
    OBVIOUS
  <2>2. PICK i \in Bad : \A j \in Bad : i <= j
    BY <2>1, LeastExists
  <2>3. CASE i < Base
    BY <1>1, <2>2, <2>3
  <2>4. CASE ~(i < Base)
    <3>1. i \div Base \in Nat /\ i \div Base < i
      BY <2>2, <2>4, LeadingPart
    <3>2. Shaped(i \div Base)
      BY <2>2, <3>1
    <3> QED
      BY <1>2, <2>2, <2>4, <3>2
  <2> QED
    BY <2>3, <2>4
<1>4. \A i \in Nat : Shaped(i)
  BY <1>3
<1>5. \A i \in Nat : ~(i < Base) => Len(Digits[i]) >= 2
  BY <1>2, <1>4, LeadingPart
<1> QED
  BY <1>1, <1>4, <1>5 DEF Shaped

-----------------------------------------------------------------------------
\* The characters of a mountpoint.
LEMMA MountpointChars ==
  ASSUME NEW d, NEW q \in Nat
  PROVE  /\ Mountpoint(d, q) \in Seq({d.major, d.minor} \cup Int)
         /\ Len(Mountpoint(d, q)) = Len(Digits[q]) + 3
         /\ Mountpoint(d, q)[1] = d.major /\ Mountpoint(d, q)[2] = d.minor
         /\ \A i \in 1 .. Len(Digits[q]) : Mountpoint(d, q)[i + 3] = Digits[q][i]
<1> DEFINE S == {d.major, d.minor} \cup Int
<1>1. PICK a, b, c : a = DeviceName(d) /\ b = <<P>> /\ c = Digits[q]
  OBVIOUS
<1>2. /\ a \in Seq(S) /\ Len(a) = 2 /\ a[1] = d.major /\ a[2] = d.minor
      /\ b \in Seq(S) /\ Len(b) = 1
  BY <1>1 DEF DeviceName, P
<1>3. c \in Seq(S) /\ Len(c) \in Nat
  <2>1. c \in Seq(Nat)
    BY <1>1, DigitsShape
  <2> QED
    BY <2>1
<1> HIDE DEF S
<1>4. /\ a \o b \in Seq(S) /\ Len(a \o b) = 3
      /\ (a \o b)[1] = d.major /\ (a \o b)[2] = d.minor
  <2>1. /\ a \o b \in Seq(S) /\ Len(a \o b) = Len(a) + Len(b)
        /\ \A i \in 1 .. Len(a) + Len(b) :
             (a \o b)[i] = IF i <= Len(a) THEN a[i] ELSE b[i - Len(a)]
    BY <1>2, ConcatProperties
  <2> QED
    BY <1>2, <2>1
<1>5. PICK ab : ab = a \o b
  OBVIOUS
<1>6. /\ ab \o c \in Seq(S) /\ Len(ab \o c) = 3 + Len(c)
      /\ \A i \in 1 .. 3 + Len(c) : (ab \o c)[i] = IF i <= 3 THEN ab[i] ELSE c[i - 3]
  BY <1>3, <1>4, <1>5, ConcatProperties
<1>7. Mountpoint(d, q) = ab \o c
  BY <1>1, <1>5 DEF Mountpoint
<1>8. \A i \in 1 .. Len(c) : (ab \o c)[i + 3] = c[i]
  BY <1>3, <1>6
<1>9. (ab \o c)[1] = d.major /\ (ab \o c)[2] = d.minor
  BY <1>3, <1>4, <1>5, <1>6
<1> QED
  BY <1>1, <1>3, <1>6, <1>7, <1>8, <1>9 DEF S

\* A name that begins a path has its characters.
LEMMA PrefixChars ==
  ASSUME NEW S, NEW s \in Seq(S), NEW t \in Seq(S), IsPrefix(s, t)
  PROVE  Len(s) <= Len(t) /\ \A i \in 1 .. Len(s) : s[i] = t[i]
<1>1. Len(s) \in Nat /\ Len(t) \in Nat /\ Len(s) <= Len(t)
  BY DEF IsPrefix
<1>2. SubSeq(s, 1, Len(s)) = SubSeq(t, 1, Len(s))
  BY DEF IsPrefix
<1>3. \A i \in 1 .. Len(s) : s[i] \in S /\ t[i] \in S
  BY <1>1, ElementOfSeq
<1>4. \A i \in 1 .. Len(s) : SubSeq(s, 1, Len(s))[i] = s[i] /\ SubSeq(t, 1, Len(s))[i] = t[i]
  BY <1>1, <1>3, SubSeqProperties
<1> QED
  BY <1>1, <1>2, <1>4

\* A mountpoint that begins the path of one of the first Base partitions of a
\* device is that partition's.
LEMMA PrefixIsName ==
  ASSUME NEW d, NEW e, NEW p \in Nat, p < Base, NEW q \in Nat,
         IsPrefix(Mountpoint(e, q), Mountpoint(d, p) \o <<Slash>>)
  PROVE  e.major = d.major /\ e.minor = d.minor /\ q = p
<1> DEFINE S == {d.major, d.minor, e.major, e.minor} \cup Int
<1>1. PICK s, x, c : s = Mountpoint(e, q) /\ x = Mountpoint(d, p) /\ c = Digits[q]
  OBVIOUS
<1>2. Digits[p] = <<p>> /\ c \in Seq(Nat) /\ Len(c) >= 1 /\ Len(c) \in Nat
  BY <1>1, DigitsShape
<1>3. /\ x \in Seq(S) /\ Len(x) = 4 /\ x[1] = d.major /\ x[2] = d.minor /\ x[4] = p
  <2>1. /\ x \in Seq({d.major, d.minor} \cup Int) /\ Len(x) = Len(Digits[p]) + 3
        /\ x[1] = d.major /\ x[2] = d.minor
        /\ \A i \in 1 .. Len(Digits[p]) : x[i + 3] = Digits[p][i]
    BY <1>1, MountpointChars
  <2>2. Len(<<p>>) = 1 /\ <<p>>[1] = p
    OBVIOUS
  <2> QED
    BY <1>2, <2>1, <2>2
<1>4. /\ s \in Seq(S) /\ Len(s) = Len(c) + 3 /\ s[1] = e.major /\ s[2] = e.minor
      /\ \A i \in 1 .. Len(c) : s[i + 3] = c[i]
  <2>1. /\ s \in Seq({e.major, e.minor} \cup Int) /\ Len(s) = Len(c) + 3
        /\ s[1] = e.major /\ s[2] = e.minor
        /\ \A i \in 1 .. Len(c) : s[i + 3] = c[i]
    BY <1>1, MountpointChars
  <2>2. s \in Seq(S)
    BY <2>1
  <2> QED
    BY <2>1, <2>2
<1>5. Slash \in S /\ <<Slash>> \in Seq(S) /\ Len(<<Slash>>) = 1 /\ <<Slash>>[1] = Slash
  BY DEF Slash
<1> HIDE DEF S
<1>6. PICK t, z : t = x \o z /\ z = <<Slash>>
  OBVIOUS
<1>7. /\ t \in Seq(S) /\ Len(t) = 5 /\ t[5] = Slash
      /\ \A i \in 1 .. 4 : t[i] = x[i]
  <2>1. z \in Seq(S) /\ Len(z) = 1 /\ z[1] = Slash
    BY <1>5, <1>6
  <2>2. /\ t \in Seq(S) /\ Len(t) = Len(x) + Len(z)
        /\ \A i \in 1 .. Len(x) + Len(z) :
             t[i] = IF i <= Len(x) THEN x[i] ELSE z[i - Len(x)]
    BY <1>3, <1>6, <2>1, ConcatProperties
  <2> QED
    BY <1>3, <2>1, <2>2
<1>8. IsPrefix(s, t)
  BY <1>1, <1>6
<1>9. Len(s) <= 5 /\ \A i \in 1 .. Len(s) : s[i] = t[i]
  <2>1. Len(s) <= Len(t) /\ \A i \in 1 .. Len(s) : s[i] = t[i]
    <3>1. s \in Seq(S) /\ t \in Seq(S)
      BY <1>4, <1>7
    <3> QED
      BY <1>8, <3>1, PrefixChars
  <2> QED
    BY <1>7, <2>1
<1>10. e.major = d.major /\ e.minor = d.minor /\ c[1] = p
  BY <1>2, <1>3, <1>4, <1>7, <1>9
<1>11. Len(c) = 1
  <2>1. \A l \in Nat : l >= 1 /\ l + 3 <= 5 => l = 1 \/ l = 2
    OBVIOUS
  <2>2. Len(c) = 1 \/ Len(c) = 2
    <3>1. Len(c) + 3 <= 5
      BY <1>4, <1>9
    <3> QED
      BY <1>2, <2>1, <3>1
  <2>3. ASSUME Len(c) = 2 PROVE FALSE
    <3>1. 2 \in 1 .. Len(c) /\ 5 \in 1 .. Len(s) /\ 2 + 3 = 5
      BY <1>4, <2>3
    <3>2. c[2] = Slash
      BY <1>4, <1>7, <1>9, <3>1
    <3>3. c[2] \in Nat
      BY <1>2, <3>1, ElementOfSeq
    <3> QED
      BY <3>2, <3>3 DEF Slash
  <2> QED
    BY <2>2, <2>3
<1>12. q < Base
  <2>1. ~(q < Base) => Len(c) >= 2
    BY <1>1, DigitsShape
  <2> QED
    BY <1>11, <2>1
<1>13. c = <<q>>
  BY <1>1, <1>12, DigitsShape
<1> QED
  BY <1>10, <1>13

\* A mount has the name and the sector of one partition of its device.
MountOf(m, q) ==
  /\ m.device \in 1 .. Len(root)
  /\ q < Len(root[m.device])
  /\ m.lba = root[m.device][q + 1]
  /\ m.name = Mountpoint(devices[m.device], q)

NamesInv ==
  /\ pc \in {"pci", "comm"} \/ Scanning => mounts = <<>>
  /\ \A i \in 1 .. Len(mounts) : \E q \in Nat : MountOf(mounts[i], q)
  /\ pc # "done" => call = NoCall

\* Devices and partitions are all there before the first mount.
LEMMA MountingNames ==
  ASSUME ScanInv, NamesInv, Mounting
  PROVE  NamesInv'
<1>1. /\ UNCHANGED <<images, devices, root>> /\ IsSeq(mounts) /\ Len(mounts) \in Nat
  BY MountingFrame DEF ScanInv, Shapes, IsSeq
<1>2. (pc' \in {"mount", "done"} \/ Trying') /\ call' = call /\ pc # "done"
  BY DEF Mounting, TryPartition, FatDetect, FatRegister, Ext2Detect, Ext2Register,
         NextPartition, RegisterFails, Registered, Trying
<1>3. ASSUME NEW x, NEW q, MountOf(x, q)
      PROVE  MountOf(x, q)'
  BY <1>1, <1>3 DEF MountOf
<1>4. \A i \in 1 .. Len(mounts') : \E q \in Nat : MountOf(mounts[i], q)'
  <2>1. CASE mounts' = mounts
    <3> TAKE i \in 1 .. Len(mounts')
    <3>1. PICK x : x = mounts[i]
      OBVIOUS
    <3>2. PICK q \in Nat : MountOf(x, q)
      BY <2>1, <3>1 DEF NamesInv
    <3>3. MountOf(x, q)'
      BY <1>3, <3>2
    <3> QED
      BY <2>1, <3>1, <3>3
  <2>2. ASSUME NEW fs, NEW s, AddMount(fs, s), FatRegister \/ Ext2Register
        PROVE  \A i \in 1 .. Len(mounts') : \E q \in Nat : MountOf(mounts[i], q)'
    <3>1. PICK m : /\ mounts' = Append(mounts, m) /\ m.device = dev /\ m.lba = Lba
                   /\ m.name = Mountpoint(devices[dev], part)
      BY <2>2, AddMountIs
    <3>2. /\ dev \in 1 .. Len(root) /\ part < Len(root[dev]) /\ part \in Nat
      <4>1. Trying
        BY <2>2 DEF FatRegister, Ext2Register, Trying
      <4> QED
        BY <4>1 DEF ScanInv, Shapes, Position, IsSeq
    <3>3. PICK q : q = part
      OBVIOUS
    <3>4. MountOf(m, q)
      BY <3>1, <3>2, <3>3 DEF MountOf, Lba
    <3>5. MountOf(m, q)' /\ q \in Nat
      BY <1>3, <3>2, <3>3, <3>4
    <3>6. /\ Len(mounts') = Len(mounts) + 1
          /\ \A i \in 1 .. Len(mounts) : mounts'[i] = mounts[i]
          /\ mounts'[Len(mounts) + 1] = m
      BY <1>1, <3>1, AppendAny
    <3> TAKE i \in 1 .. Len(mounts')
    <3>7. CASE i \in 1 .. Len(mounts)
      <4>1. PICK x : x = mounts[i]
        OBVIOUS
      <4>2. PICK r \in Nat : MountOf(x, r)
        BY <3>7, <4>1 DEF NamesInv
      <4>3. MountOf(x, r)'
        BY <1>3, <4>2
      <4> QED
        BY <3>6, <3>7, <4>1, <4>3
    <3>8. CASE i = Len(mounts) + 1
      BY <3>5, <3>6, <3>8
    <3> QED
      BY <1>1, <3>6, <3>7, <3>8
  <2> QED
    BY <2>1, <2>2 DEF Mounting, TryPartition, FatDetect, FatRegister, Ext2Detect,
       Ext2Register, RegisterFails, Registered
<1> QED
  BY <1>2, <1>4 DEF NamesInv, Scanning, Trying

\* get_mount_from_path: the mount found, if any, has a name that begins the path.
LEMMA FoundBegins ==
  ASSUME IsSeq(mounts), NEW path, NEW i, i = MountFromPath(path), i # 0
  PROVE  i \in 1 .. Len(mounts) /\ IsPrefix(mounts[i].name, path)
<1> DEFINE I == {j \in 1 .. Len(mounts) : IsPrefix(mounts[j].name, path)}
<1>1. i = IF I # {} THEN Min(I) ELSE 0
  BY DEF MountFromPath, SelectInSeq
<1>2. I # {} /\ i = Min(I)
  BY <1>1
<1>3. I \subseteq Nat
  BY DEF IsSeq
<1> HIDE DEF I
<1>4. \E j \in I : \A k \in I : j <= k
  BY <1>2, <1>3, LeastExists
<1>5. i \in I
  BY <1>2, <1>4 DEF Min
<1> QED
  BY <1>5 DEF I

\* What a path that names one of the first Base partitions reaches.
LEMMA ReachesItsPartition ==
  ASSUME ScanInv, SlotInv, NamesInv, pc = "done",
         NEW d \in DOMAIN root, NEW p \in 0 .. Len(root[d]), p < Base, NEW r,
         r = Reached(Mountpoint(devices[d], p) \o <<Slash>>), r # None
  PROVE  r.device = d /\ p < Len(root[d]) /\ r.lba = root[d][p + 1]
<1>1. /\ IsSeq(mounts) /\ IsSeq(root) /\ DevicesNamed(devices) /\ Len(root) = Len(devices)
      /\ p \in Nat
  BY DEF ScanInv, Shapes, Position
<1>2. d \in 1 .. Len(devices)
  BY <1>1, DomainOfSeq
<1>3. PICK path, i : path = Mountpoint(devices[d], p) \o <<Slash>> /\ i = MountFromPath(path)
  OBVIOUS
<1>4. i # 0 /\ mounts[i].fs = "ext2" /\ r = ext2[mounts[i].index]
  BY <1>3 DEF Reached
<1>5. i \in 1 .. Len(mounts) /\ IsPrefix(mounts[i].name, path)
  BY <1>1, <1>3, <1>4, FoundBegins
<1>6. PICK m : m = mounts[i]
  OBVIOUS
<1>7. r = [device |-> m.device, lba |-> m.lba]
  BY <1>1, <1>4, <1>5, <1>6, SlotsOfAll DEF SlotInv
<1>8. PICK q \in Nat : MountOf(m, q)
  BY <1>5, <1>6 DEF NamesInv
<1>9. /\ devices[m.device].major = devices[d].major
      /\ devices[m.device].minor = devices[d].minor /\ q = p
  <2>1. PICK e, g : e = devices[m.device] /\ g = devices[d]
    OBVIOUS
  <2>2. IsPrefix(Mountpoint(e, q), Mountpoint(g, p) \o <<Slash>>)
    BY <1>3, <1>5, <1>6, <1>8, <2>1 DEF MountOf
  <2>3. e.major = g.major /\ e.minor = g.minor /\ q = p
    BY <1>1, <2>2, PrefixIsName
  <2> QED
    BY <2>1, <2>3
<1>10. m.device = d
  <2>1. m.device \in 1 .. Len(devices)
    BY <1>1, <1>8 DEF MountOf
  <2> QED
    BY <1>1, <1>2, <1>9, <2>1 DEF DevicesNamed
<1> QED
  BY <1>7, <1>8, <1>9, <1>10 DEF MountOf

\* The steps before the first mount, and those after the last.
LEMMA NextNamesInv ==
  ASSUME ScanInv, NamesInv, [Next]_vars
  PROVE  NamesInv'
<1>1. ASSUME mounts = <<>>, mounts' = mounts, call' = call, pc # "done"
      PROVE  NamesInv'
  BY <1>1 DEF NamesInv
<1>2. CASE RegisterPort \/ RegisterComm \/ ScanDevice \/ ReadGpt \/ ReadMbr
  BY <1>1, <1>2 DEF RegisterPort, RegisterComm, ScanDevice, ReadGpt, ReadMbr, NamesInv,
                    Scanning
<1>3. CASE FileOpen \/ UNCHANGED vars
  <2>1. UNCHANGED <<root, devices, mounts, pc>> /\ (pc # "done" => call' = call)
    BY <1>3 DEF FileOpen, vars
  <2>2. \A i \in 1 .. Len(mounts) : \A q \in Nat : MountOf(mounts[i], q) => MountOf(mounts[i], q)'
    BY <2>1 DEF MountOf
  <2> QED
    BY <2>1, <2>2 DEF NamesInv, Scanning
<1> QED
  BY <1>2, <1>3, MountingNames DEF Next, Mounting

\* A call reaches its partition, and no other step changes the call.
LEMMA NextCall ==
  ASSUME ScanInv, SlotInv, NamesInv, CallsReachTheirPartition, [Next]_vars
  PROVE  CallsReachTheirPartition'
<1>1. CASE FileOpen
  <2>1. PICK d \in DOMAIN root : \E p \in 0 .. Len(root[d]) :
          call' = [device |-> d, part |-> p,
                   reached |-> Reached(Mountpoint(devices[d], p) \o <<Slash>>)]
    BY <1>1 DEF FileOpen
  <2>2. PICK p \in 0 .. Len(root[d]) :
          call' = [device |-> d, part |-> p,
                   reached |-> Reached(Mountpoint(devices[d], p) \o <<Slash>>)]
    BY <2>1
  <2>3. PICK r : r = Reached(Mountpoint(devices[d], p) \o <<Slash>>)
    OBVIOUS
  <2>4. call'.device = d /\ call'.part = p /\ call'.reached = r /\ root' = root /\ pc = "done"
    BY <1>1, <2>2, <2>3 DEF FileOpen
  <2>5. p < Base /\ r # None => r.device = d /\ p < Len(root[d]) /\ r.lba = root[d][p + 1]
    BY <2>3, <2>4, ReachesItsPartition
  <2> QED
    BY <2>4, <2>5 DEF CallsReachTheirPartition
<1>2. CASE UNCHANGED vars
  BY <1>2 DEF CallsReachTheirPartition, vars
<1>3. CASE ~FileOpen /\ Next
  <2>1. call' = call /\ pc # "done"
    BY <1>3 DEF Next, RegisterPort, RegisterComm, ScanDevice, ReadGpt, ReadMbr,
       TryPartition, FatDetect, FatRegister, Ext2Detect, Ext2Register
  <2>2. call' = NoCall
    BY <2>1 DEF NamesInv
  <2> QED
    BY <2>2 DEF CallsReachTheirPartition, NoCall
<1> QED
  BY <1>1, <1>2, <1>3

(* A path that names one of the first Base partitions of a device reaches  *)
(* that partition or nothing, for any disks, tables and failures, and      *)
(* whatever the base the numbers are written in (get_mount_from_path).     *)
THEOREM PathsReachTheirPartition == Spec => []CallsReachTheirPartition
<1>1. Init => SlotInv /\ NamesInv /\ CallsReachTheirPartition
  BY DEF Init, SlotInv, MountsOwnTheirSlots, NamesInv, CallsReachTheirPartition, NoCall
<1>2. ScanInv /\ SlotInv /\ NamesInv /\ CallsReachTheirPartition /\ [Next]_vars
        => SlotInv' /\ NamesInv' /\ CallsReachTheirPartition'
  BY NextSlotInv, NextNamesInv, NextCall
<1> QED
  BY <1>1, <1>2, InitScanInv, NextScanInv, PTL DEF Spec

-----------------------------------------------------------------------------
(***************************************************************************)
(* The metadata of an ext2 partition stays sound, for any number of blocks *)
(* and inodes, any paths and sizes, and any failures and reboots.          *)
(***************************************************************************)
\* What the variables hold.
Name == {<<".">>, Image.name} \cup UNION {ToSet(path) : path \in Path}

Entry == [name : Name, ino : Ino, len : Nat \ {0}]

Pointers ==
  [direct : Seq(Block), single : {<<>>, Image.pointers.single},
   double : {<<>>, Image.pointers.double}, triple : {<<>>, Image.pointers.triple}]

Locals ==
  [path : Path \cup {<<Image.name>>, <<>>}, kind : {"none", "file", "dir", "write"},
   ino : Ino \cup {0}, parent : Ino \cup {0}, need : Int, size : Nat,
   list : Seq(Block)]

DiskTypes ==
  /\ bitmap \subseteq Block
  /\ imap \in [Group -> SUBSET Ino]
  /\ inode \in [Ino -> [kind : {"none", "file", "dir"}, size : Nat, pointers : Pointers]]
  /\ content \in [Block -> Seq(Entry)]

Faults == {"none", "write", "read", "inode", "step", "reboot"}

MemoryTypes ==
  /\ free \in [Group -> Nat] /\ ifree \in [Group -> Nat]
  /\ op \in Locals
  /\ calls \in 0..MaxCalls
  /\ unmarked \subseteq Block /\ loose \subseteq Ino /\ cut \subseteq Ino
  /\ fault \in Faults
  /\ stage \in {"idle", "ialloc", "iinit", "balloc", "iwrite", "dots", "link",
                "data", "bfree", "izero", "iclear", "unlink", "astray"}

\* The records of a directory lie one behind the other in its block.
Laid(lens, m) ==
  \E at \in [1..(m + 1) -> 0..DirSlots] : \A k \in 1..m : at[k + 1] = at[k] + lens[k]

Fits(s) == Laid([k \in 1..Len(s) |-> s[k].len], Len(s))

RecordsFit == \A b \in Block : Fits(content[b])

\* The inodes that have blocks.
Owners == InUse \cup cut

BlocksOf(i) == PointerBlocks(inode[i].pointers)

\* Where a call is and what it works on.
Making == op.kind \in {"file", "dir"}

CallFits ==
  /\ stage \in {"ialloc", "iinit", "dots", "link"} => Making
  /\ stage \in {"balloc", "iwrite"} => op.kind \in {"dir", "write"}
  /\ stage = "data" => op.kind = "write"
  /\ stage = "idle" \/ Deleting => op.kind = "none"
  /\ stage \notin {"idle", "ialloc"} => op.ino \in Ino
  /\ Making => op.parent \in Ino /\ op.path \in Path

OwnerFits ==
  /\ stage \in {"ialloc", "iinit"} => op.list = <<>>
  /\ stage \in {"balloc", "iwrite"} => op.ino \in Owners
  /\ stage \in {"dots", "link"} => op.ino \in Owners
  /\ stage = "bfree" =>
       op.ino \in Owners /\ op.list # <<>> /\ ToSet(op.list) \subseteq BlocksOf(op.ino)
  /\ stage \in {"iclear", "unlink"} => op.ino \notin InUse \ cut
  /\ \A i \in Ino \ Owners : inode[i].size = 0

\* The blocks that a call has allocated are those of no other inode.
TakenBlocks ==
  stage \in {"balloc", "iwrite"} =>
    /\ ToSet(op.list) \subseteq bitmap \cup unmarked
    /\ \A j \in Owners \ {op.ino} : ToSet(op.list) \cap BlocksOf(j) \subseteq unmarked

\* The bit of an inode with a name is set.
NamesAreMarked ==
  \A e \in DirectoryEntries : InoOf(e) \in imap[0] \cup loose \cup cut \cup Kept

\* An inode that is being made has no name yet.
NewIsUnnamed ==
  Making /\ stage \in {"iinit", "balloc", "iwrite", "dots", "link"} =>
    \/ op.ino \in loose \cup cut
    \/ op.ino \in imap[0] /\ \A e \in DirectoryEntries : InoOf(e) # op.ino

BlocksInv == UsedBlocksAreMarked /\ BlocksHaveOneOwner /\ TakenBlocks

NamingInv ==
  /\ InodesHaveOneName /\ NamesLeadToInodes
  /\ NamesAreMarked /\ NewIsUnnamed

-----------------------------------------------------------------------------
\* Numbers: the root and the image file have inodes, a block has a group, and
\* the first sector of a bitmap is the blocks of the group that come first.
LEMMA Quotient ==
  ASSUME NEW x \in Nat, NEW d \in Nat \ {0}
  PROVE  /\ x \div d \in Nat /\ x % d \in 0..(d - 1)
         /\ x = d * (x \div d) + (x % d)
  OBVIOUS

LEMMA InGroups ==
  ASSUME NEW d \in Nat \ {0}, NEW x \in 1..(Groups * d)
  PROVE  (x - 1) \div d \in Group
<1>1. PICK q : q = (x - 1) \div d
  OBVIOUS
<1>2. PICK r : r = (x - 1) % d
  OBVIOUS
<1>3. x - 1 \in Nat /\ x <= Groups * d
  BY Ext2Assumption
<1>4. q \in Nat /\ r \in 0..(d - 1) /\ x - 1 = d * q + r
  BY <1>1, <1>2, <1>3, Quotient
<1>5. q < Groups
  <2>1. CASE Groups = 1
    BY <1>3, <1>4, <2>1
  <2>2. CASE Groups = 2
    BY <1>3, <1>4, <2>2
  <2> QED
    BY <2>1, <2>2, Ext2Assumption
<1> QED
  BY <1>1, <1>4, <1>5, Ext2Assumption DEF Group

LEMMA Numbers ==
  /\ Block \subseteq Nat \ {0} /\ IsFiniteSet(Block) /\ 1 \in Block
  /\ Ino \subseteq Nat \ {0} /\ {1, Root, 3, 4} \subseteq Ino
  /\ 0 \in Group /\ Group \subseteq Nat /\ Group \subseteq {0, 1}
  /\ \A b \in Block : GroupOfBlock(b) \in Group
  /\ \A i \in Ino : (i - 1) \div GroupInodes \in Group
<1>1. PICK m : m = Groups * GroupBlocks
  OBVIOUS
<1>2. m \in Nat /\ m >= 1
  BY <1>1, Ext2Assumption
<1>3. PICK k : k = Groups * GroupInodes
  OBVIOUS
<1>4. k \in Nat /\ k > 4
  BY <1>3, Ext2Assumption
<1>5. Block \subseteq Nat \ {0} /\ IsFiniteSet(Block) /\ 1 \in Block
  <2>1. Block = 1..m
    BY <1>1 DEF Block
  <2> QED
    BY <1>2, <2>1, FS_Interval
<1>6. Ino \subseteq Nat \ {0} /\ {1, Root, 3, 4} \subseteq Ino
  <2>1. Ino = 1..k
    BY <1>3 DEF Ino
  <2> QED
    BY <1>4, <2>1 DEF Root
<1>7. 0 \in Group /\ Group \subseteq Nat /\ Group \subseteq {0, 1}
  BY Ext2Assumption DEF Group
<1>8. \A b \in Block : GroupOfBlock(b) \in Group
  BY InGroups, Ext2Assumption DEF Block, GroupOfBlock
<1>9. \A i \in Ino : (i - 1) \div GroupInodes \in Group
  <2>1. GroupInodes \in Nat \ {0}
    BY Ext2Assumption
  <2> QED
    BY <2>1, InGroups DEF Ino
<1> QED
  BY <1>5, <1>6, <1>7, <1>8, <1>9

LEMMA FirstSectorIsFirst ==
  ASSUME NEW b \in Block, NEW c \in Block, GroupOfBlock(b) = GroupOfBlock(c),
         ~InFirstSector(b), InFirstSector(c)
  PROVE  c < b
<1>1. PICK q : q = (b - 1) \div GroupBlocks
  OBVIOUS
<1>2. PICK r : r = (b - 1) % GroupBlocks
  OBVIOUS
<1>3. PICK s : s = (c - 1) % GroupBlocks
  OBVIOUS
<1>4. b - 1 \in Nat /\ c - 1 \in Nat /\ GroupBlocks \in Nat \ {0}
  BY Numbers, Ext2Assumption
<1>5. q \in Nat /\ r \in Nat /\ b - 1 = GroupBlocks * q + r
  <2>1. PICK y \in Nat : y = b - 1
    BY <1>4
  <2>2. q \in Nat /\ r \in 0..(GroupBlocks - 1) /\ y = GroupBlocks * q + r
    BY <1>1, <1>2, <1>4, <2>1, Quotient
  <2> QED
    BY <1>4, <2>1, <2>2
<1>6. s \in Nat /\ c - 1 = GroupBlocks * q + s
  <2>1. PICK y \in Nat : y = c - 1
    BY <1>4
  <2>2. q = y \div GroupBlocks
    BY <1>1, <2>1 DEF GroupOfBlock
  <2>3. s \in 0..(GroupBlocks - 1) /\ y = GroupBlocks * q + s
    BY <1>3, <1>4, <2>1, <2>2, Quotient
  <2> QED
    BY <1>4, <2>1, <2>3
<1>7. s < r
  BY <1>2, <1>3, <1>5, <1>6, Ext2Assumption DEF InFirstSector
<1>8. PICK t : t = GroupBlocks * q
  OBVIOUS
<1>9. t \in Nat
  BY <1>4, <1>5, <1>8
<1> QED
  BY <1>5, <1>6, <1>7, <1>8, <1>9, Numbers

LEMMA MinIsLeast ==
  ASSUME NEW S, S \subseteq Nat, S # {}
  PROVE  Min(S) \in S /\ \A k \in S : Min(S) <= k
  BY LeastExists DEF Min

-----------------------------------------------------------------------------
\* What the recursive walks return: FlattenSeq a sequence of what is in the
\* sequences, ext2_path_to_inode an inode or 0.
Unrolls(f, m, step, T) ==
  f \in [0..m -> T] /\ \A i \in 1..m : f[i] = step[i][f[i - 1]]

LEMMA RecursionExists ==
  ASSUME NEW T, NEW x \in T, NEW m \in Nat, NEW step \in [1..m -> [T -> T]]
  PROVE  \E f : Unrolls(f, m, step, T)
<1> DEFINE To(f, k) == /\ f \in [0..m -> T]
                       /\ \A i \in 1..m : i <= k => f[i] = step[i][f[i - 1]]
           Missing == {k \in Nat : ~\E f : To(f, k)}
<1>1. SUFFICES ASSUME Missing # {} PROVE FALSE
  <2>1. ASSUME Missing = {} PROVE \E f : To(f, m)
    BY <2>1
  <2> QED
    BY <2>1 DEF Unrolls
<1>2. PICK k \in Missing : \A l \in Missing : k <= l
  BY <1>1, LeastExists
<1>3. CASE k = 0
  <2>1. PICK f : f = [i \in 0..m |-> x]
    OBVIOUS
  <2>2. To(f, 0)
    BY <2>1
  <2> QED
    BY <1>2, <1>3, <2>2
<1>4. CASE k > 0
  <2>1. PICK g : To(g, k - 1)
    <3>1. k - 1 \in Nat /\ ~(k <= k - 1)
      BY <1>4
    <3> QED
      BY <1>2, <3>1
  <2>2. CASE k > m
    <3>1. To(g, k)
      BY <2>1, <2>2
    <3> QED
      BY <1>2, <3>1
  <2>3. CASE k <= m
    <3>1. PICK v : v = step[k][g[k - 1]]
      OBVIOUS
    <3>2. v \in T
      <4>1. k \in 1..m /\ g[k - 1] \in T
        BY <1>4, <2>1, <2>3
      <4> QED
        BY <3>1, <4>1
    <3>3. PICK f : f = [g EXCEPT ![k] = v]
      OBVIOUS
    <3>4. /\ f \in [0..m -> T] /\ f[k] = v
          /\ \A i \in 0..m : i # k => f[i] = g[i]
      BY <1>4, <2>1, <2>3, <3>2, <3>3
    <3>5. \A i \in 1..m : i <= k => f[i] = step[i][f[i - 1]]
      <4> TAKE i \in 1..m
      <4>1. f[i - 1] = g[i - 1] \/ ~(i <= k)
        BY <3>4
      <4>2. CASE i = k
        BY <3>1, <3>4, <4>1, <4>2
      <4>3. CASE i < k
        BY <2>1, <3>4, <4>1, <4>3
      <4> QED
        BY <1>4, <4>2, <4>3
    <3>6. To(f, k)
      BY <1>4, <2>1, <3>4, <3>5
    <3> QED
      BY <1>2, <3>6
  <2> QED
    BY <2>2, <2>3
<1> QED
  BY <1>2, <1>3, <1>4

LEMMA FlattenType ==
  ASSUME NEW S, NEW s \in Seq(Seq(S))
  PROVE  FlattenSeq(s) \in Seq(S)
<1>1. PICK T : T = Seq(S)
  OBVIOUS
<1>2. PICK m : m = Len(s)
  OBVIOUS
<1>3. m \in Nat /\ <<>> \in T /\ \A i \in 1..m : s[i] \in T
  BY <1>1, <1>2
<1>4. \A v, w \in T : v \o w \in T
  BY <1>1
<1> DEFINE Flat(f) == f = [i \in 1..m |-> IF i = 1 THEN s[i] ELSE f[i - 1] \o s[i]]
<1>5. CASE m = 0
  <2>1. s \in Seq(S)
    <3>1. s \in Seq(T) /\ Len(s) = 0
      BY <1>1, <1>2, <1>5
    <3>2. s = <<>>
      BY <3>1, EmptySeq
    <3> QED
      BY <3>2
  <2>2. FlattenSeq(s) = s
    BY <1>2, <1>5 DEF FlattenSeq
  <2> QED
    BY <2>1, <2>2
<1>6. CASE m # 0
  <2>1. PICK step : step = [i \in 1..m |-> [v \in T |-> IF i = 1 THEN s[i] ELSE v \o s[i]]]
    OBVIOUS
  <2>2. step \in [1..m -> [T -> T]]
    BY <1>3, <1>4, <2>1
  <2>3. PICK g \in [0..m -> T] : \A i \in 1..m : g[i] = step[i][g[i - 1]]
    <3>1. PICK x \in T : x = <<>>
      BY <1>3
    <3>2. \E f : Unrolls(f, m, step, T)
      BY <1>3, <2>2, RecursionExists
    <3> QED
      BY <3>2 DEF Unrolls
  <2>4. PICK f : f = [i \in 1..m |-> g[i]]
    OBVIOUS
  <2>5. Flat(f)
    <3>1. ASSUME NEW i \in 1..m
          PROVE  g[i] = IF i = 1 THEN s[i] ELSE f[i - 1] \o s[i]
      <4>1. g[i - 1] \in T
        BY <1>3
      <4>2. g[i] = IF i = 1 THEN s[i] ELSE g[i - 1] \o s[i]
        BY <2>1, <2>3, <4>1
      <4>3. i # 1 => f[i - 1] = g[i - 1]
        BY <1>3, <2>4
      <4> QED
        BY <4>2, <4>3
    <3> QED
      BY <2>4, <3>1
  <2>6. FlattenSeq(s) = (CHOOSE e : Flat(e))[m]
    BY <1>2, <1>6 DEF FlattenSeq
  <2> HIDE DEF Flat
  <2>7. PICK h : h = CHOOSE e : Flat(e)
    OBVIOUS
  <2>8. Flat(h)
    BY <2>5, <2>7
  <2>9. \A i \in 1..m : h[i] = IF i = 1 THEN s[i] ELSE h[i - 1] \o s[i]
    BY <2>8 DEF Flat
  <2> DEFINE Odd == {i \in 1..m : h[i] \notin T}
  <2>10. ASSUME Odd # {} PROVE FALSE
    <3>1. PICK i \in Odd : \A l \in Odd : i <= l
      <4>1. Odd \subseteq Nat
        OBVIOUS
      <4> QED
        BY <2>10, <4>1, LeastExists
    <3>2. CASE i = 1
      BY <1>3, <2>9, <3>1, <3>2
    <3>3. CASE i # 1
      <4>1. i - 1 \in 1..m /\ ~(i <= i - 1)
        BY <1>3, <3>1, <3>3
      <4>2. h[i - 1] \in T
        BY <3>1, <4>1
      <4>3. h[i] = h[i - 1] \o s[i] /\ s[i] \in T
        BY <1>3, <2>9, <3>1, <3>3
      <4> QED
        BY <1>4, <3>1, <4>2, <4>3
    <3> QED
      BY <3>2, <3>3
  <2>11. m \in 1..m
    BY <1>3, <1>6
  <2> QED
    <3>1. h[m] \in T
      BY <2>10, <2>11
    <3> QED
      BY <1>1, <2>6, <2>7, <3>1
<1> QED
  BY <1>5, <1>6

\* The same for a fold from the greatest number of a set down.
LEMMA MaxIsGreatest ==
  ASSUME NEW m \in Nat, NEW U \in SUBSET (1..m), U # {}
  PROVE  Max(U) \in U
<1> DEFINE Gaps == {k \in Nat : m - k \in U}
<1>1. PICK x \in U : TRUE
  OBVIOUS
<1>2. m - x \in Nat /\ m - (m - x) = x
  OBVIOUS
<1>3. Gaps # {}
  BY <1>2
<1>4. PICK k \in Gaps : \A l \in Gaps : k <= l
  <2>1. Gaps \subseteq Nat
    OBVIOUS
  <2> QED
    BY <1>3, <2>1, LeastExists
<1>5. \A y \in U : m - k >= y
  <2> TAKE y \in U
  <2>1. m - y \in Nat /\ m - (m - y) = y
    OBVIOUS
  <2>2. k <= m - y
    BY <1>4, <2>1
  <2> QED
    BY <1>4, <2>1, <2>2
<1> QED
  BY <1>4, <1>5 DEF Max

LEMMA SubsetsAreFinite ==
  ASSUME NEW m \in Nat, NEW U \in SUBSET (1..m)
  PROVE  /\ IsFiniteSet(U) /\ Cardinality(U) \in Nat /\ Cardinality(U) <= m
         /\ \A c \in U : Cardinality(U \ {c}) = Cardinality(U) - 1 /\ Cardinality(U) - 1 \in Nat
<1>1. IsFiniteSet(1..m) /\ Cardinality(1..m) = m
  BY FS_Interval
<1>2. IsFiniteSet(U) /\ Cardinality(U) <= m
  BY <1>1, FS_Subset
<1>3. Cardinality(U) \in Nat
  BY <1>2, FS_CardinalityType
<1>4. ASSUME NEW c \in U
      PROVE  Cardinality(U \ {c}) = Cardinality(U) - 1 /\ Cardinality(U) - 1 \in Nat
  <2>1. IsFiniteSet(U \ {c}) /\ Cardinality(U \ {c}) = Cardinality(U) - 1
    BY <1>2, FS_RemoveElement
  <2>2. Cardinality(U \ {c}) \in Nat
    BY <2>1, FS_CardinalityType
  <2> QED
    BY <2>1, <2>2
<1> QED
  BY <1>2, <1>3, <1>4

Folds(g, m, step, x, T) ==
  /\ g \in [SUBSET (1..m) -> T]
  /\ \A U \in SUBSET (1..m) :
       g[U] = IF U = {} THEN x ELSE step[Max(U)][g[U \ {Max(U)}]]

LEMMA FoldExists ==
  ASSUME NEW T, NEW x \in T, NEW m \in Nat, NEW step \in [1..m -> [T -> T]]
  PROVE  \E g : Folds(g, m, step, x, T)
<1> DEFINE F == SUBSET (1..m)
           Is(g, U) == g[U] = IF U = {} THEN x ELSE step[Max(U)][g[U \ {Max(U)}]]
           To(g, k) == g \in [F -> T] /\ \A U \in F : Cardinality(U) <= k => Is(g, U)
           Missing == {k \in Nat : ~\E g : To(g, k)}
<1>1. \A U \in F : IsFiniteSet(U) /\ Cardinality(U) \in Nat /\ Cardinality(U) <= m
  BY SubsetsAreFinite
<1>2. ASSUME Missing # {} PROVE FALSE
  <2>1. PICK k \in Missing : \A l \in Missing : k <= l
    <3>1. Missing \subseteq Nat
      OBVIOUS
    <3> QED
      BY <1>2, <3>1, LeastExists
  <2>2. CASE k = 0
    <3>1. PICK g : g = [U \in F |-> x]
      OBVIOUS
    <3>2. \A U \in F : Cardinality(U) <= 0 => U = {}
      BY <1>1, FS_EmptySet
    <3>3. To(g, 0)
      BY <3>1, <3>2
    <3> QED
      BY <2>1, <2>2, <3>3
  <2>3. CASE k > 0
    <3>1. PICK g : To(g, k - 1)
      <4>1. k - 1 \in Nat /\ ~(k <= k - 1)
        BY <2>1, <2>3
      <4> QED
        BY <2>1, <4>1
    <3>2. PICK f : f = [U \in F |-> IF U = {} THEN x ELSE step[Max(U)][g[U \ {Max(U)}]]]
      OBVIOUS
    <3>3. ASSUME NEW U \in F PROVE f[U] \in T
      <4>1. CASE U = {}
        BY <3>2, <4>1
      <4>2. CASE U # {}
        <5>1. PICK c : c = Max(U)
          OBVIOUS
        <5>2. c \in 1..m /\ U \ {c} \in F
          BY <4>2, <5>1, MaxIsGreatest
        <5>3. g[U \ {c}] \in T
          BY <3>1, <5>2
        <5> QED
          BY <3>2, <4>2, <5>1, <5>2, <5>3
      <4> QED
        BY <4>1, <4>2
    <3>4. f \in [F -> T]
      BY <3>2, <3>3
    <3>5. \A U \in F : Cardinality(U) <= k - 1 => f[U] = g[U]
      BY <3>1, <3>2
    <3>6. ASSUME NEW U \in F, Cardinality(U) <= k PROVE Is(f, U)
      <4>1. CASE U = {}
        BY <3>2, <4>1
      <4>2. CASE U # {}
        <5>1. PICK c : c = Max(U)
          OBVIOUS
        <5>2. c \in U
          BY <4>2, <5>1, MaxIsGreatest
        <5>3. Cardinality(U \ {c}) = Cardinality(U) - 1 /\ Cardinality(U) \in Nat
          BY <5>2, SubsetsAreFinite
        <5>4. f[U \ {c}] = g[U \ {c}]
          <6>1. U \ {c} \in F /\ Cardinality(U \ {c}) <= k - 1
            BY <2>1, <2>3, <3>6, <5>2, <5>3
          <6> QED
            BY <3>5, <6>1
        <5> QED
          BY <3>2, <4>2, <5>1, <5>4
      <4> QED
        BY <4>1, <4>2
    <3>7. To(f, k)
      BY <3>4, <3>6
    <3> QED
      BY <2>1, <3>7
  <2> QED
    BY <2>1, <2>2, <2>3
<1>3. PICK g : To(g, m)
  BY <1>2
<1> QED
  BY <1>1, <1>3 DEF Folds

LEMMA EntriesType ==
  ASSUME DiskTypes, NEW d \in Ino
  PROVE  /\ Entries(d) \in Seq(Entry)
         /\ Entries(d) # <<>> =>
              /\ inode[d].pointers.direct[1] \in Block
              /\ Entries(d) = content[inode[d].pointers.direct[1]]
<1>1. inode[d].pointers.direct \in Seq(Block)
  BY DEF DiskTypes, Pointers
<1>2. CASE inode[d].kind = "dir" /\ inode[d].pointers.direct # <<>>
  <2>1. inode[d].pointers.direct[1] \in Block
    BY <1>1, <1>2, EmptySeq
  <2> QED
    BY <1>2, <2>1 DEF DiskTypes, Entries
<1>3. CASE ~(inode[d].kind = "dir" /\ inode[d].pointers.direct # <<>>)
  BY <1>3 DEF Entries
<1> QED
  BY <1>2, <1>3

LEMMA ChildType ==
  ASSUME DiskTypes, NEW d \in Ino, NEW name
  PROVE  Child(d, name) \in Ino \cup {0}
<1> DEFINE hits == {k \in DOMAIN Entries(d) : IsPrefix(Entries(d)[k].name, name)}
<1>1. Entries(d) \in Seq(Entry)
  BY EntriesType
<1>2. CASE hits = {}
  BY <1>2 DEF Child
<1>3. CASE hits # {}
  <2>1. hits \subseteq Nat
    BY <1>1
  <2>2. Min(hits) \in hits
    BY <1>3, <2>1, MinIsLeast
  <2>3. PICK k \in DOMAIN Entries(d) : k = Min(hits)
    BY <2>2
  <2>4. Entries(d)[k].ino \in Ino
    <3>1. Entries(d)[k] \in Entry
      BY <1>1, <2>3
    <3> QED
      BY <3>1 DEF Entry
  <2> QED
    BY <1>3, <2>3, <2>4 DEF Child
<1> QED
  BY <1>2, <1>3

LEMMA LookupType ==
  ASSUME DiskTypes, NEW N, NEW path \in Seq(N)
  PROVE  Lookup(path) \in Ino \cup {0}
<1>1. PICK m : m = Len(path)
  OBVIOUS
<1>2. m \in Nat /\ DOMAIN path = 1..m
  BY <1>1
<1>3. PICK T : T = Ino \cup {0}
  OBVIOUS
<1>4. PICK step : step = [k \in 1..m |-> [d \in T |-> IF d = 0 THEN 0 ELSE Child(d, path[k])]]
  OBVIOUS
<1>5. \A d \in T : \A name : (IF d = 0 THEN 0 ELSE Child(d, name)) \in T
  BY <1>3, ChildType
<1>6. step \in [1..m -> [T -> T]] /\ Root \in T
  BY <1>3, <1>4, <1>5, Numbers
<1>7. PICK g : Folds(g, m, step, Root, T)
  BY <1>2, <1>6, FoldExists
<1> DEFINE F == SUBSET (1..m)
           Found(h) == h = [U \in F |-> IF U = {} THEN Root
                              ELSE IF h[U \ {Max(U)}] = 0 THEN 0
                              ELSE Child(h[U \ {Max(U)}], path[Max(U)])]
<1>8. Found(g)
  <2>1. g = [U \in F |-> g[U]]
    BY <1>7 DEF Folds
  <2>2. ASSUME NEW U \in F, U # {}
        PROVE  g[U] = IF g[U \ {Max(U)}] = 0 THEN 0
                      ELSE Child(g[U \ {Max(U)}], path[Max(U)])
    <3>1. PICK c : c = Max(U)
      OBVIOUS
    <3>2. c \in 1..m /\ U \ {c} \in F
      BY <1>2, <2>2, <3>1, MaxIsGreatest
    <3>3. g[U] = step[c][g[U \ {c}]] /\ g[U \ {c}] \in T
      BY <1>7, <2>2, <3>1, <3>2 DEF Folds
    <3> QED
      BY <1>4, <3>1, <3>2, <3>3
  <2>3. g[{}] = Root
    BY <1>7 DEF Folds
  <2> QED
    BY <2>1, <2>2, <2>3
<1>9. Lookup(path) = (CHOOSE h : Found(h))[1..m]
  BY <1>2 DEF Lookup, FoldLeft, MapThenFoldSet
<1> HIDE DEF Found
<1>10. PICK h : h = CHOOSE e : Found(e)
  OBVIOUS
<1>11. Found(h)
  BY <1>8, <1>10
<1>12. \A U \in F : h[U] = IF U = {} THEN Root
                              ELSE IF h[U \ {Max(U)}] = 0 THEN 0
                              ELSE Child(h[U \ {Max(U)}], path[Max(U)])
  BY <1>11 DEF Found
<1>13. \A U \in F : IsFiniteSet(U) /\ Cardinality(U) \in Nat
  BY <1>2, SubsetsAreFinite
<1> DEFINE Odd == {k \in Nat : \E U \in F : Cardinality(U) = k /\ h[U] \notin T}
<1>14. ASSUME Odd # {} PROVE FALSE
  <2>1. PICK k \in Odd : \A l \in Odd : k <= l
    <3>1. Odd \subseteq Nat
      OBVIOUS
    <3> QED
      BY <1>14, <3>1, LeastExists
  <2>2. PICK U \in F : Cardinality(U) = k /\ h[U] \notin T
    BY <2>1
  <2>3. CASE U = {}
    BY <1>6, <1>12, <2>2, <2>3
  <2>4. CASE U # {}
    <3>1. PICK c : c = Max(U)
      OBVIOUS
    <3>2. c \in U
      BY <1>2, <2>4, <3>1, MaxIsGreatest
    <3>3. Cardinality(U \ {c}) = k - 1 /\ k - 1 \in Nat /\ U \ {c} \in F
      BY <1>2, <2>2, <3>2, SubsetsAreFinite
    <3>4. h[U \ {c}] \in T
      BY <2>1, <3>3
    <3> QED
      BY <1>5, <1>12, <2>2, <2>4, <3>1, <3>4
  <2> QED
    BY <2>3, <2>4
<1>15. h[1..m] \in T
  <2>1. (1..m) \in F /\ Cardinality(1..m) \in Nat
    BY <1>13
  <2> QED
    BY <1>14, <2>1
<1> QED
  BY <1>3, <1>9, <1>10, <1>15

-----------------------------------------------------------------------------
\* The blocks an inode points at.
LEMMA SetsOfSeqs ==
  ASSUME NEW S, NEW s \in Seq(S)
  PROVE  /\ ToSet(s) \subseteq S
         /\ \A t \in Seq(S) : s \o t \in Seq(S) /\ ToSet(s \o t) \subseteq ToSet(s) \cup ToSet(t)
         /\ \A x \in S : Append(s, x) \in Seq(S) /\ ToSet(Append(s, x)) \subseteq ToSet(s) \cup {x}
         /\ \A k \in 0..Len(s) : SubSeq(s, 1, k) \in Seq(S) /\ Len(SubSeq(s, 1, k)) = k
                                 /\ ToSet(SubSeq(s, 1, k)) \subseteq ToSet(s)
         /\ s # <<>> => Last(s) \in ToSet(s) /\ Len(s) \in Nat \ {0}
<1>1. Len(s) \in Nat /\ DOMAIN s = 1..Len(s) /\ ToSet(s) \subseteq S
  BY DEF ToSet
<1>2. ASSUME NEW t \in Seq(S)
      PROVE  s \o t \in Seq(S) /\ ToSet(s \o t) \subseteq ToSet(s) \cup ToSet(t)
  <2>1. /\ s \o t \in Seq(S) /\ Len(s \o t) = Len(s) + Len(t)
        /\ \A i \in 1..(Len(s) + Len(t)) :
             (s \o t)[i] = IF i <= Len(s) THEN s[i] ELSE t[i - Len(s)]
    BY ConcatProperties
  <2>2. PICK c : c = s \o t
    OBVIOUS
  <2>3. ASSUME NEW i \in DOMAIN c PROVE c[i] \in ToSet(s) \cup ToSet(t)
    <3>1. i \in 1..(Len(s) + Len(t)) /\ Len(t) \in Nat
      BY <2>1, <2>2, <2>3
    <3>2. CASE i <= Len(s)
      BY <1>1, <2>1, <2>2, <3>1, <3>2 DEF ToSet
    <3>3. CASE i > Len(s)
      <4>1. i - Len(s) \in DOMAIN t /\ c[i] = t[i - Len(s)]
        BY <1>1, <2>1, <2>2, <3>1, <3>3
      <4> QED
        BY <4>1 DEF ToSet
    <3> QED
      BY <1>1, <3>1, <3>2, <3>3
  <2> QED
    BY <2>1, <2>2, <2>3 DEF ToSet
<1>3. ASSUME NEW x \in S
      PROVE  Append(s, x) \in Seq(S) /\ ToSet(Append(s, x)) \subseteq ToSet(s) \cup {x}
  <2>1. PICK c : c = Append(s, x)
    OBVIOUS
  <2>2. /\ c \in Seq(S) /\ Len(c) = Len(s) + 1 /\ c[Len(s) + 1] = x
        /\ \A i \in 1..Len(s) : c[i] = s[i]
    BY <2>1, AppendProperties
  <2>3. ASSUME NEW i \in DOMAIN c PROVE c[i] \in ToSet(s) \cup {x}
    <3>1. i \in 1..Len(s) \/ i = Len(s) + 1
      BY <1>1, <2>2, <2>3
    <3> QED
      BY <1>1, <2>2, <3>1 DEF ToSet
  <2> QED
    BY <2>1, <2>2, <2>3 DEF ToSet
<1>4. ASSUME NEW k \in 0..Len(s)
      PROVE  SubSeq(s, 1, k) \in Seq(S) /\ Len(SubSeq(s, 1, k)) = k
             /\ ToSet(SubSeq(s, 1, k)) \subseteq ToSet(s)
  <2>1. PICK c : c = SubSeq(s, 1, k)
    OBVIOUS
  <2>2. c = [i \in 1..k |-> s[i]]
    BY <1>1, <2>1
  <2>3. c \in Seq(S) /\ Len(c) = k /\ DOMAIN c = 1..k
    BY <1>1, <2>2
  <2>4. ToSet(c) \subseteq ToSet(s)
    BY <1>1, <2>2, <2>3 DEF ToSet
  <2> QED
    BY <2>1, <2>3, <2>4
<1>5. s # <<>> => Last(s) \in ToSet(s) /\ Len(s) \in Nat \ {0}
  BY <1>1, EmptySeq DEF Last, ToSet
<1> QED
  BY <1>1, <1>2, <1>3, <1>4, <1>5

LEMMA FrontOfSeq ==
  ASSUME NEW S, NEW s \in Seq(S), s # <<>>
  PROVE  /\ Front(s) \in Seq(S) /\ ToSet(Front(s)) \subseteq ToSet(s)
         /\ Len(s) # 1 => Front(s) # <<>>
<1>1. Len(s) \in Nat \ {0}
  BY EmptySeq
<1>2. PICK k \in Nat : k = Len(s) - 1 /\ k \in 0..Len(s)
  <2>1. PICK l \in Nat : l = Len(s) /\ l # 0
    BY <1>1
  <2>2. l - 1 \in Nat /\ l - 1 \in 0..l
    BY <2>1
  <2> QED
    BY <2>1, <2>2
<1>3. Front(s) = SubSeq(s, 1, k)
  BY <1>2 DEF Front
<1>4. Len(Front(s)) = k /\ Front(s) \in Seq(S) /\ ToSet(Front(s)) \subseteq ToSet(s)
  <2>1. SubSeq(s, 1, k) \in Seq(S) /\ Len(SubSeq(s, 1, k)) = k
        /\ ToSet(SubSeq(s, 1, k)) \subseteq ToSet(s)
    BY <1>2, SetsOfSeqs
  <2> QED
    BY <1>3, <2>1
<1> QED
  BY <1>1, <1>2, <1>4

Indirect(p) ==
  ToSet(p.single) \cup ToSet(FlattenSeq(p.double))
    \cup ToSet(FlattenSeq(FlattenSeq(p.triple)))

LEMMA FlattenEmpty == FlattenSeq(<<>>) = <<>>
  BY DEF FlattenSeq

LEMMA ImageBlocks ==
  /\ Image.pointers \in Pointers
  /\ PointerBlocks(Image.pointers) \subseteq Block \ {1}
  /\ Image.pointers.single \in Seq(Block)
  /\ FlattenSeq(Image.pointers.double) \in Seq(Block)
  /\ FlattenSeq(FlattenSeq(Image.pointers.triple)) \in Seq(Block)
<1>1. PICK B : B = Block \ {1}
  OBVIOUS
<1>2. PICK p : p = Image.pointers
  OBVIOUS
<1>3. p \in [direct : Seq(B), single : Seq(B), double : Seq(Seq(B)), triple : Seq(Seq(Seq(B)))]
  BY <1>1, <1>2, ImageAssumption
<1>4. p.direct \in Seq(B) /\ p.single \in Seq(B) /\ p.double \in Seq(Seq(B))
      /\ p.triple \in Seq(Seq(Seq(B)))
  BY <1>3
<1>5. FlattenSeq(p.double) \in Seq(B)
  BY <1>4, FlattenType
<1>6. FlattenSeq(p.triple) \in Seq(Seq(B))
  BY <1>4, FlattenType
<1>7. FlattenSeq(FlattenSeq(p.triple)) \in Seq(B)
  BY <1>6, FlattenType
<1>8. PointerBlocks(p) \subseteq B
  BY <1>4, <1>5, <1>7, SetsOfSeqs DEF PointerBlocks
<1>9. \A s \in Seq(B) : s \in Seq(Block)
  BY <1>1
<1>10. p \in Pointers
  <2>1. p = [direct |-> p.direct, single |-> p.single, double |-> p.double, triple |-> p.triple]
    BY <1>3
  <2>2. p.direct \in Seq(Block)
    BY <1>4, <1>9
  <2> QED
    BY <1>2, <2>1, <2>2 DEF Pointers
<1> QED
  BY <1>1, <1>2, <1>4, <1>5, <1>7, <1>8, <1>9, <1>10

LEMMA PointersType ==
  ASSUME NEW p \in Pointers
  PROVE  /\ p.direct \in Seq(Block) /\ p.single \in Seq(Block)
         /\ FlattenSeq(p.double) \in Seq(Block)
         /\ FlattenSeq(FlattenSeq(p.triple)) \in Seq(Block)
         /\ PointerBlocks(p) = ToSet(p.direct) \cup Indirect(p)
         /\ PointerBlocks(p) \subseteq Block
<1>0. /\ p.direct \in Seq(Block) /\ <<>> \in Seq(Block)
      /\ p.single = <<>> \/ p.single = Image.pointers.single
      /\ p.double = <<>> \/ p.double = Image.pointers.double
      /\ p.triple = <<>> \/ p.triple = Image.pointers.triple
  BY DEF Pointers
<1>1. p.direct \in Seq(Block) /\ p.single \in Seq(Block)
  BY <1>0, ImageBlocks
<1>2. FlattenSeq(p.double) \in Seq(Block)
  BY <1>0, ImageBlocks, FlattenEmpty
<1>3. FlattenSeq(FlattenSeq(p.triple)) \in Seq(Block)
  BY <1>0, ImageBlocks, FlattenEmpty
<1>4. PointerBlocks(p) = ToSet(p.direct) \cup Indirect(p)
  BY DEF PointerBlocks, Indirect
<1>5. PointerBlocks(p) \subseteq Block
  BY <1>1, <1>2, <1>3, SetsOfSeqs DEF PointerBlocks
<1> QED
  BY <1>1, <1>2, <1>3, <1>4, <1>5

LEMMA NoBlocks == NoPointers \in Pointers /\ PointerBlocks(NoPointers) = {}
<1>1. NoPointers \in Pointers
  BY DEF NoPointers, Pointers
<1>2. ToSet(<<>>) = {}
  BY DEF ToSet
<1> QED
  BY <1>1, <1>2, FlattenEmpty DEF NoPointers, PointerBlocks

\* ext2_load_block_list gives blocks of the file, and none for an empty one.
LEMMA LoadedList ==
  ASSUME NEW p \in Pointers, NEW size \in Nat
  PROVE  /\ LoadBlockList(p, size) \in Seq(Block)
         /\ ToSet(LoadBlockList(p, size)) \subseteq PointerBlocks(p)
         /\ size = 0 => LoadBlockList(p, size) = <<>>
<1>1. PICK count : count = BlocksFor(size)
  OBVIOUS
<1>2. PICK a : a = p.direct
  OBVIOUS
<1>3. PICK b : b = p.single
  OBVIOUS
<1>4. PICK c : c = FlattenSeq(p.double)
  OBVIOUS
<1>5. PICK d : d = FlattenSeq(FlattenSeq(p.triple))
  OBVIOUS
<1>6. a \in Seq(Block) /\ b \in Seq(Block) /\ c \in Seq(Block) /\ d \in Seq(Block)
  BY <1>2, <1>3, <1>4, <1>5, PointersType
<1>7. /\ ToSet(a) \subseteq PointerBlocks(p) /\ ToSet(b) \subseteq PointerBlocks(p)
      /\ ToSet(c) \subseteq PointerBlocks(p) /\ ToSet(d) \subseteq PointerBlocks(p)
  BY <1>2, <1>3, <1>4, <1>5 DEF PointerBlocks
<1>8. count \in Nat /\ (size = 0 => count = 0)
  <2>1. PICK x : x = size + BlockSize - 1
    OBVIOUS
  <2>2. x \in Nat /\ (size = 0 => x < BlockSize) /\ BlockSize \in Nat \ {0}
    BY <2>1, BlocksAssumption
  <2>3. x \div BlockSize \in Nat /\ (x < BlockSize => x \div BlockSize = 0)
    BY <2>2
  <2> QED
    BY <1>1, <2>1, <2>2, <2>3 DEF BlocksFor
<1> DEFINE Part(s) == s \in Seq(Block) /\ ToSet(s) \subseteq PointerBlocks(p)
<1>9. \A s, t : Part(s) /\ Part(t) => Part(s \o t)
  <2> TAKE s, t
  <2> HAVE Part(s) /\ Part(t)
  <2>1. s \o t \in Seq(Block) /\ ToSet(s \o t) \subseteq ToSet(s) \cup ToSet(t)
    BY SetsOfSeqs
  <2> QED
    BY <2>1
<1>10. Part(b) /\ Part(c) /\ Part(d) /\ Part(<<>>)
  <2>1. ToSet(<<>>) = {} /\ <<>> \in Seq(Block)
    BY DEF ToSet
  <2> QED
    BY <1>6, <1>7, <2>1
<1>11. PICK l0 : l0 = SubSeq(a, 1, IF count < Len(a) THEN count ELSE Len(a))
  OBVIOUS
<1>12. Part(l0)
  <2>1. PICK k \in 0..Len(a) : k = IF count < Len(a) THEN count ELSE Len(a)
    BY <1>6, <1>8
  <2>2. SubSeq(a, 1, k) \in Seq(Block) /\ ToSet(SubSeq(a, 1, k)) \subseteq ToSet(a)
    BY <1>6, SetsOfSeqs
  <2> QED
    BY <1>7, <1>11, <2>1, <2>2
<1> HIDE DEF Part
<1>13. PICK l1 : l1 = IF Len(l0) < count THEN l0 \o b ELSE l0
  OBVIOUS
<1>14. PICK l2 : l2 = IF Len(l1) < count THEN l1 \o c ELSE l1
  OBVIOUS
<1>15. PICK l3 : l3 = IF Len(l2) < count THEN l2 \o d ELSE l2
  OBVIOUS
<1>16. Part(l1)
  BY <1>9, <1>10, <1>12, <1>13
<1>17. Part(l2)
  BY <1>9, <1>10, <1>14, <1>16
<1>18. Part(l3)
  BY <1>9, <1>10, <1>15, <1>17
<1>19. LoadBlockList(p, size) = IF count > 0 /\ Len(l3) = count THEN l3 ELSE <<>>
  BY <1>1, <1>2, <1>3, <1>4, <1>5, <1>11, <1>13, <1>14, <1>15 DEF LoadBlockList
<1>20. Part(LoadBlockList(p, size))
  BY <1>10, <1>18, <1>19
<1> QED
  BY <1>8, <1>19, <1>20 DEF Part

-----------------------------------------------------------------------------
\* What happens to a directory: its records keep their inodes and their room.
LEMMA LaidWithOneMore ==
  ASSUME NEW m \in Nat \ {0}, NEW f \in [1..m -> Nat], NEW h \in [1..(m + 1) -> Nat],
         f[m] >= 2, \A k \in 1..m : k # m => h[k] = f[k], h[m] = 1, h[m + 1] = f[m] - 1,
         Laid(f, m)
  PROVE  Laid(h, m + 1)
<1>1. PICK at \in [1..(m + 1) -> 0..DirSlots] : \A k \in 1..m : at[k + 1] = at[k] + f[k]
  BY DEF Laid
<1>2. PICK new : new = [k \in 1..(m + 2) |-> IF k <= m THEN at[k] ELSE IF k = m + 1 THEN at[m] + 1
                                              ELSE at[m + 1]]
  OBVIOUS
<1>3. /\ \A k \in 1..m : new[k] = at[k]
      /\ new[m + 1] = at[m] + 1 /\ new[m + 2] = at[m + 1]
  BY <1>2
<1>4. /\ m \in 1..m /\ at[m] \in 0..DirSlots /\ at[m + 1] \in 0..DirSlots
      /\ at[m + 1] = at[m] + f[m] /\ f[m] \in Nat
  BY <1>1
<1>5. at[m] + 1 \in 0..DirSlots
  BY <1>4, Ext2Assumption
<1>6. new \in [1..(m + 2) -> 0..DirSlots]
  <2>1. \A k \in 1..(m + 2) : new[k] \in 0..DirSlots
    <3> TAKE k \in 1..(m + 2)
    <3>1. CASE k <= m
      <4>1. k \in 1..m /\ k \in 1..(m + 1)
        BY <3>1
      <4> QED
        BY <1>1, <1>3, <4>1
    <3>2. CASE k = m + 1 \/ k = m + 2
      BY <1>3, <1>4, <1>5, <3>2
    <3> QED
      BY <3>1, <3>2
  <2> QED
    BY <1>2, <2>1
<1>7. ASSUME NEW k \in 1..(m + 1) PROVE new[k + 1] = new[k] + h[k]
  <2>1. CASE k < m
    <3>1. k \in 1..m /\ k + 1 \in 1..m /\ k # m
      BY <2>1
    <3>2. at[k + 1] = at[k] + f[k] /\ h[k] = f[k]
      BY <1>1, <3>1
    <3> QED
      BY <1>3, <3>1, <3>2
  <2>2. CASE k = m
    BY <1>3, <1>4, <2>2
  <2>3. CASE k = m + 1
    <3>1. new[k] = at[m] + 1 /\ new[k + 1] = at[m] + f[m] /\ h[k] = f[m] - 1
      BY <1>3, <1>4, <2>3
    <3> QED
      BY <1>4, <3>1
  <2> QED
    BY <2>1, <2>2, <2>3
<1>8. new \in [1..((m + 1) + 1) -> 0..DirSlots]
  <2>1. (m + 1) + 1 = m + 2
    OBVIOUS
  <2> QED
    BY <1>6, <2>1
<1> QED
  BY <1>7, <1>8 DEF Laid

LEMMA LaidWithOneLess ==
  ASSUME NEW m \in Nat, NEW k \in 2..m, NEW f \in [1..m -> Nat], NEW h \in [1..(m - 1) -> Nat],
         \A j \in 1..(m - 1) : j < k - 1 => h[j] = f[j],
         h[k - 1] = f[k - 1] + f[k],
         \A j \in 1..(m - 1) : j > k - 1 => h[j] = f[j + 1],
         Laid(f, m)
  PROVE  Laid(h, m - 1)
<1>1. PICK at \in [1..(m + 1) -> 0..DirSlots] : \A j \in 1..m : at[j + 1] = at[j] + f[j]
  BY DEF Laid
<1>2. PICK new : new = [j \in 1..m |-> IF j < k THEN at[j] ELSE at[j + 1]]
  OBVIOUS
<1>3. \A j \in 1..m : new[j] = IF j < k THEN at[j] ELSE at[j + 1]
  BY <1>2
<1>4. new \in [1..m -> 0..DirSlots]
  <2>1. \A j \in 1..m : j \in 1..(m + 1) /\ j + 1 \in 1..(m + 1)
    OBVIOUS
  <2> QED
    BY <1>1, <1>2, <2>1
<1>5. ASSUME NEW j \in 1..(m - 1) PROVE new[j + 1] = new[j] + h[j]
  <2>0. j \in 1..m /\ j + 1 \in 1..m
    OBVIOUS
  <2>1. CASE j < k - 1
    <3>0. j < k /\ j + 1 < k
      BY <2>1
    <3>1. new[j] = at[j] /\ new[j + 1] = at[j + 1]
      BY <1>3, <2>0, <3>0
    <3>2. at[j + 1] = at[j] + f[j] /\ h[j] = f[j]
      BY <1>1, <2>0, <2>1
    <3> QED
      BY <3>1, <3>2
  <2>2. CASE j = k - 1
    <3>1. j + 1 = k /\ k \in 1..m /\ k + 1 \in 1..(m + 1)
      BY <2>2
    <3>2. new[j] = at[j] /\ new[j + 1] = at[k + 1]
      BY <1>3, <2>0, <2>2, <3>1
    <3>3. at[k] = at[j] + f[j] /\ at[k + 1] = at[k] + f[k]
      BY <1>1, <2>0, <3>1
    <3>4. h[j] = f[j] + f[k]
      BY <2>2
    <3>5. at[j] \in Int /\ f[j] \in Int /\ f[k] \in Int
      <4>1. j \in 1..(m + 1)
        BY <2>0
      <4>2. at[j] \in 0..DirSlots /\ f[j] \in Nat /\ f[k] \in Nat
        BY <2>0, <3>1, <4>1
      <4> QED
        BY <4>2, Ext2Assumption
    <3>6. PICK x \in Int : x = at[j]
      BY <3>5
    <3>7. PICK y \in Int : y = f[j]
      BY <3>5
    <3>8. PICK z \in Int : z = f[k]
      BY <3>5
    <3>9. at[k + 1] = (x + y) + z /\ h[j] = y + z
      BY <3>3, <3>4, <3>6, <3>7, <3>8
    <3>10. (x + y) + z = x + (y + z)
      OBVIOUS
    <3> QED
      BY <3>2, <3>6, <3>9, <3>10
  <2>3. CASE j > k - 1
    <3>0. ~(j < k) /\ ~(j + 1 < k)
      BY <2>3
    <3>1. new[j] = at[j + 1] /\ new[j + 1] = at[(j + 1) + 1]
      BY <1>3, <2>0, <3>0
    <3>2. at[(j + 1) + 1] = at[j + 1] + f[j + 1] /\ h[j] = f[j + 1]
      BY <1>1, <2>0, <2>3
    <3> QED
      BY <3>1, <3>2
  <2> QED
    BY <2>1, <2>2, <2>3
<1>6. new \in [1..((m - 1) + 1) -> 0..DirSlots]
  <2>1. (m - 1) + 1 = m
    OBVIOUS
  <2> QED
    BY <1>4, <2>1
<1> QED
  BY <1>5, <1>6 DEF Laid

LEMMA LensAreNat == \A u \in Entry : u.len \in Nat \ {0} /\ u.ino \in Ino
  BY DEF Entry

LEMMA EntryLength ==
  ASSUME NEW u \in Entry, NEW l \in Nat \ {0}
  PROVE  /\ [u EXCEPT !.len = l] \in Entry
         /\ [u EXCEPT !.len = l].ino = u.ino /\ [u EXCEPT !.len = l].len = l
  BY DEF Entry

Resized(t, s, i, l) ==
  /\ t \in Seq(Entry) /\ Len(t) = Len(s) /\ t[i].len = l
  /\ \A k \in 1..Len(s) : t[k] \in Entry /\ t[k].ino = s[k].ino
  /\ \A k \in 1..Len(s) : k # i => t[k].len = s[k].len

LEMMA EntryResized ==
  ASSUME NEW s \in Seq(Entry), NEW i \in 1..Len(s), NEW l \in Nat \ {0},
         NEW t, t = [s EXCEPT ![i].len = l]
  PROVE  Resized(t, s, i, l)
<1>1. PICK m \in Nat : m = Len(s)
  OBVIOUS
<1>2. DOMAIN s = 1..m /\ i \in 1..m /\ \A k \in 1..m : s[k] \in Entry
  BY <1>1
<1>3. PICK u : u = [s[i] EXCEPT !.len = l]
  OBVIOUS
<1>4. t = [s EXCEPT ![i] = u]
  BY <1>3
<1>5. u \in Entry /\ u.ino = s[i].ino /\ u.len = l
  BY <1>2, <1>3, EntryLength
<1>6. t \in Seq(Entry) /\ Len(t) = Len(s) /\ \A k \in 1..Len(s) : t[k] = IF k = i THEN u ELSE s[k]
  BY <1>4, <1>5, ExceptSeq
<1> QED
  BY <1>1, <1>2, <1>5, <1>6 DEF Resized

Shortened(s) == [s EXCEPT ![Len(s)].len = 1]

LEMMA EntryAdded ==
  ASSUME NEW s \in Seq(Entry), Len(s) # 0, s[Len(s)].len >= 2,
         NEW e \in Entry, e.len = s[Len(s)].len - 1,
         NEW r, r = Append(Shortened(s), e)
  PROVE  /\ r \in Seq(Entry) /\ Len(r) = Len(s) + 1
         /\ \A k \in 1..Len(s) : r[k].ino = s[k].ino
         /\ r[Len(s) + 1].ino = e.ino
         /\ Fits(s) => Fits(r)
<1>1. PICK m \in Nat \ {0} : m = Len(s)
  OBVIOUS
<1>2. m \in 1..m /\ \A k \in 1..m : s[k] \in Entry /\ s[k].len \in Nat
  <2>1. m \in 1..m /\ \A k \in 1..m : s[k] \in Entry
    BY <1>1
  <2> QED
    BY <2>1, LensAreNat
<1>3. PICK t : t = Shortened(s)
  OBVIOUS
<1>4. /\ t \in Seq(Entry) /\ Len(t) = m /\ t[m].len = 1
      /\ \A k \in 1..m : t[k].ino = s[k].ino
      /\ \A k \in 1..m : k # m => t[k].len = s[k].len
  <2>1. PICK l \in Nat \ {0} : l = 1
    OBVIOUS
  <2>2. t = [s EXCEPT ![m].len = l] /\ m \in 1..Len(s)
    BY <1>1, <1>2, <1>3, <2>1 DEF Shortened
  <2>3. Resized(t, s, m, l)
    BY <2>2, EntryResized
  <2> QED
    BY <1>1, <2>1, <2>3 DEF Resized
<1>5. /\ r \in Seq(Entry) /\ Len(r) = m + 1 /\ r[m + 1] = e
      /\ \A k \in 1..m : r[k] = t[k]
  BY <1>3, <1>4, AppendProperties
<1>6. /\ \A k \in 1..m : r[k].ino = s[k].ino
      /\ \A k \in 1..m : k # m => r[k].len = s[k].len
      /\ r[m].len = 1 /\ r[m + 1].len = s[m].len - 1 /\ s[m].len >= 2
  BY <1>1, <1>2, <1>4, <1>5
<1>7. Fits(s) => Fits(r)
  <2>1. PICK f : f = [k \in 1..m |-> s[k].len]
    OBVIOUS
  <2>2. PICK h : h = [k \in 1..(m + 1) |-> r[k].len]
    OBVIOUS
  <2>3. \A k \in 1..(m + 1) : r[k].len \in Nat
    <3>1. \A k \in 1..(m + 1) : r[k] \in Entry
      BY <1>5
    <3> QED
      BY <3>1, LensAreNat
  <2>4. f \in [1..m -> Nat] /\ h \in [1..(m + 1) -> Nat]
    BY <1>2, <2>1, <2>2, <2>3
  <2>5. /\ f[m] >= 2 /\ h[m] = 1 /\ h[m + 1] = f[m] - 1
        /\ \A k \in 1..m : k # m => h[k] = f[k]
    <3>1. /\ \A k \in 1..m : f[k] = s[k].len
          /\ \A k \in 1..m : h[k] = r[k].len
          /\ h[m + 1] = r[m + 1].len
      <4>1. m + 1 \in 1..(m + 1) /\ \A k \in 1..m : k \in 1..(m + 1)
        OBVIOUS
      <4> QED
        BY <2>1, <2>2, <4>1
    <3> QED
      BY <1>2, <1>6, <3>1
  <2>6. Laid(f, m) => Laid(h, m + 1)
    BY <2>4, <2>5, LaidWithOneMore
  <2> QED
    BY <1>1, <1>5, <2>1, <2>2, <2>6 DEF Fits
<1> QED
  BY <1>1, <1>5, <1>6, <1>7

\* A directory with its entry k less.
Shrunk(s, r, k) ==
  /\ k \in 2..Len(s) /\ r \in Seq(Entry) /\ Len(r) = Len(s) - 1
  /\ \A j \in 1..Len(r) : r[j].ino = s[IF j < k THEN j ELSE j + 1].ino
  /\ Fits(s) => Fits(r)

Widened(s, k) == [s EXCEPT ![k - 1].len = @ + s[k].len]

LEMMA PlaceBehind ==
  ASSUME NEW m \in Nat, NEW k \in 2..m, NEW j \in 1..(m - 1), ~(j < k)
  PROVE  j - (k - 1) \in 1..(m - k) /\ k + (j - (k - 1)) = j + 1 /\ ~(j <= k - 1)
  OBVIOUS

LEMMA EntryRemoved ==
  ASSUME NEW s \in Seq(Entry), NEW k \in 2..Len(s),
         NEW r, r = RemoveAt(Widened(s, k), k)
  PROVE  Shrunk(s, r, k)
<1>1. PICK m \in Nat : m = Len(s)
  OBVIOUS
<1>2. k \in 2..m /\ k - 1 \in 1..m /\ \A j \in 1..m : s[j] \in Entry /\ s[j].len \in Nat \ {0}
  <2>1. k \in 2..m /\ k - 1 \in 1..m /\ \A j \in 1..m : s[j] \in Entry
    BY <1>1
  <2> QED
    BY <2>1, LensAreNat
<1>3. PICK t : t = Widened(s, k)
  OBVIOUS
<1>4. PICK l \in Nat \ {0} : l = s[k - 1].len + s[k].len
  BY <1>2
<1>5. /\ t \in Seq(Entry) /\ Len(t) = m /\ t[k - 1].len = l
      /\ \A j \in 1..m : t[j] \in Entry /\ t[j].ino = s[j].ino
      /\ \A j \in 1..m : j # k - 1 => t[j].len = s[j].len
  <2>1. t = [s EXCEPT ![k - 1].len = l]
    BY <1>3, <1>4 DEF Widened
  <2> QED
    <3>1. k - 1 \in 1..Len(s)
      BY <1>1, <1>2
    <3>2. Resized(t, s, k - 1, l)
      BY <2>1, <3>1, EntryResized
    <3> QED
      BY <1>1, <3>2 DEF Resized
<1>7. PICK a : a = SubSeq(t, 1, k - 1)
  OBVIOUS
<1>8. PICK b : b = SubSeq(t, k + 1, m)
  OBVIOUS
<1>9. a \in Seq(Entry) /\ Len(a) = k - 1 /\ \A j \in 1..(k - 1) : a[j] = t[j]
  BY <1>2, <1>5, <1>7, SubSeqProperties
<1>10. /\ b \in Seq(Entry) /\ Len(b) = m - k
       /\ \A j \in 1..(m - k) : b[j] = t[k + j]
  BY <1>2, <1>5, <1>8, SubSeqProperties
<1>11. /\ r \in Seq(Entry) /\ Len(r) = m - 1
       /\ \A j \in 1..(m - 1) : r[j] = IF j <= k - 1 THEN a[j] ELSE b[j - (k - 1)]
  <2>1. r = a \o b
    BY <1>3, <1>5, <1>7, <1>8 DEF RemoveAt
  <2>2. (k - 1) + (m - k) = m - 1 /\ Len(a) + Len(b) = m - 1
    BY <1>2, <1>9, <1>10
  <2>3. /\ r \in Seq(Entry) /\ Len(r) = Len(a) + Len(b)
        /\ \A j \in 1..(Len(a) + Len(b)) : r[j] = IF j <= Len(a) THEN a[j] ELSE b[j - Len(a)]
    <3>1. a \in Seq(Entry) /\ b \in Seq(Entry)
      BY <1>9, <1>10
    <3> QED
      BY <2>1, <3>1, ConcatProperties
  <2> QED
    BY <1>9, <2>2, <2>3
<1>12. \A j \in 1..(m - 1) : r[j] = t[IF j < k THEN j ELSE j + 1]
  <2> TAKE j \in 1..(m - 1)
  <2>1. CASE j < k
    <3>1. j \in 1..(k - 1) /\ j <= k - 1
      BY <1>2, <2>1
    <3> QED
      BY <1>9, <1>11, <2>1, <3>1
  <2>2. CASE ~(j < k)
    <3>1. j - (k - 1) \in 1..(m - k) /\ k + (j - (k - 1)) = j + 1 /\ ~(j <= k - 1)
      BY <1>2, <2>2, PlaceBehind
    <3> QED
      BY <1>10, <1>11, <2>2, <3>1
  <2> QED
    BY <2>1, <2>2
<1>13. \A j \in 1..(m - 1) : r[j].ino = s[IF j < k THEN j ELSE j + 1].ino
  <2> TAKE j \in 1..(m - 1)
  <2>1. (IF j < k THEN j ELSE j + 1) \in 1..m
    BY <1>2
  <2> QED
    BY <1>5, <1>12, <2>1
<1>14. /\ \A j \in 1..(m - 1) : j < k - 1 => r[j].len = s[j].len
       /\ r[k - 1].len = s[k - 1].len + s[k].len
       /\ \A j \in 1..(m - 1) : j > k - 1 => r[j].len = s[j + 1].len
  <2>1. ASSUME NEW j \in 1..(m - 1), j < k - 1 PROVE r[j].len = s[j].len
    BY <1>2, <1>5, <1>12, <2>1
  <2>2. r[k - 1].len = s[k - 1].len + s[k].len
    <3>1. k - 1 \in 1..(m - 1) /\ k - 1 < k
      BY <1>2
    <3> QED
      BY <1>4, <1>5, <1>12, <3>1
  <2>3. ASSUME NEW j \in 1..(m - 1), j > k - 1 PROVE r[j].len = s[j + 1].len
    <3>1. ~(j < k) /\ j + 1 \in 1..m /\ j + 1 # k - 1
      BY <1>2, <2>3
    <3> QED
      BY <1>5, <1>12, <3>1
  <2> QED
    BY <2>1, <2>2, <2>3
<1>15. Fits(s) => Fits(r)
  <2>1. PICK f : f = [j \in 1..m |-> s[j].len]
    OBVIOUS
  <2>2. PICK h : h = [j \in 1..(m - 1) |-> r[j].len]
    OBVIOUS
  <2>3. \A j \in 1..(m - 1) : r[j].len \in Nat
    <3>1. \A j \in 1..(m - 1) : r[j] \in Entry
      BY <1>11
    <3> QED
      BY <3>1, LensAreNat
  <2>4. f \in [1..m -> Nat] /\ h \in [1..(m - 1) -> Nat]
    BY <1>2, <2>1, <2>2, <2>3
  <2>5. /\ \A j \in 1..(m - 1) : j < k - 1 => h[j] = f[j]
        /\ h[k - 1] = f[k - 1] + f[k]
        /\ \A j \in 1..(m - 1) : j > k - 1 => h[j] = f[j + 1]
    BY <1>2, <1>14, <2>1, <2>2
  <2>6. Laid(f, m) => Laid(h, m - 1)
    BY <1>2, <2>4, <2>5, LaidWithOneLess
  <2> QED
    BY <1>1, <1>11, <2>1, <2>2, <2>6 DEF Fits
<1> QED
  BY <1>1, <1>2, <1>11, <1>13, <1>15 DEF Shrunk

-----------------------------------------------------------------------------
\* Types: one step for every action.
Types == DiskTypes /\ MemoryTypes /\ RecordsFit /\ CallFits

LEMMA NoOpIsLocals ==
  /\ NoOp \in Locals /\ NoOp.kind = "none" /\ NoOp.ino = 0 /\ NoOp.list = <<>>
  BY DEF NoOp, Locals

LEMMA LetGoTypes ==
  ASSUME DiskTypes, MemoryTypes, NEW kept \in SUBSET Ino, LetGo(kept)
  PROVE  cut' \subseteq Ino /\ unmarked' \subseteq Block
<1>1. \A i \in Ino : inode[i].pointers \in Pointers
  BY DEF DiskTypes
<1>2. \A i \in Ino : PointerBlocks(inode[i].pointers) \subseteq Block
  BY <1>1, PointersType
<1> QED
  BY <1>2 DEF LetGo, MemoryTypes

Idle == stage' = "idle" /\ op' = NoOp

LEMMA Returned ==
  ASSUME DiskTypes, MemoryTypes, NEW kept \in SUBSET Ino, Return(kept)
  PROVE  Idle /\ op' \in Locals /\ CallFits' /\ cut' \subseteq Ino /\ unmarked' \subseteq Block
<1>1. Idle /\ LetGo(kept)
  BY DEF Return, Idle
<1>2. op' \in Locals /\ op'.kind = "none"
  BY <1>1, NoOpIsLocals DEF Idle
<1>3. CallFits'
  BY <1>1, <1>2 DEF Idle, CallFits, Making, Deleting
<1> QED
  BY <1>1, <1>2, <1>3, LetGoTypes

LEMMA KeptIsInode ==
  ASSUME CallFits
  PROVE  Kept \in SUBSET Ino
  BY DEF CallFits, Kept, Deleting

LEMMA DiskTypesStay ==
  ASSUME DiskTypes, RecordsFit, UNCHANGED disk
  PROVE  DiskTypes' /\ RecordsFit'
  BY DEF DiskTypes, RecordsFit, disk

\* ext2_allocate_inode gives up, or takes a bit that was clear.
GivesUp == Return({}) /\ UNCHANGED <<disk, counts, loose>> /\ fault' \in {fault, "read"}

TakesInode(g, i, written) ==
  /\ BitmapWrite(written)
  /\ imap' = IF written THEN [imap EXCEPT ![g] = @ \cup {i}] ELSE imap
  /\ ifree' = [ifree EXCEPT ![g] = @ - 1]
  /\ loose' = IF g > 0 \/ ~written THEN loose \cup {i} ELSE loose
  /\ op' = [op EXCEPT !.ino = i]
  /\ stage = "ialloc" /\ stage' = "iinit"
  /\ UNCHANGED <<bitmap, inode, content, free, unmarked, cut>>

LEMMA AllocateInodeIs ==
  ASSUME Types, NEW written \in BOOLEAN, AllocateInode(written)
  PROVE  \/ GivesUp
         \/ \E g \in Group : \E i \in Ino \ imap[g] : ifree[g] > 0 /\ TakesInode(g, i, written)
<1> DEFINE with == {g \in Group : ifree[g] > 0}
           first == Min(with)
           clear == ClearInodes(first)
<1>1. CASE with = {} \/ clear = {}
  BY <1>1 DEF AllocateInode, GivesUp
<1>2. CASE with # {} /\ clear # {}
  <2>1. PICK g \in Group : g = Min(with) /\ ifree[g] > 0
    <3>1. with \subseteq Nat
      BY Numbers
    <3> QED
      BY <1>2, <3>1, MinIsLeast
  <2>2. PICK i \in Ino \ imap[g] : i = Min(ClearInodes(g))
    <3>1. clear \subseteq Nat /\ clear = Ino \ imap[g]
      BY <2>1, Numbers DEF ClearInodes
    <3> QED
      BY <1>2, <2>1, <3>1, MinIsLeast
  <2>3. TakesInode(g, i, written)
    BY <1>2, <2>1, <2>2 DEF AllocateInode, TakesInode
  <2> QED
    BY <2>1, <2>2, <2>3
<1> QED
  BY <1>1, <1>2

LEMMA GivesUpTypes ==
  ASSUME Types, GivesUp, UNCHANGED calls
  PROVE  Types' /\ Idle
<1> USE DEF Types
<1>1. Idle /\ op' \in Locals /\ CallFits' /\ cut' \subseteq Ino /\ unmarked' \subseteq Block
  BY Returned DEF GivesUp
<1>2. UNCHANGED <<disk, counts, loose>> /\ fault' \in Faults
  BY DEF GivesUp, MemoryTypes, Faults
<1> QED
  BY <1>1, <1>2, DiskTypesStay DEF MemoryTypes, counts, Idle

LEMMA AllocateInodeTypes ==
  ASSUME Types, NEW written \in BOOLEAN, AllocateInode(written), UNCHANGED calls
  PROVE  Types'
<1> USE DEF Types
<1>1. CASE GivesUp
  BY <1>1, GivesUpTypes
<1>2. ASSUME NEW g \in Group, NEW i \in Ino \ imap[g], ifree[g] > 0, TakesInode(g, i, written)
      PROVE  Types'
  <2>1. op' \in Locals /\ op'.ino = i /\ op'.kind = op.kind /\ op'.parent = op.parent /\ op'.path = op.path
    BY <1>2 DEF MemoryTypes, Locals, TakesInode
  <2>2. imap' \in [Group -> SUBSET Ino]
    BY <1>2 DEF DiskTypes, TakesInode
  <2>3. ifree' \in [Group -> Nat]
    BY <1>2 DEF MemoryTypes, TakesInode
  <2>4. loose' \subseteq Ino /\ fault' \in Faults
    BY <1>2 DEF MemoryTypes, BitmapWrite, TakesInode, Faults
  <2>5. CallFits'
    BY <1>2, <2>1 DEF CallFits, Making, Deleting, TakesInode
  <2>6. DiskTypes' /\ RecordsFit'
    BY <1>2, <2>2 DEF DiskTypes, RecordsFit, TakesInode
  <2>7. MemoryTypes'
    BY <1>2, <2>1, <2>3, <2>4 DEF MemoryTypes, TakesInode
  <2> QED
    BY <2>5, <2>6, <2>7
<1> QED
  BY <1>1, <1>2, AllocateInodeIs

LEMMA BeginTypes ==
  ASSUME Types, NEW step, step \in {"ialloc", "balloc", "data", "bfree"},
         NEW locals \in Locals, NEW kept \in SUBSET Ino, Begin(step, locals, kept),
         step = "ialloc" => locals.kind \in {"file", "dir"},
         step \in {"balloc", "data"} => locals.kind = "write",
         step = "bfree" => locals.kind = "none",
         step # "ialloc" => locals.ino \in Ino,
         locals.kind \in {"file", "dir"} => locals.parent \in Ino /\ locals.path \in Path
  PROVE  Types'
<1> USE DEF Types
<1>1. /\ calls' = calls + 1 /\ calls < MaxCalls /\ stage' = step /\ op' = locals
      /\ LetGo(kept) /\ UNCHANGED <<disk, counts, loose, fault>>
  BY DEF Begin
<1>2. cut' \subseteq Ino /\ unmarked' \subseteq Block
  BY <1>1, LetGoTypes
<1>3. CallFits'
  BY <1>1 DEF CallFits, Making, Deleting
<1>4. calls' \in 0..MaxCalls
  BY <1>1, Ext2Assumption DEF MemoryTypes
<1>5. MemoryTypes'
  BY <1>1, <1>2, <1>4 DEF MemoryTypes, counts
<1> QED
  BY <1>1, <1>3, <1>5, DiskTypesStay

LEMMA PathsAreSeqs ==
  ASSUME NEW path \in Path \cup {<<Image.name>>}
  PROVE  /\ path \in Seq(ToSet(path)) /\ path # <<>>
         /\ Front(path) \in Seq(ToSet(path))
<1>1. path \in Seq(ToSet(path)) /\ path # <<>>
  <2>1. CASE path \in Path
    BY <2>1, PathsAssumption
  <2>2. CASE path = <<Image.name>>
    BY <2>2 DEF ToSet
  <2> QED
    BY <2>1, <2>2
<1> QED
  BY <1>1, FrontOfSeq

LEMMA CreateFileTypes ==
  ASSUME Types, NEW path \in Path, NEW kind \in {"file", "dir"}, CreateFile(path, kind)
  PROVE  Types'
<1> DEFINE parent == Lookup(Front(path))
           locals == [NoOp EXCEPT !.path = path, !.kind = kind, !.parent = parent]
<1>1. parent \in Ino /\ Begin("ialloc", locals, {})
  <2>1. parent \in Ino \cup {0}
    BY PathsAreSeqs, LookupType DEF Types
  <2> QED
    BY <2>1 DEF CreateFile
<1>2. locals \in Locals /\ locals.kind = kind /\ locals.parent = parent /\ locals.path = path
  BY <1>1, NoOpIsLocals DEF Locals
<1> HIDE DEF locals, parent
<1> QED
  BY <1>1, <1>2, BeginTypes

LEMMA WriteFileTypes ==
  ASSUME Types, NEW path \in Path, NEW size \in Sizes, WriteFile(path, size)
  PROVE  Types'
<1>1. PICK i : i = Lookup(path)
  OBVIOUS
<1>2. i \in Ino
  <2>1. i \in Ino \cup {0}
    BY <1>1, PathsAreSeqs, LookupType DEF Types
  <2> QED
    BY <1>1, <2>1 DEF WriteFile
<1>3. PICK old : old = inode[i].pointers.direct
  OBVIOUS
<1>4. PICK need : need = BlocksFor(size - inode[i].size)
  OBVIOUS
<1>5. old \in Seq(Block) /\ need \in Int /\ size \in Nat
  <2>1. inode[i].pointers \in Pointers /\ inode[i].size \in Nat
    BY <1>2 DEF Types, DiskTypes
  <2>2. size \in Nat
    BY Ext2Assumption
  <2>3. need \in Int
    BY <1>4, <2>1, <2>2, BlocksAssumption DEF BlocksFor
  <2> QED
    BY <1>3, <2>1, <2>2, <2>3, PointersType
<1> DEFINE write == [NoOp EXCEPT !.path = path, !.kind = "write", !.ino = i]
           grow == [write EXCEPT !.need = need, !.size = size, !.list = old]
<1>6. \/ Begin("balloc", grow, {i} \ (InUse \cup cut))
      \/ Begin("data", write, {})
  BY <1>1, <1>3, <1>4 DEF WriteFile
<1>7. write \in Locals /\ write.kind = "write" /\ write.ino = i
  BY <1>2, NoOpIsLocals DEF Locals
<1>8. grow \in Locals /\ grow.kind = "write" /\ grow.ino = i
  BY <1>2, <1>5 DEF NoOp, Locals
<1>9. PICK kept : kept = {i} \ (InUse \cup cut)
  OBVIOUS
<1>10. kept \in SUBSET Ino
  BY <1>2, <1>9
<1> HIDE DEF write, grow
<1>11. CASE Begin("balloc", grow, kept)
  BY <1>2, <1>8, <1>10, <1>11, BeginTypes
<1>12. CASE Begin("data", write, {})
  BY <1>2, <1>7, <1>12, BeginTypes
<1> QED
  BY <1>6, <1>9, <1>11, <1>12

LEMMA DeleteFileTypes ==
  ASSUME Types, NEW path \in Path \cup {<<Image.name>>}, DeleteFile(path)
  PROVE  Types'
<1>1. PICK i : i = Lookup(path)
  OBVIOUS
<1>2. i \in Ino
  <2>1. i \in Ino \cup {0}
    BY <1>1, PathsAreSeqs, LookupType DEF Types
  <2> QED
    BY <1>1, <2>1 DEF DeleteFile
<1>3. PICK list : list = LoadBlockList(inode[i].pointers, inode[i].size)
  OBVIOUS
<1>4. list \in Seq(Block)
  <2>1. inode[i].pointers \in Pointers /\ inode[i].size \in Nat
    BY <1>2 DEF Types, DiskTypes
  <2> QED
    BY <1>3, <2>1, LoadedList
<1> DEFINE locals == [NoOp EXCEPT !.path = path, !.ino = i, !.list = list]
<1>5. Begin("bfree", locals, {})
  BY <1>1, <1>3 DEF DeleteFile
<1>6. locals \in Locals /\ locals.kind = "none" /\ locals.ino = i
  BY <1>2, <1>4, NoOpIsLocals DEF Locals
<1> HIDE DEF locals
<1> QED
  BY <1>2, <1>5, <1>6, BeginTypes

\* ext2_allocate_block gives up, or takes the first block that was clear in a
\* group that counts one.
TakesBlock(b, seen, written) ==
  /\ \E h \in Group : BitmapRead(h, seen, written)
  /\ WriteBitmap(GroupOfBlock(b), seen \cup {b}, written)
  /\ free' = [free EXCEPT ![GroupOfBlock(b)] = @ - 1]
  /\ unmarked' = unmarked \cup LostMarks(seen)
       \cup (IF b \in bitmap' \ (bitmap \ seen) THEN {} ELSE {b})
  /\ op' = [op EXCEPT !.need = @ - 1, !.list = Append(@, b)]
  /\ stage = "balloc" /\ stage' \in {"iwrite", "balloc", "astray"}
  /\ UNCHANGED <<imap, inode, content, ifree, loose, cut>>

\* A mark that is in what is written is there afterwards.
LEMMA WrittenBitmap ==
  ASSUME Types, NEW g, NEW made, NEW written, WriteBitmap(g, made, written)
  PROVE  /\ bitmap' \subseteq Block
         /\ bitmap \cap made \subseteq bitmap'
  BY DEF WriteBitmap, Written, BlocksIn, Types, DiskTypes

LEMMA BitmapReadFault ==
  ASSUME NEW g, NEW seen, NEW written, BitmapRead(g, seen, written)
  PROVE  /\ seen # bitmap => fault' = "read"
         /\ fault' \in {fault, "write", "read"}
         /\ written => fault' \in {fault, "read"}
         /\ fault' # "read" /\ ~written => fault' = "write"
  BY DEF BitmapRead, BitmapWrite

LEMMA AllocateBlockIs ==
  ASSUME NEW seen, NEW written \in BOOLEAN, AllocateBlock(seen, written)
  PROVE  \/ GivesUp
         \/ \E b \in AllocatableBlocks(seen) : /\ \A c \in AllocatableBlocks(seen) : b <= c
                                               /\ TakesBlock(b, seen, written)
<1>0. PICK h \in Group : BitmapRead(h, seen, written)
  BY DEF AllocateBlock
<1>1. CASE AllocatableBlocks(seen) = {}
  BY <1>0, <1>1, BitmapReadFault DEF AllocateBlock, GivesUp
<1>2. CASE AllocatableBlocks(seen) # {}
  <2>1. PICK b : b = Min(AllocatableBlocks(seen))
    OBVIOUS
  <2>2. b \in AllocatableBlocks(seen) /\ \A c \in AllocatableBlocks(seen) : b <= c
    <3>1. AllocatableBlocks(seen) \subseteq Nat
      BY Numbers DEF AllocatableBlocks
    <3> QED
      BY <1>2, <2>1, <3>1, MinIsLeast
  <2>3. TakesBlock(b, seen, written)
    BY <1>0, <1>2, <2>1 DEF AllocateBlock, TakesBlock
  <2> QED
    BY <2>2, <2>3
<1> QED
  BY <1>1, <1>2

LEMMA AllocateBlockTypes ==
  ASSUME Types, NEW seen, NEW written \in BOOLEAN, AllocateBlock(seen, written), UNCHANGED calls
  PROVE  Types'
<1> USE DEF Types
<1>1. CASE GivesUp
  BY <1>1, GivesUpTypes
<1>2. ASSUME NEW b \in AllocatableBlocks(seen), TakesBlock(b, seen, written) PROVE Types'
  <2>1. b \in Block /\ GroupOfBlock(b) \in Group /\ free[GroupOfBlock(b)] > 0
    BY Numbers DEF AllocatableBlocks
  <2>2. Append(op.list, b) \in Seq(Block)
    BY <2>1 DEF MemoryTypes, Locals
  <2>3. op' \in Locals /\ op'.ino = op.ino /\ op'.kind = op.kind /\ op'.parent = op.parent
        /\ op'.path = op.path
    <3>1. PICK l \in Seq(Block) : l = Append(op.list, b)
      BY <2>2
    <3>2. op \in Locals /\ op' = [op EXCEPT !.need = op.need - 1, !.list = l]
      BY <1>2, <3>1 DEF MemoryTypes, TakesBlock
    <3>3. PICK k \in Int : k = op.need - 1
      BY <3>2 DEF Locals
    <3> QED
      BY <3>2, <3>3 DEF Locals
  <2>4. free' \in [Group -> Nat]
    BY <1>2, <2>1 DEF MemoryTypes, TakesBlock
  <2>5. unmarked' \subseteq Block /\ bitmap' \subseteq Block
    <3>1. bitmap' \subseteq Block
      BY <1>2, WrittenBitmap DEF TakesBlock
    <3>2. LostMarks(seen) \subseteq Block
      BY DEF LostMarks, DiskTypes
    <3> QED
      BY <1>2, <2>1, <3>1, <3>2 DEF MemoryTypes, TakesBlock
  <2>6. fault' \in Faults
    BY <1>2, BitmapReadFault DEF MemoryTypes, Faults, TakesBlock
  <2>7. stage = "balloc" /\ stage' \in {"iwrite", "balloc", "astray"}
    BY <1>2 DEF TakesBlock
  <2>8. CallFits'
    BY <2>3, <2>7 DEF CallFits, Making, Deleting
  <2>9. DiskTypes' /\ RecordsFit'
    BY <1>2, <2>5 DEF DiskTypes, RecordsFit, TakesBlock
  <2>10. MemoryTypes'
    BY <1>2, <2>3, <2>4, <2>5, <2>6, <2>7 DEF MemoryTypes, TakesBlock
  <2> QED
    BY <2>8, <2>9, <2>10
<1> QED
  BY <1>1, <1>2, AllocateBlockIs

\* ext2_deallocate_block gives up on a clear bit, or clears the bit.
FreesBlock(b, seen, written) ==
  /\ BitmapRead(GroupOfBlock(b), seen, written)
  /\ WriteBitmap(GroupOfBlock(b), seen \ {b}, written)
  /\ free' = [free EXCEPT ![GroupOfBlock(b)] = @ + 1]
  /\ unmarked' = unmarked \cup LostMarks(seen)
  /\ op' = [op EXCEPT !.list = Front(@)]
  /\ stage' = IF Len(op.list) = 1 THEN "izero" ELSE "bfree"
  /\ UNCHANGED <<imap, inode, content, ifree, loose, cut>>

StopsFreeing ==
  Return(Kept) /\ UNCHANGED <<disk, counts, loose>> /\ fault' \in {fault, "read"}

LEMMA DeallocateBlockIs ==
  ASSUME Types, OwnerFits, NEW seen, NEW written \in BOOLEAN, DeallocateBlock(seen, written)
  PROVE  /\ stage = "bfree"
         /\ \/ StopsFreeing
            \/ \E b \in Block \cap ToSet(op.list) : b \in seen /\ FreesBlock(b, seen, written)
<1>1. stage = "bfree" /\ op.list # <<>> /\ op.list \in Seq(Block)
  BY DEF DeallocateBlock, OwnerFits, Types, MemoryTypes, Locals
<1>2. Last(op.list) \in ToSet(op.list) /\ ToSet(op.list) \subseteq Block
  BY <1>1, SetsOfSeqs
<1>3. CASE Last(op.list) \notin seen
  BY <1>1, <1>3, BitmapReadFault DEF DeallocateBlock, StopsFreeing
<1>4. CASE Last(op.list) \in seen
  BY <1>1, <1>2, <1>4 DEF DeallocateBlock, FreesBlock
<1> QED
  BY <1>3, <1>4

LEMMA DeallocateBlockTypes ==
  ASSUME Types, OwnerFits, NEW seen, NEW written \in BOOLEAN, DeallocateBlock(seen, written),
         UNCHANGED calls
  PROVE  Types'
<1> USE DEF Types
<1>1. CASE StopsFreeing
  <2>1. Idle /\ op' \in Locals /\ CallFits' /\ cut' \subseteq Ino /\ unmarked' \subseteq Block
    BY <1>1, KeptIsInode, Returned DEF StopsFreeing
  <2> QED
    BY <1>1, <2>1, DiskTypesStay DEF StopsFreeing, MemoryTypes, counts, Idle, Faults
<1>2. ASSUME NEW b \in Block, stage = "bfree", FreesBlock(b, seen, written) PROVE Types'
  <2>1. GroupOfBlock(b) \in Group
    BY Numbers
  <2>2. Front(op.list) \in Seq(Block)
    BY <1>2, FrontOfSeq DEF OwnerFits, MemoryTypes, Locals
  <2>3. op' \in Locals /\ op'.ino = op.ino /\ op'.kind = op.kind
    BY <1>2, <2>2 DEF MemoryTypes, Locals, FreesBlock
  <2>4. free' \in [Group -> Nat]
    BY <1>2, <2>1 DEF MemoryTypes, FreesBlock
  <2>5. bitmap' \subseteq Block /\ unmarked' \subseteq Block /\ fault' \in Faults
    <3>1. bitmap' \subseteq Block
      BY <1>2, WrittenBitmap DEF FreesBlock
    <3>2. LostMarks(seen) \subseteq Block
      BY DEF LostMarks, DiskTypes
    <3>3. fault' \in Faults
      BY <1>2, BitmapReadFault DEF MemoryTypes, Faults, FreesBlock
    <3> QED
      BY <1>2, <3>1, <3>2, <3>3 DEF MemoryTypes, FreesBlock
  <2>6. stage' \in {"izero", "bfree"}
    BY <1>2 DEF FreesBlock
  <2>7. CallFits'
    BY <1>2, <2>3, <2>6 DEF CallFits, Making, Deleting
  <2>8. DiskTypes' /\ RecordsFit'
    BY <1>2, <2>5 DEF DiskTypes, RecordsFit, FreesBlock
  <2>9. MemoryTypes'
    BY <1>2, <2>3, <2>4, <2>5, <2>6 DEF MemoryTypes, FreesBlock
  <2> QED
    BY <2>7, <2>8, <2>9
<1> QED
  BY <1>1, <1>2, DeallocateBlockIs

LEMMA InitializeInodeTypes ==
  ASSUME Types, InitializeInode, UNCHANGED calls
  PROVE  Types'
<1> USE DEF Types
<1>1. /\ stage = "iinit" /\ op.ino \in Ino /\ op.kind \in {"file", "dir"}
  BY DEF InitializeInode, CallFits, Making
<1>2. PICK new : new = [NoInode EXCEPT !.kind = op.kind]
  OBVIOUS
<1>3. new \in [kind : {"none", "file", "dir"}, size : Nat, pointers : Pointers]
  BY <1>1, <1>2, NoBlocks DEF NoInode
<1>4. inode' = [inode EXCEPT ![op.ino] = new] /\ UNCHANGED <<bitmap, imap, content, counts, history>>
  BY <1>2 DEF InitializeInode
<1>5. DiskTypes' /\ RecordsFit'
  BY <1>1, <1>3, <1>4 DEF DiskTypes, RecordsFit
<1>6. \/ /\ op.kind = "dir" /\ stage' = "balloc"
         /\ op' = [op EXCEPT !.need = 1, !.size = BlockSize]
      \/ op.kind = "file" /\ stage' = "link" /\ op' = op
  BY <1>1 DEF InitializeInode
<1>7. /\ op' \in Locals /\ op'.ino = op.ino /\ op'.kind = op.kind /\ op'.parent = op.parent
      /\ op'.path = op.path
  <2>1. op \in Locals
    BY DEF MemoryTypes
  <2>2. PICK size \in Nat : size = BlockSize
    BY BlocksAssumption
  <2>3. PICK need \in Int : need = 1
    OBVIOUS
  <2>4. CASE op' = [op EXCEPT !.need = need, !.size = size]
    BY <2>1, <2>4 DEF Locals
  <2> QED
    BY <1>6, <2>1, <2>2, <2>3, <2>4
<1>8. CallFits'
  BY <1>1, <1>6, <1>7 DEF CallFits, Making, Deleting
<1>9. MemoryTypes'
  BY <1>4, <1>6, <1>7 DEF MemoryTypes, counts, history
<1> QED
  BY <1>5, <1>8, <1>9

LEMMA WriteInodeTypes ==
  ASSUME Types, WriteInode, UNCHANGED calls
  PROVE  Types'
<1> USE DEF Types
<1>1. /\ stage = "iwrite" /\ op.ino \in Ino /\ op.kind \in {"dir", "write"}
      /\ op.list \in Seq(Block) /\ op.size \in Nat
  BY DEF WriteInode, CallFits, MemoryTypes, Locals
<1>2. PICK old : old = inode[op.ino]
  OBVIOUS
<1>3. old \in [kind : {"none", "file", "dir"}, size : Nat, pointers : Pointers]
  BY <1>1, <1>2 DEF DiskTypes
<1>4. PICK p : p = [old.pointers EXCEPT !.direct = op.list]
  OBVIOUS
<1>5. p \in Pointers
  BY <1>1, <1>3, <1>4 DEF Pointers
<1>6. PICK new : new = [old EXCEPT !.size = op.size, !.pointers = p]
  OBVIOUS
<1>7. DiskTypes' /\ RecordsFit'
  <2>1. inode' = [inode EXCEPT ![op.ino] = new]
    BY <1>1, <1>2, <1>4, <1>6 DEF WriteInode, DiskTypes
  <2>2. new \in [kind : {"none", "file", "dir"}, size : Nat, pointers : Pointers]
    BY <1>1, <1>3, <1>5, <1>6
  <2> QED
    BY <1>1, <2>1, <2>2 DEF WriteInode, DiskTypes, RecordsFit
<1>8. /\ stage' \in {"dots", "data"} /\ UNCHANGED <<op, counts, history>>
      /\ stage' = "dots" <=> op.kind = "dir"
  BY <1>1 DEF WriteInode
<1>9. CallFits'
  BY <1>1, <1>8 DEF CallFits, Making, Deleting
<1>10. MemoryTypes'
  BY <1>8 DEF MemoryTypes, counts, history
<1> QED
  BY <1>7, <1>9, <1>10

LEMMA ZeroInodeTypes ==
  ASSUME Types, ZeroInode, UNCHANGED calls
  PROVE  Types'
<1> USE DEF Types
<1>1. stage = "izero" /\ op.ino \in Ino
  BY DEF ZeroInode, CallFits
<1>2. PICK old : old = inode[op.ino]
  OBVIOUS
<1>3. old \in [kind : {"none", "file", "dir"}, size : Nat, pointers : Pointers]
  BY <1>1, <1>2 DEF DiskTypes
<1>4. inode' = [inode EXCEPT ![op.ino] = [old EXCEPT !.kind = "none", !.size = 0]]
  BY <1>1, <1>2 DEF ZeroInode, DiskTypes
<1>5. DiskTypes' /\ RecordsFit'
  BY <1>1, <1>3, <1>4 DEF ZeroInode, DiskTypes, RecordsFit
<1>6. stage' = "iclear" /\ UNCHANGED <<op, counts, history>>
  BY DEF ZeroInode
<1>7. CallFits'
  BY <1>1, <1>6 DEF CallFits, Making, Deleting
<1>8. MemoryTypes'
  BY <1>6 DEF MemoryTypes, counts, history
<1> QED
  BY <1>5, <1>7, <1>8

LEMMA ClearInodeBitTypes ==
  ASSUME Types, ClearInodeBit, UNCHANGED calls
  PROVE  Types'
<1> USE DEF Types
<1>1. PICK g : g = (op.ino - 1) \div GroupInodes
  OBVIOUS
<1>2. stage = "iclear" /\ op.ino \in Ino /\ g \in Group
  BY <1>1, Numbers DEF ClearInodeBit, CallFits
<1>3. /\ imap' = [imap EXCEPT ![g] = @ \ ClearedBits(op.ino)]
      /\ ifree' = [ifree EXCEPT ![g] = @ + 1]
      /\ loose' = loose \cup {i \in ClearedBits(op.ino) \cap imap[g] : inode[i].kind # "none"}
      /\ stage' = "unlink"
      /\ UNCHANGED <<bitmap, inode, content, free, op, unmarked, cut, fault>>
  BY <1>1 DEF ClearInodeBit
<1>4. imap' \in [Group -> SUBSET Ino] /\ ifree' \in [Group -> Nat] /\ loose' \subseteq Ino
  BY <1>2, <1>3 DEF DiskTypes, MemoryTypes
<1>5. DiskTypes' /\ RecordsFit'
  BY <1>3, <1>4 DEF DiskTypes, RecordsFit
<1>6. CallFits'
  BY <1>2, <1>3 DEF CallFits, Making, Deleting
<1>7. MemoryTypes'
  BY <1>3, <1>4 DEF MemoryTypes
<1> QED
  BY <1>5, <1>6, <1>7

LEMMA StepFailsTypes ==
  ASSUME Types, StepFails, UNCHANGED calls
  PROVE  Types'
<1> USE DEF Types
<1>1. Return(Kept) /\ fault' = "step" /\ UNCHANGED <<disk, counts, loose>>
  BY DEF StepFails
<1>2. Idle /\ op' \in Locals /\ CallFits' /\ cut' \subseteq Ino /\ unmarked' \subseteq Block
  BY <1>1, KeptIsInode, Returned
<1> QED
  BY <1>1, <1>2, DiskTypesStay DEF MemoryTypes, counts, Idle, Faults

\* A write of an inode that is lost: where the call goes, and with what.
LostMaking ==
  /\ stage = "iinit" /\ op.kind = "file" /\ stage' = "link" /\ op' = op
  /\ LetGo({op.ino})

LostDirectory ==
  /\ stage = "iinit" /\ op.kind = "dir" /\ stage' = "balloc"
  /\ op' = [op EXCEPT !.need = 1, !.size = BlockSize, !.list = inode[op.ino].pointers.direct]
  /\ LetGo({op.ino})

LostGrowth ==
  /\ stage = "iwrite" /\ stage' = (IF op.kind = "dir" THEN "link" ELSE "data") /\ op' = op
  /\ LetGo({})

LostDeletion ==
  stage = "izero" /\ stage' = "iclear" /\ op' = op /\ LetGo({op.ino})

LEMMA InodeWriteLostIs ==
  ASSUME InodeWriteLost
  PROVE  /\ LostMaking \/ LostDirectory \/ LostGrowth \/ LostDeletion
         /\ fault = "none" /\ fault' = "inode" /\ UNCHANGED <<disk, counts, loose>>
  BY DEF InodeWriteLost, LostMaking, LostDirectory, LostGrowth, LostDeletion

LEMMA LostDirectoryLocals ==
  ASSUME Types, LostDirectory
  PROVE  /\ op.ino \in Ino
         /\ op' \in Locals /\ op'.ino = op.ino /\ op'.kind = op.kind /\ op'.parent = op.parent
         /\ op'.path = op.path /\ op'.list = inode[op.ino].pointers.direct
<1>1. op \in Locals /\ op.ino \in Ino
  BY DEF Types, MemoryTypes, LostDirectory, CallFits
<1>2. PICK l \in Seq(Block) : l = inode[op.ino].pointers.direct
  BY <1>1 DEF Types, DiskTypes, Pointers
<1>3. PICK size \in Nat : size = BlockSize
  BY BlocksAssumption
<1>4. PICK need \in Int : need = 1
  OBVIOUS
<1>5. op' = [op EXCEPT !.need = need, !.size = size, !.list = l]
  BY <1>2, <1>3, <1>4 DEF LostDirectory
<1> QED
  BY <1>1, <1>2, <1>5 DEF Locals

LEMMA InodeWriteLostTypes ==
  ASSUME Types, InodeWriteLost, UNCHANGED calls
  PROVE  Types'
<1> USE DEF Types
<1>1. /\ LostMaking \/ LostDirectory \/ LostGrowth \/ LostDeletion
      /\ fault' = "inode" /\ UNCHANGED <<disk, counts, loose>>
  BY InodeWriteLostIs
<1>2. op.ino \in Ino
  BY <1>1 DEF LostMaking, LostDirectory, LostGrowth, LostDeletion, CallFits
<1>3. cut' \subseteq Ino /\ unmarked' \subseteq Block
  <2>1. PICK kept \in SUBSET Ino : LetGo(kept)
    BY <1>1, <1>2 DEF LostMaking, LostDirectory, LostGrowth, LostDeletion
  <2> QED
    BY <2>1, LetGoTypes
<1>4. /\ op' \in Locals /\ op'.ino = op.ino /\ op'.kind = op.kind /\ op'.parent = op.parent
      /\ op'.path = op.path
  BY <1>1, LostDirectoryLocals DEF LostMaking, LostGrowth, LostDeletion, MemoryTypes
<1>5. /\ stage' \in {"link", "balloc", "data", "iclear"}
      /\ stage' = "link" => Making
      /\ stage' = "balloc" => op.kind = "dir"
      /\ stage' = "data" => op.kind = "write"
      /\ stage' = "iclear" => op.kind = "none"
      /\ Making => stage' # "data" /\ stage' # "iclear"
  BY <1>1 DEF LostMaking, LostDirectory, LostGrowth, LostDeletion, CallFits, Making, Deleting
<1>6. CallFits'
  BY <1>2, <1>4, <1>5 DEF CallFits, Making, Deleting
<1>7. MemoryTypes'
  BY <1>1, <1>3, <1>4, <1>5 DEF MemoryTypes, counts, Faults
<1> QED
  BY <1>1, <1>6, <1>7, DiskTypesStay

LEMMA FormatCounts == FormatFree \in [Group -> Nat] /\ FormatInodesFree \in [Group -> Nat]
<1>1. \A g \in Group : Cardinality({b \in Block \ FormatBlocks : GroupOfBlock(b) = g}) \in Nat
  <2> TAKE g \in Group
  <2>1. IsFiniteSet({b \in Block \ FormatBlocks : GroupOfBlock(b) = g})
    BY Numbers, FS_Subset
  <2> QED
    BY <2>1, FS_CardinalityType
<1>2. \A g \in Group : Cardinality(Ino \ FormatInodes(g)) \in Nat
  <2> TAKE g \in Group
  <2>1. PICK k : k = Groups * GroupInodes
    OBVIOUS
  <2>2. k \in Nat /\ Ino = 1..k
    BY <2>1, Ext2Assumption DEF Ino
  <2>3. Ino \ FormatInodes(g) \in SUBSET (1..k)
    BY <2>2
  <2> QED
    BY <2>2, <2>3, SubsetsAreFinite
<1> QED
  BY <1>1, <1>2 DEF FormatFree, FormatInodesFree

LEMMA RebootTypes ==
  ASSUME Types, Reboot, UNCHANGED calls
  PROVE  Types'
<1> USE DEF Types
<1>1. /\ Return(Kept) /\ fault' = "reboot" /\ UNCHANGED <<disk, loose>>
      /\ free' = FormatFree /\ ifree' = FormatInodesFree
  BY DEF Reboot
<1>2. Idle /\ op' \in Locals /\ CallFits' /\ cut' \subseteq Ino /\ unmarked' \subseteq Block
  BY <1>1, KeptIsInode, Returned
<1> QED
  BY <1>1, <1>2, DiskTypesStay, FormatCounts DEF MemoryTypes, Idle, Faults

LEMMA DotsFit ==
  ASSUME NEW i \in Ino
  PROVE  Dots(i) \in Seq(Entry) /\ Len(Dots(i)) = 1 /\ Fits(Dots(i))
<1>1. PICK e : e = [name |-> <<".">>, ino |-> i, len |-> DirSlots]
  OBVIOUS
<1>2. e \in Entry /\ e.len = DirSlots /\ DirSlots \in Nat
  BY <1>1, Ext2Assumption DEF Entry, Name
<1>3. Dots(i) = <<e>>
  BY <1>1 DEF Dots
<1>4. Dots(i) \in Seq(Entry) /\ Len(Dots(i)) = 1 /\ Dots(i)[1] = e
  BY <1>2, <1>3
<1>5. PICK at : at = [k \in 1..2 |-> IF k = 1 THEN 0 ELSE DirSlots]
  OBVIOUS
<1>6. at \in [1..(1 + 1) -> 0..DirSlots] /\ at[1] = 0 /\ at[1 + 1] = DirSlots
  BY <1>2, <1>5
<1>7. PICK lens : lens = [k \in 1..1 |-> Dots(i)[k].len]
  OBVIOUS
<1>8. lens[1] = DirSlots
  BY <1>2, <1>4, <1>7
<1>9. \A k \in 1..1 : at[k + 1] = at[k] + lens[k]
  BY <1>2, <1>6, <1>8
<1>10. Laid(lens, 1)
  BY <1>6, <1>9 DEF Laid
<1> QED
  BY <1>4, <1>7, <1>10 DEF Fits

LEMMA InitializeDirectoryIs ==
  ASSUME Types, InitializeDirectory
  PROVE  /\ \A b \in Block : content'[b] = content[b] \/ content'[b] = Dots(op.ino)
         /\ content' = [b \in Block |-> content'[b]]
         /\ op.ino \in Ino
<1>1. op.ino \in Ino
  BY DEF Types, InitializeDirectory, CallFits
<1>2. content' = [content EXCEPT ![op.list[1]] = Dots(op.ino)] /\ DOMAIN content = Block
  BY DEF Types, InitializeDirectory, DiskTypes
<1>3. PICK x : x = op.list[1]
  OBVIOUS
<1>4. PICK y : y = Dots(op.ino)
  OBVIOUS
<1>5. content' = [content EXCEPT ![x] = y]
  BY <1>2, <1>3, <1>4
<1> QED
  BY <1>1, <1>2, <1>4, <1>5

LEMMA InitializeDirectoryTypes ==
  ASSUME Types, InitializeDirectory, UNCHANGED calls
  PROVE  Types'
<1> USE DEF Types
<1>1. /\ \A b \in Block : content'[b] = content[b] \/ content'[b] = Dots(op.ino)
      /\ content' = [b \in Block |-> content'[b]]
      /\ op.ino \in Ino
  BY InitializeDirectoryIs
<1>2. \A b \in Block : content'[b] \in Seq(Entry) /\ Fits(content'[b])
  <2>1. Dots(op.ino) \in Seq(Entry) /\ Fits(Dots(op.ino))
    BY <1>1, DotsFit
  <2>2. \A b \in Block : content[b] \in Seq(Entry) /\ Fits(content[b])
    BY DEF DiskTypes, RecordsFit
  <2> QED
    BY <1>1, <2>1, <2>2
<1>3. /\ stage = "dots" /\ stage' = "link" /\ UNCHANGED <<bitmap, imap, inode, counts, op, history>>
  BY DEF InitializeDirectory
<1>4. DiskTypes' /\ RecordsFit'
  <2>1. content' \in [Block -> Seq(Entry)]
    BY <1>1, <1>2
  <2>2. RecordsFit'
    BY <1>2 DEF RecordsFit
  <2> QED
    BY <1>3, <2>1, <2>2 DEF DiskTypes
<1>5. CallFits'
  BY <1>3 DEF CallFits, Making, Deleting
<1>6. MemoryTypes'
  BY <1>3 DEF MemoryTypes, counts, history
<1> QED
  BY <1>4, <1>5, <1>6

LEMMA NothingFits == Fits(<<>>)
<1>1. PICK at : at = [k \in 1..(0 + 1) |-> 0]
  OBVIOUS
<1>2. at \in [1..(0 + 1) -> 0..DirSlots]
  BY <1>1, Ext2Assumption
<1>3. Len(<<>>) = 0 /\ \A k \in 1..0 : FALSE
  OBVIOUS
<1> QED
  BY <1>2, <1>3 DEF Fits, Laid

LEMMA WriteDataTypes ==
  ASSUME Types, WriteData, UNCHANGED calls
  PROVE  Types'
<1> USE DEF Types
<1>1. /\ Return({}) /\ UNCHANGED <<bitmap, imap, inode, counts, loose, fault>>
      /\ content' = [b \in Block |-> content'[b]]
      /\ \A b \in Block : content'[b] = content[b] \/ content'[b] = <<>>
  BY DEF WriteData
<1>2. Fits(<<>>)
  BY NothingFits
<1>3. \A b \in Block : content'[b] \in Seq(Entry) /\ Fits(content'[b])
  <2>1. \A b \in Block : content[b] \in Seq(Entry) /\ Fits(content[b])
    BY DEF DiskTypes, RecordsFit
  <2>2. <<>> \in Seq(Entry)
    OBVIOUS
  <2> QED
    BY <1>1, <1>2, <2>1, <2>2
<1>4. DiskTypes' /\ RecordsFit'
  <2>1. content' \in [Block -> Seq(Entry)]
    BY <1>1, <1>3
  <2>2. RecordsFit'
    BY <1>3 DEF RecordsFit
  <2> QED
    BY <1>1, <2>1, <2>2 DEF DiskTypes
<1>5. Idle /\ op' \in Locals /\ CallFits' /\ cut' \subseteq Ino /\ unmarked' \subseteq Block
  BY <1>1, Returned
<1>6. MemoryTypes'
  BY <1>1, <1>5 DEF MemoryTypes, counts, Idle
<1> QED
  BY <1>4, <1>5, <1>6

\* A directory with an entry for i more.
Grown(s, r, i) ==
  /\ Len(s) # 0 /\ r \in Seq(Entry) /\ Len(r) = Len(s) + 1
  /\ \A k \in 1..Len(s) : r[k].ino = s[k].ino
  /\ r[Len(s) + 1].ino = i
  /\ Fits(s) => Fits(r)

Puts(b, r) == content' = [content EXCEPT ![b] = r]

LEMMA CreateDirectoryEntryIs ==
  ASSUME Types, CreateDirectoryEntry
  PROVE  /\ stage = "link" /\ Return({})
         /\ UNCHANGED <<bitmap, imap, inode, counts, loose, fault>>
         /\ \/ content' = content
            \/ \E b \in Block : \E r : Puts(b, r) /\ Grown(content[b], r, op.ino)
<1>1. /\ stage = "link" /\ Return({})
      /\ UNCHANGED <<bitmap, imap, inode, counts, loose, fault>>
  BY DEF CreateDirectoryEntry
<1>2. op.parent \in Ino /\ op.ino \in Ino /\ op.path \in Path
  BY <1>1 DEF Types, CallFits
<1>3. PICK old : old = Entries(op.parent)
  OBVIOUS
<1>4. old \in Seq(Entry)
  BY <1>2, <1>3, EntriesType DEF Types
<1>5. PICK m : m = Len(old)
  OBVIOUS
<1>6. CASE m = 0 \/ old[m].len < 2
  BY <1>1, <1>3, <1>5, <1>6 DEF CreateDirectoryEntry
<1>7. CASE ~(m = 0 \/ old[m].len < 2)
  <2>1. PICK b : b = inode[op.parent].pointers.direct[1]
    OBVIOUS
  <2>2. old # <<>>
    BY <1>5, <1>7
  <2>3. b \in Block /\ old = content[b]
    BY <1>2, <1>3, <2>1, <2>2, EntriesType DEF Types
  <2>4. PICK e : e = [name |-> Last(op.path), ino |-> op.ino, len |-> old[m].len - 1]
    OBVIOUS
  <2>5. m \in Nat /\ m \in 1..m /\ old[m] \in Entry /\ old[m].len \in Nat /\ old[m].len >= 2
    <3>1. m \in Nat /\ m \in 1..m
      BY <1>4, <1>5, <1>7
    <3>2. old[m] \in Entry
      BY <1>4, <1>5, <3>1
    <3>3. old[m].len \in Nat
      BY <3>2, LensAreNat
    <3> QED
      BY <1>7, <3>1, <3>2, <3>3
  <2>6. e \in Entry /\ e.ino = op.ino /\ e.len = old[m].len - 1
    <3>1. Last(op.path) \in Name
      <4>1. op.path \in Seq(ToSet(op.path)) /\ op.path # <<>>
        BY <1>2, PathsAreSeqs
      <4>2. Last(op.path) \in ToSet(op.path)
        BY <4>1, SetsOfSeqs
      <4> QED
        BY <1>2, <4>2 DEF Name
    <3>2. old[m].len - 1 \in Nat \ {0}
      BY <2>5
    <3> QED
      BY <1>2, <2>4, <3>1, <3>2 DEF Entry
  <2>7. PICK r : r = Append(Shortened(old), e)
    OBVIOUS
  <2>8. Puts(b, r)
    BY <1>1, <1>3, <1>5, <1>7, <2>1, <2>4, <2>7 DEF CreateDirectoryEntry, Puts, Shortened
  <2>9. Grown(old, r, op.ino)
    <3>1. Len(old) # 0 /\ old[Len(old)].len >= 2 /\ e.len = old[Len(old)].len - 1
      BY <1>5, <1>7, <2>5, <2>6
    <3> QED
      BY <1>4, <2>6, <2>7, <3>1, EntryAdded DEF Grown
  <2> QED
    BY <1>1, <2>3, <2>8, <2>9
<1> QED
  BY <1>6, <1>7

LEMMA PutTypes ==
  ASSUME DiskTypes, RecordsFit, UNCHANGED <<bitmap, imap, inode>>,
         NEW b \in Block, NEW r \in Seq(Entry), Puts(b, r), Fits(content[b]) => Fits(r)
  PROVE  DiskTypes' /\ RecordsFit'
<1>1. content' \in [Block -> Seq(Entry)]
  BY DEF DiskTypes, Puts
<1>2. \A c \in Block : content'[c] = IF c = b THEN r ELSE content[c]
  BY DEF DiskTypes, Puts
<1>3. RecordsFit'
  BY <1>2 DEF RecordsFit
<1> QED
  BY <1>1, <1>3 DEF DiskTypes

LEMMA CreateDirectoryEntryTypes ==
  ASSUME Types, CreateDirectoryEntry, UNCHANGED calls
  PROVE  Types'
<1> USE DEF Types
<1>1. Return({}) /\ UNCHANGED <<bitmap, imap, inode, counts, loose, fault>>
  BY CreateDirectoryEntryIs
<1>2. DiskTypes' /\ RecordsFit'
  <2>1. CASE content' = content
    BY <1>1, <2>1, DiskTypesStay DEF disk
  <2>2. ASSUME NEW b \in Block, NEW r, Puts(b, r), Grown(content[b], r, op.ino)
        PROVE  DiskTypes' /\ RecordsFit'
    BY <1>1, <2>2, PutTypes DEF Grown
  <2> QED
    BY <2>1, <2>2, CreateDirectoryEntryIs
<1>3. Idle /\ op' \in Locals /\ CallFits' /\ cut' \subseteq Ino /\ unmarked' \subseteq Block
  BY <1>1, Returned
<1>4. MemoryTypes'
  BY <1>1, <1>3 DEF MemoryTypes, counts, Idle
<1> QED
  BY <1>2, <1>3, <1>4

LEMMA DeleteDentryIs ==
  ASSUME Types, DeleteDentry
  PROVE  /\ stage = "unlink" /\ UNCHANGED <<bitmap, imap, inode, counts, loose, fault>>
         /\ \/ Return(Kept) /\ content' = content
            \/ \E b \in Block : \E r, k :
                 /\ Puts(b, r) /\ Shrunk(content[b], r, k)
                 /\ \/ Return(Kept)
                    \/ /\ Return({}) /\ op.ino \notin loose \cup cut
                       /\ content[b][k].ino = op.ino
<1>1. stage = "unlink" /\ UNCHANGED <<bitmap, imap, inode, counts, loose, fault>>
  BY DEF DeleteDentry
<1>2. PICK parent : parent = Lookup(Front(op.path))
  OBVIOUS
<1>3. PICK target : target = Lookup(op.path)
  OBVIOUS
<1>4. PICK old : old = IF parent = 0 THEN <<>> ELSE Entries(parent)
  OBVIOUS
<1>5. PICK hits : hits = {k \in DOMAIN old : old[k].ino = target}
  OBVIOUS
<1>6. CASE target = 0 \/ hits = {} \/ 1 \in hits
  BY <1>1, <1>2, <1>3, <1>4, <1>5, <1>6 DEF DeleteDentry
<1>7. CASE ~(target = 0 \/ hits = {} \/ 1 \in hits)
  <2>1. parent \in Ino \cup {0}
    <3>1. op.path \in Path \cup {<<Image.name>>, <<>>}
      BY DEF Types, MemoryTypes, Locals
    <3>2. CASE op.path = <<>>
      <4>1. Front(<<>>) = <<>>
        BY DEF Front
      <4>2. <<>> \in Seq(Ino)
        OBVIOUS
      <4> QED
        BY <1>2, <3>2, <4>1, <4>2, LookupType DEF Types
    <3>3. CASE op.path # <<>>
      BY <1>2, <3>1, <3>3, PathsAreSeqs, LookupType DEF Types
    <3> QED
      BY <3>2, <3>3
  <2>2. parent \in Ino /\ old = Entries(parent) /\ old # <<>>
    BY <1>4, <1>5, <1>7, <2>1
  <2>3. PICK b : b = inode[parent].pointers.direct[1]
    OBVIOUS
  <2>4. b \in Block /\ old = content[b] /\ old \in Seq(Entry)
    BY <2>2, <2>3, EntriesType DEF Types
  <2>5. PICK k : k = Min(hits)
    OBVIOUS
  <2>6. k \in hits
    <3>1. hits \subseteq Nat
      BY <1>5, <2>4
    <3> QED
      BY <1>7, <2>5, <3>1, MinIsLeast
  <2>7. k \in 2..Len(old) /\ old[k].ino = target
    <3>1. k \in 1..Len(old) /\ old[k].ino = target
      BY <1>5, <2>4, <2>6
    <3>2. k # 1
      BY <1>7, <2>6
    <3> QED
      BY <2>4, <3>1, <3>2
  <2>8. PICK r : r = RemoveAt(Widened(old, k), k)
    OBVIOUS
  <2>9. /\ Return(IF op.ino \in loose \cup cut \/ target # op.ino THEN Kept ELSE {})
        /\ Puts(b, r)
    <3>1. /\ Return(IF op.ino \in loose \cup cut \/ target # op.ino THEN Kept ELSE {})
          /\ content' = [content EXCEPT ![inode[parent].pointers.direct[1]] =
               RemoveAt([old EXCEPT ![k - 1].len = @ + old[k].len], k)]
      <4> DEFINE dir == Lookup(Front(op.path))
                 ino == Lookup(op.path)
                 list == IF dir = 0 THEN <<>> ELSE Entries(dir)
                 found == {j \in DOMAIN list : list[j].ino = ino}
                 first == Min(found)
      <4>1. IF ino = 0 \/ found = {} \/ 1 \in found
              THEN Return(Kept) /\ UNCHANGED content
              ELSE /\ Return(IF op.ino \in loose \cup cut \/ ino # op.ino THEN Kept ELSE {})
                   /\ content' = [content EXCEPT ![inode[dir].pointers.direct[1]] =
                        RemoveAt([list EXCEPT ![first - 1].len = @ + list[first].len], first)]
        BY DEF DeleteDentry
      <4>2. dir = parent /\ ino = target
        BY <1>2, <1>3
      <4>3. list = old
        BY <1>4, <4>2
      <4>4. found = hits
        BY <1>5, <4>2, <4>3
      <4>5. first = k
        BY <2>5, <4>4
      <4> HIDE DEF dir, ino, list, found, first
      <4> QED
        BY <1>7, <4>1, <4>2, <4>3, <4>4, <4>5
    <3> QED
      BY <2>3, <2>8, <3>1, Zenon DEF Puts, Widened
  <2>10. Shrunk(old, r, k)
    BY <2>4, <2>7, <2>8, EntryRemoved
  <2>11. \/ Return(Kept)
         \/ Return({}) /\ op.ino \notin loose \cup cut /\ content[b][k].ino = op.ino
    BY <2>4, <2>7, <2>9
  <2> QED
    BY <1>1, <2>4, <2>9, <2>10, <2>11
<1> QED
  BY <1>6, <1>7

LEMMA DeleteDentryTypes ==
  ASSUME Types, DeleteDentry, UNCHANGED calls
  PROVE  Types'
<1> USE DEF Types
<1>1. UNCHANGED <<bitmap, imap, inode, counts, loose, fault>>
  BY DeleteDentryIs
<1>2. DiskTypes' /\ RecordsFit'
  <2>1. CASE content' = content
    BY <1>1, <2>1, DiskTypesStay DEF disk
  <2>2. ASSUME NEW b \in Block, NEW r, NEW k, Puts(b, r), Shrunk(content[b], r, k)
        PROVE  DiskTypes' /\ RecordsFit'
    BY <1>1, <2>2, PutTypes DEF Shrunk
  <2> QED
    BY <2>1, <2>2, DeleteDentryIs
<1>3. Idle /\ op' \in Locals /\ CallFits' /\ cut' \subseteq Ino /\ unmarked' \subseteq Block
  <2>1. Return(Kept) \/ Return({})
    BY DeleteDentryIs
  <2> QED
    BY <2>1, KeptIsInode, Returned
<1>4. MemoryTypes'
  BY <1>1, <1>3 DEF MemoryTypes, counts, Idle
<1> QED
  BY <1>2, <1>3, <1>4

LEMMA NextTypes ==
  ASSUME Types, OwnerFits, [Ext2Next]_ext2Vars
  PROVE  Types'
<1>1. CASE UNCHANGED ext2Vars
  BY <1>1 DEF Types, DiskTypes, MemoryTypes, RecordsFit, CallFits, Making, Deleting,
              ext2Vars, disk, counts, history
<1>2. CASE Step /\ UNCHANGED calls
  BY <1>2, AllocateInodeTypes, AllocateBlockTypes, DeallocateBlockTypes, InitializeInodeTypes,
     WriteInodeTypes, InitializeDirectoryTypes, CreateDirectoryEntryTypes, WriteDataTypes,
     ZeroInodeTypes, ClearInodeBitTypes, DeleteDentryTypes, StepFailsTypes, InodeWriteLostTypes,
     RebootTypes DEF Step
<1> QED
  BY <1>1, <1>2, CreateFileTypes, WriteFileTypes, DeleteFileTypes DEF Ext2Next

-----------------------------------------------------------------------------
\* Blocks: what a call has in hand, what is marked, and whose blocks are whose.
OwnersInv == OwnerFits /\ BlocksInv

LEMMA InodesStay ==
  ASSUME UNCHANGED inode
  PROVE  InUse' = InUse /\ \A i : BlocksOf(i)' = BlocksOf(i) /\ inode'[i] = inode[i]
  BY DEF InUse, BlocksOf

LEMMA NotDeleting ==
  ASSUME stage \notin {"bfree", "izero", "iclear", "unlink"}
  PROVE  Kept = {}
  BY DEF Kept, Deleting

\* The invariants, with BlocksOf for what it stands for.
LEMMA UsedIs ==
  /\ UsedBlocksAreMarked <=> \A i \in Owners \ Kept : BlocksOf(i) \subseteq bitmap \cup unmarked
  /\ BlocksHaveOneOwner <=>
       \A i, j \in Owners : i # j => BlocksOf(i) \cap BlocksOf(j) \subseteq unmarked
  BY DEF UsedBlocksAreMarked, BlocksHaveOneOwner, Owners, BlocksOf

LEMMA UsedIsNext ==
  /\ UsedBlocksAreMarked' <=>
       \A i \in Owners' \ Kept' : BlocksOf(i)' \subseteq bitmap' \cup unmarked'
  /\ BlocksHaveOneOwner' <=>
       \A i, j \in Owners' : i # j => BlocksOf(i)' \cap BlocksOf(j)' \subseteq unmarked'
  BY DEF UsedBlocksAreMarked, BlocksHaveOneOwner, Owners, BlocksOf

LEMMA EndKeepsBlocks ==
  ASSUME Types, OwnersInv, NEW kept, kept \subseteq Kept, Return(kept),
         UNCHANGED <<bitmap, inode>>,
         kept = Kept \/ (Owners \cap Kept = {})
  PROVE  OwnersInv'
<1>1. InUse' = InUse /\ \A i : BlocksOf(i)' = BlocksOf(i) /\ inode'[i] = inode[i]
  BY InodesStay
<1>2. /\ stage' = "idle" /\ op' = NoOp /\ cut' = cut \cup kept
      /\ unmarked' = unmarked \cup UNION {BlocksOf(i) : i \in kept}
  BY DEF Return, LetGo, BlocksOf
<1>3. Kept' = {}
  BY <1>2 DEF Kept, Deleting
<1>4. Owners' = Owners \cup kept
  BY <1>1, <1>2 DEF Owners
<1>5. \A i \in kept : BlocksOf(i) \subseteq unmarked'
  BY <1>2
<1>6. /\ \A i \in Owners \ Kept : BlocksOf(i) \subseteq bitmap \cup unmarked
      /\ \A i, j \in Owners : i # j => BlocksOf(i) \cap BlocksOf(j) \subseteq unmarked
  BY UsedIs DEF OwnersInv, BlocksInv
<1>7. UsedBlocksAreMarked'
  <2>1. ASSUME NEW i \in Owners' \ Kept' PROVE BlocksOf(i)' \subseteq bitmap' \cup unmarked'
    <3>1. i \in kept \/ i \in Owners \ Kept
      BY <1>4
    <3>2. BlocksOf(i) \subseteq bitmap \cup unmarked'
      BY <1>2, <1>5, <1>6, <3>1
    <3> QED
      BY <1>1, <3>2
  <2> QED
    BY <2>1, UsedIsNext
<1>8. BlocksHaveOneOwner'
  <2>1. ASSUME NEW i \in Owners', NEW j \in Owners', i # j
        PROVE  BlocksOf(i)' \cap BlocksOf(j)' \subseteq unmarked'
    <3>1. CASE i \in kept \/ j \in kept
      BY <1>1, <1>5, <3>1
    <3>2. CASE i \in Owners /\ j \in Owners
      BY <1>1, <1>2, <1>6, <2>1, <3>2
    <3> QED
      BY <1>4, <3>1, <3>2
  <2> QED
    BY <2>1, UsedIsNext
<1>9. TakenBlocks'
  BY <1>2 DEF TakenBlocks
<1>10. OwnerFits'
  <2>1. \A i \in Ino \ Owners' : inode'[i].size = 0
    BY <1>1, <1>4 DEF OwnersInv, OwnerFits
  <2> QED
    BY <1>2, <2>1 DEF OwnerFits
<1> QED
  BY <1>7, <1>8, <1>9, <1>10 DEF OwnersInv, BlocksInv

\* A step that leaves the blocks and the inodes alone.
LEMMA QuietKeepsBlocks ==
  ASSUME Types, OwnersInv, UNCHANGED <<bitmap, inode, unmarked, cut>>, Kept' = Kept,
         OwnerFits', stage' \notin {"balloc", "iwrite"}
  PROVE  OwnersInv'
<1>1. InUse' = InUse /\ \A i : BlocksOf(i)' = BlocksOf(i)
  BY InodesStay
<1>2. Owners' = Owners
  BY <1>1 DEF Owners
<1>3. UsedBlocksAreMarked' /\ BlocksHaveOneOwner'
  BY <1>1, <1>2, UsedIs, UsedIsNext DEF OwnersInv, BlocksInv
<1>4. TakenBlocks'
  BY DEF TakenBlocks
<1> QED
  BY <1>3, <1>4 DEF OwnersInv, BlocksInv

LEMMA EndingSteps ==
  ASSUME Types, OwnersInv,
         \/ GivesUp /\ Kept = {}
         \/ CreateDirectoryEntry \/ WriteData \/ StepFails \/ Reboot \/ DeleteDentry
  PROVE  OwnersInv'
<1>1. CASE (GivesUp /\ Kept = {}) \/ CreateDirectoryEntry \/ WriteData
  <2>1. Kept = {}
    BY <1>1, NotDeleting DEF CreateDirectoryEntry, WriteData
  <2>2. Return({}) /\ UNCHANGED <<bitmap, inode>>
    BY <1>1 DEF GivesUp, CreateDirectoryEntry, WriteData, disk
  <2> QED
    BY <2>1, <2>2, EndKeepsBlocks
<1>2. CASE StepFails \/ Reboot
  <2>1. Return(Kept) /\ UNCHANGED <<bitmap, inode>>
    BY <1>2 DEF StepFails, Reboot, disk
  <2> QED
    BY <2>1, EndKeepsBlocks
<1>3. CASE DeleteDentry
  <2>1. stage = "unlink" /\ UNCHANGED <<bitmap, inode>>
    BY <1>3, DeleteDentryIs
  <2>2. \/ Return(Kept)
        \/ Return({}) /\ op.ino \notin loose \cup cut
    BY <1>3, DeleteDentryIs
  <2>3. Kept = {op.ino} /\ op.ino \notin InUse \ cut
    BY <2>1 DEF Kept, Deleting, OwnersInv, OwnerFits
  <2>4. CASE Return(Kept)
    BY <2>1, <2>4, EndKeepsBlocks
  <2>5. CASE Return({}) /\ op.ino \notin loose \cup cut
    <3>1. Owners \cap Kept = {}
      BY <2>3, <2>5 DEF Owners
    <3> QED
      BY <2>1, <2>5, <3>1, EndKeepsBlocks
  <2> QED
    BY <2>2, <2>4, <2>5
<1> QED
  BY <1>1, <1>2, <1>3

LEMMA QuietSteps ==
  ASSUME Types, OwnersInv, InitializeDirectory \/ ClearInodeBit
  PROVE  OwnersInv'
<1>1. CASE InitializeDirectory
  <2>1. /\ stage = "dots" /\ stage' = "link" /\ op' = op
        /\ UNCHANGED <<bitmap, inode, unmarked, cut>>
    BY <1>1 DEF InitializeDirectory, history
  <2>2. Kept' = Kept
    BY <2>1 DEF Kept, Deleting
  <2>3. InUse' = InUse /\ Owners' = Owners
    BY <2>1, InodesStay DEF Owners
  <2>4. OwnerFits'
    BY <2>1, <2>3 DEF OwnersInv, OwnerFits, Making
  <2> QED
    BY <2>1, <2>2, <2>4, QuietKeepsBlocks
<1>2. CASE ClearInodeBit
  <2>1. /\ stage = "iclear" /\ stage' = "unlink" /\ op' = op
        /\ UNCHANGED <<bitmap, inode, unmarked, cut>>
    BY <1>2 DEF ClearInodeBit
  <2>2. Kept' = Kept
    BY <2>1 DEF Kept, Deleting
  <2>3. InUse' = InUse /\ Owners' = Owners
    BY <2>1, InodesStay DEF Owners
  <2>4. OwnerFits'
    BY <2>1, <2>3 DEF OwnersInv, OwnerFits, Making
  <2> QED
    BY <2>1, <2>2, <2>4, QuietKeepsBlocks
<1> QED
  BY <1>1, <1>2

LEMMA AllocateInodeBlocks ==
  ASSUME Types, OwnersInv, NEW written \in BOOLEAN, AllocateInode(written)
  PROVE  OwnersInv'
<1>1. stage = "ialloc"
  BY DEF AllocateInode
<1>2. Kept = {}
  BY <1>1, NotDeleting
<1>3. CASE GivesUp
  BY <1>2, <1>3, EndingSteps
<1>4. ASSUME NEW g \in Group, NEW i \in Ino \ imap[g], TakesInode(g, i, written)
      PROVE  OwnersInv'
  <2>1. /\ stage' = "iinit" /\ op' = [op EXCEPT !.ino = i]
        /\ UNCHANGED <<bitmap, inode, unmarked, cut>>
    BY <1>4 DEF TakesInode
  <2>2. Kept' = {}
    BY <2>1 DEF Kept, Deleting
  <2>3. InUse' = InUse /\ Owners' = Owners
    BY <2>1, InodesStay DEF Owners
  <2>4. op'.list = op.list /\ op.list = <<>>
    BY <1>1, <2>1 DEF Types, MemoryTypes, Locals, OwnersInv, OwnerFits
  <2>5. OwnerFits'
    BY <2>1, <2>3, <2>4 DEF OwnersInv, OwnerFits, Making
  <2> QED
    BY <1>2, <2>1, <2>2, <2>5, QuietKeepsBlocks
<1> QED
  BY <1>3, <1>4, AllocateInodeIs

LEMMA InodePut ==
  ASSUME DiskTypes, NEW i \in Ino, NEW new, inode' = [inode EXCEPT ![i] = new]
  PROVE  /\ inode'[i] = new /\ BlocksOf(i)' = PointerBlocks(new.pointers)
         /\ \A j \in Ino : j # i => BlocksOf(j)' = BlocksOf(j) /\ inode'[j] = inode[j]
         /\ InUse' = IF new.kind = "none" THEN InUse \ {i} ELSE InUse \cup {i}
<1>1. inode'[i] = new /\ \A j \in Ino : j # i => inode'[j] = inode[j]
  BY DEF DiskTypes
<1> QED
  BY <1>1 DEF BlocksOf, InUse

\* Owners are inodes.
LEMMA OwnersAreInodes ==
  ASSUME Types
  PROVE  Owners \subseteq Ino
  BY DEF Types, MemoryTypes, Owners, InUse

LEMMA InitializeInodeBlocks ==
  ASSUME Types, OwnersInv, InitializeInode
  PROVE  OwnersInv'
<1>0. PICK x : x = op.ino
  OBVIOUS
<1>1. stage = "iinit" /\ x \in Ino /\ op.kind \in {"file", "dir"} /\ op.list = <<>>
  BY <1>0 DEF InitializeInode, Types, CallFits, Making, OwnersInv, OwnerFits
<1>2. PICK new : new = [NoInode EXCEPT !.kind = op.kind]
  OBVIOUS
<1>3. new.kind = op.kind /\ new.pointers = NoPointers
  BY <1>2 DEF NoInode
<1>4. inode' = [inode EXCEPT ![x] = new] /\ UNCHANGED <<bitmap, unmarked, cut>>
  BY <1>0, <1>2 DEF InitializeInode, history
<1>5. /\ BlocksOf(x)' = {} /\ InUse' = InUse \cup {x}
      /\ \A j \in Ino : j # x => BlocksOf(j)' = BlocksOf(j) /\ inode'[j] = inode[j]
  BY <1>1, <1>3, <1>4, InodePut, NoBlocks DEF Types
<1>6. Owners' = Owners \cup {x} /\ Owners \subseteq Ino
  BY <1>4, <1>5, OwnersAreInodes DEF Owners
<1>7. stage' \in {"balloc", "link"} /\ op'.ino = x /\ op'.list = <<>> /\ op'.kind = op.kind
  <2>1. op \in Locals
    BY DEF Types, MemoryTypes
  <2> QED
    BY <1>0, <1>1, <2>1 DEF InitializeInode, Locals
<1>8. Kept = {} /\ Kept' = {}
  BY <1>1, <1>7 DEF Kept, Deleting
<1>9. /\ \A i \in Owners \ Kept : BlocksOf(i) \subseteq bitmap \cup unmarked
      /\ \A i, j \in Owners : i # j => BlocksOf(i) \cap BlocksOf(j) \subseteq unmarked
  BY UsedIs DEF OwnersInv, BlocksInv
<1>10. UsedBlocksAreMarked' /\ BlocksHaveOneOwner'
  <2>1. ASSUME NEW i \in Owners' PROVE BlocksOf(i)' \subseteq bitmap' \cup unmarked'
    <3>1. CASE i = x
      BY <1>5, <3>1
    <3>2. CASE i # x
      BY <1>4, <1>5, <1>6, <1>8, <1>9, <3>2
    <3> QED
      BY <3>1, <3>2
  <2>2. ASSUME NEW i \in Owners', NEW j \in Owners', i # j
        PROVE  BlocksOf(i)' \cap BlocksOf(j)' \subseteq unmarked'
    <3>1. CASE i = x \/ j = x
      BY <1>5, <3>1
    <3>2. CASE i # x /\ j # x
      BY <1>4, <1>5, <1>6, <1>9, <2>2, <3>2
    <3> QED
      BY <3>1, <3>2
  <2> QED
    BY <2>1, <2>2, UsedIsNext
<1>11. TakenBlocks'
  <2>1. ToSet(op'.list) = {}
    BY <1>7 DEF ToSet
  <2> QED
    BY <2>1 DEF TakenBlocks
<1>12. OwnerFits'
  <2>1. \A i \in Ino \ Owners' : inode'[i].size = 0
    BY <1>5, <1>6 DEF OwnersInv, OwnerFits
  <2> QED
    BY <1>5, <1>6, <1>7, <2>1 DEF OwnerFits
<1> QED
  BY <1>10, <1>11, <1>12 DEF OwnersInv, BlocksInv

LEMMA AllocateBlockBlocks ==
  ASSUME Types, OwnersInv, NEW seen, NEW written \in BOOLEAN, AllocateBlock(seen, written)
  PROVE  OwnersInv'
<1>1. stage = "balloc" /\ op.ino \in Owners
  BY DEF AllocateBlock, OwnersInv, OwnerFits
<1>2. Kept = {}
  BY <1>1, NotDeleting
<1>3. CASE GivesUp
  BY <1>2, <1>3, EndingSteps
<1>4. ASSUME NEW b \in AllocatableBlocks(seen), TakesBlock(b, seen, written) PROVE OwnersInv'
  <2>1. b \in Block \ seen
    BY DEF AllocatableBlocks
  <2>2. /\ stage' \in {"balloc", "iwrite", "astray"} /\ UNCHANGED <<inode, cut>>
        /\ bitmap \subseteq bitmap' \cup unmarked' /\ unmarked \subseteq unmarked'
        /\ b \in bitmap' \cup unmarked' /\ (b \in bitmap => b \in unmarked')
    <3>1. bitmap \cap (seen \cup {b}) \subseteq bitmap'
      BY <1>4, WrittenBitmap DEF TakesBlock
    <3>2. unmarked' = unmarked \cup LostMarks(seen)
            \cup (IF b \in bitmap' \ (bitmap \ seen) THEN {} ELSE {b})
      BY <1>4 DEF TakesBlock
    <3>3. bitmap \subseteq bitmap' \cup LostMarks(seen)
      BY <3>1 DEF LostMarks
    <3> QED
      BY <1>4, <2>1, <3>2, <3>3 DEF TakesBlock
  <2>3. op'.ino = op.ino /\ op'.kind = op.kind /\ ToSet(op'.list) \subseteq ToSet(op.list) \cup {b}
    <3>1. op \in Locals /\ op.list \in Seq(Block)
      BY DEF Types, MemoryTypes, Locals
    <3>2. PICK l : l = Append(op.list, b)
      OBVIOUS
    <3>3. ToSet(l) \subseteq ToSet(op.list) \cup {b}
      BY <2>1, <3>1, <3>2, SetsOfSeqs
    <3>4. PICK k : k = op.need - 1
      OBVIOUS
    <3>5. op' = [op EXCEPT !.need = k, !.list = l]
      BY <1>4, <3>2, <3>4 DEF TakesBlock
    <3>6. op'.ino = op.ino /\ op'.kind = op.kind /\ op'.list = l
      BY <3>1, <3>5 DEF Locals
    <3> QED
      BY <3>3, <3>6
  <2>4. Kept' = {}
    BY <2>2 DEF Kept, Deleting
  <2>5. InUse' = InUse /\ Owners' = Owners /\ \A i : BlocksOf(i)' = BlocksOf(i) /\ inode'[i] = inode[i]
    BY <2>2, InodesStay DEF Owners
  <2>6. /\ \A i \in Owners : BlocksOf(i) \subseteq bitmap \cup unmarked
        /\ \A i, j \in Owners : i # j => BlocksOf(i) \cap BlocksOf(j) \subseteq unmarked
    BY <1>2, UsedIs DEF OwnersInv, BlocksInv
  <2>7. UsedBlocksAreMarked' /\ BlocksHaveOneOwner'
    BY <2>2, <2>4, <2>5, <2>6, UsedIsNext
  <2>8. TakenBlocks'
    <3>1. /\ ToSet(op.list) \subseteq bitmap \cup unmarked
          /\ \A j \in Owners \ {op.ino} : ToSet(op.list) \cap BlocksOf(j) \subseteq unmarked
      BY <1>1 DEF OwnersInv, BlocksInv, TakenBlocks
    <3>2. ToSet(op'.list) \subseteq bitmap' \cup unmarked'
      BY <2>2, <2>3, <3>1
    <3>3. ASSUME NEW j \in Owners' \ {op'.ino} PROVE ToSet(op'.list) \cap BlocksOf(j)' \subseteq unmarked'
      <4>1. j \in Owners \ {op.ino}
        BY <2>3, <2>5
      <4>2. ToSet(op.list) \cap BlocksOf(j) \subseteq unmarked
        BY <3>1, <4>1
      <4>3. b \in BlocksOf(j) => b \in unmarked'
        BY <2>2, <2>6, <4>1
      <4> QED
        BY <2>2, <2>3, <2>5, <4>2, <4>3
    <3> QED
      BY <3>2, <3>3 DEF TakenBlocks
  <2>9. OwnerFits'
    BY <1>1, <2>2, <2>3, <2>5 DEF OwnersInv, OwnerFits, Making
  <2> QED
    BY <2>7, <2>8, <2>9 DEF OwnersInv, BlocksInv
<1> QED
  BY <1>3, <1>4, AllocateBlockIs

LEMMA WriteInodeBlocks ==
  ASSUME Types, OwnersInv, WriteInode
  PROVE  OwnersInv'
<1>0. PICK x : x = op.ino
  OBVIOUS
<1>1. /\ stage = "iwrite" /\ x \in Ino /\ op.kind \in {"dir", "write"}
      /\ op.list \in Seq(Block) /\ op.size \in Nat
      /\ x \in Owners
  BY <1>0 DEF Types, WriteInode, CallFits, MemoryTypes, Locals, OwnersInv, OwnerFits
<1>2. PICK old : old = inode[x]
  OBVIOUS
<1>3. old \in [kind : {"none", "file", "dir"}, size : Nat, pointers : Pointers]
  BY <1>1, <1>2 DEF Types, DiskTypes
<1>4. PICK p : p = [old.pointers EXCEPT !.direct = op.list]
  OBVIOUS
<1>5. p \in Pointers /\ p.direct = op.list /\ Indirect(p) = Indirect(old.pointers)
  <2>1. /\ p \in Pointers /\ p.direct = op.list /\ p.single = old.pointers.single
        /\ p.double = old.pointers.double /\ p.triple = old.pointers.triple
    BY <1>1, <1>3, <1>4 DEF Pointers
  <2> QED
    BY <2>1 DEF Indirect
<1>6. PICK new : new = [old EXCEPT !.size = op.size, !.pointers = p]
  OBVIOUS
<1>7. inode' = [inode EXCEPT ![x] = new] /\ new.kind = old.kind /\ new.pointers = p
  BY <1>0, <1>1, <1>2, <1>3, <1>4, <1>6 DEF WriteInode, Types, DiskTypes
<1>8. /\ BlocksOf(x)' = PointerBlocks(p)
      /\ \A j \in Ino : j # x => BlocksOf(j)' = BlocksOf(j) /\ inode'[j] = inode[j]
  BY <1>1, <1>7, InodePut DEF Types
<1>9. InUse' = InUse
  <2>1. InUse' = IF new.kind = "none" THEN InUse \ {x} ELSE InUse \cup {x}
    BY <1>1, <1>7, InodePut DEF Types
  <2> QED
    BY <1>1, <1>2, <1>7, <2>1 DEF InUse
<1>10. BlocksOf(x)' \subseteq ToSet(op.list) \cup BlocksOf(x)
  <2>1. PointerBlocks(p) = ToSet(op.list) \cup Indirect(old.pointers)
    BY <1>5, PointersType
  <2>2. Indirect(old.pointers) \subseteq PointerBlocks(old.pointers)
    BY <1>3, PointersType
  <2> QED
    BY <1>2, <1>8, <2>1, <2>2 DEF BlocksOf
<1>11. stage' \in {"dots", "data"} /\ (stage' = "dots" => op.kind = "dir")
       /\ UNCHANGED <<op, bitmap, unmarked, cut>>
  BY <1>1 DEF WriteInode, history
<1>12. Owners' = Owners /\ Owners \subseteq Ino
  BY <1>9, <1>11, OwnersAreInodes DEF Owners
<1>13. Kept = {} /\ Kept' = {}
  BY <1>1, <1>11 DEF Kept, Deleting
<1>14. /\ \A i \in Owners : BlocksOf(i) \subseteq bitmap \cup unmarked
       /\ \A i, j \in Owners : i # j => BlocksOf(i) \cap BlocksOf(j) \subseteq unmarked
  BY <1>13, UsedIs DEF OwnersInv, BlocksInv
<1>15. /\ ToSet(op.list) \subseteq bitmap \cup unmarked
       /\ \A j \in Owners \ {x} : ToSet(op.list) \cap BlocksOf(j) \subseteq unmarked
  BY <1>0, <1>1 DEF OwnersInv, BlocksInv, TakenBlocks
<1>16. UsedBlocksAreMarked' /\ BlocksHaveOneOwner'
  <2>1. ASSUME NEW i \in Owners' PROVE BlocksOf(i)' \subseteq bitmap' \cup unmarked'
    <3>1. CASE i = x
      BY <1>1, <1>10, <1>11, <1>14, <1>15, <3>1
    <3>2. CASE i # x
      BY <1>8, <1>11, <1>12, <1>14, <3>2
    <3> QED
      BY <3>1, <3>2
  <2>2. ASSUME NEW j \in Owners', j # x
        PROVE  BlocksOf(x)' \cap BlocksOf(j)' \subseteq unmarked'
    <3>1. BlocksOf(j)' = BlocksOf(j) /\ j \in Owners
      BY <1>8, <1>12, <2>2
    <3>2. BlocksOf(x) \cap BlocksOf(j) \subseteq unmarked
      BY <1>1, <1>14, <2>2, <3>1
    <3>3. ToSet(op.list) \cap BlocksOf(j) \subseteq unmarked
      BY <1>15, <2>2, <3>1
    <3> QED
      BY <1>10, <1>11, <3>1, <3>2, <3>3
  <2>3. ASSUME NEW i \in Owners', NEW j \in Owners', i # j
        PROVE  BlocksOf(i)' \cap BlocksOf(j)' \subseteq unmarked'
    <3>1. CASE i = x
      BY <2>2, <2>3, <3>1
    <3>2. CASE j = x
      BY <2>2, <2>3, <3>2
    <3>3. CASE i # x /\ j # x
      BY <1>8, <1>11, <1>12, <1>14, <2>3, <3>3
    <3> QED
      BY <3>1, <3>2, <3>3
  <2> QED
    BY <2>1, <2>3, UsedIsNext
<1>17. TakenBlocks'
  BY <1>11 DEF TakenBlocks
<1>18. OwnerFits'
  <2>1. \A i \in Ino \ Owners' : inode'[i].size = 0
    BY <1>1, <1>8, <1>12 DEF OwnersInv, OwnerFits
  <2>2. op'.ino \in Owners'
    BY <1>0, <1>1, <1>11, <1>12
  <2> QED
    BY <1>11, <2>1, <2>2 DEF OwnerFits
<1> QED
  BY <1>16, <1>17, <1>18 DEF OwnersInv, BlocksInv

LEMMA DeallocateBlockBlocks ==
  ASSUME Types, OwnersInv, NEW seen, NEW written \in BOOLEAN, DeallocateBlock(seen, written)
  PROVE  OwnersInv'
<1>0. PICK x : x = op.ino
  OBVIOUS
<1>1. /\ stage = "bfree" /\ x \in Owners /\ op.list # <<>> /\ op.list \in Seq(Block)
      /\ ToSet(op.list) \subseteq BlocksOf(x)
  BY <1>0 DEF DeallocateBlock, OwnersInv, OwnerFits, Types, MemoryTypes, Locals
<1>2. Kept = {x}
  BY <1>0, <1>1 DEF Kept, Deleting
<1>3. CASE StopsFreeing
  BY <1>3, EndKeepsBlocks DEF StopsFreeing, disk
<1>4. ASSUME NEW b \in ToSet(op.list), FreesBlock(b, seen, written) PROVE OwnersInv'
  <2>1. /\ UNCHANGED <<inode, cut>> /\ unmarked \subseteq unmarked'
        /\ bitmap \subseteq bitmap' \cup unmarked' \cup {b}
        /\ stage' = (IF Len(op.list) = 1 THEN "izero" ELSE "bfree")
    <3>1. bitmap \cap (seen \ {b}) \subseteq bitmap'
      BY <1>4, WrittenBitmap DEF FreesBlock
    <3>2. bitmap \subseteq bitmap' \cup LostMarks(seen) \cup {b}
      BY <3>1 DEF LostMarks
    <3> QED
      BY <1>4, <3>2 DEF FreesBlock
  <2>2. PICK l : l = Front(op.list)
    OBVIOUS
  <2>3. ToSet(l) \subseteq ToSet(op.list) /\ (Len(op.list) # 1 => l # <<>>)
    BY <1>1, <2>2, FrontOfSeq
  <2>4. op'.ino = x /\ op'.kind = op.kind /\ op'.list = l
    BY <1>0, <1>4, <2>2 DEF FreesBlock, Types, MemoryTypes, Locals
  <2>5. Kept' = {x}
    BY <2>1, <2>4 DEF Kept, Deleting
  <2>6. InUse' = InUse /\ Owners' = Owners /\ \A i : BlocksOf(i)' = BlocksOf(i) /\ inode'[i] = inode[i]
    BY <2>1, InodesStay DEF Owners
  <2>7. /\ \A i \in Owners \ {x} : BlocksOf(i) \subseteq bitmap \cup unmarked
        /\ \A i, j \in Owners : i # j => BlocksOf(i) \cap BlocksOf(j) \subseteq unmarked
    BY <1>2, UsedIs DEF OwnersInv, BlocksInv
  <2>8. BlocksHaveOneOwner'
    <3>1. \A i, j \in Owners' : i # j => BlocksOf(i)' \cap BlocksOf(j)' \subseteq unmarked'
      BY <2>1, <2>6, <2>7
    <3> QED
      BY <3>1, UsedIsNext
  <2>9. UsedBlocksAreMarked'
    <3>1. ASSUME NEW i \in Owners' \ Kept' PROVE BlocksOf(i)' \subseteq bitmap' \cup unmarked'
      <4>1. i \in Owners /\ i # x
        BY <2>5, <2>6
      <4>2. b \in BlocksOf(i) => b \in unmarked
        BY <1>1, <1>4, <2>7, <4>1
      <4> QED
        BY <2>1, <2>6, <2>7, <4>1, <4>2
    <3> QED
      BY <3>1, UsedIsNext
  <2>10. TakenBlocks'
    BY <2>1 DEF TakenBlocks
  <2>11. OwnerFits'
    <3>1. ToSet(op'.list) \subseteq BlocksOf(op.ino)'
      BY <1>1, <2>3, <2>4, <2>6, <1>0 DEF BlocksOf
    <3>2. \A i \in Ino \ Owners' : inode'[i].size = 0
      BY <2>6 DEF OwnersInv, OwnerFits
    <3> QED
      BY <1>1, <2>1, <2>3, <2>4, <2>6, <3>1, <3>2 DEF OwnerFits
  <2> QED
    BY <2>8, <2>9, <2>10, <2>11 DEF OwnersInv, BlocksInv
<1> QED
  BY <1>3, <1>4, DeallocateBlockIs DEF OwnersInv

LEMMA ZeroInodeBlocks ==
  ASSUME Types, OwnersInv, ZeroInode
  PROVE  OwnersInv'
<1>0. PICK x : x = op.ino
  OBVIOUS
<1>1. stage = "izero" /\ x \in Ino
  BY <1>0 DEF ZeroInode, CallFits, Types
<1>2. PICK old : old = inode[x]
  OBVIOUS
<1>3. old \in [kind : {"none", "file", "dir"}, size : Nat, pointers : Pointers]
  BY <1>1, <1>2 DEF Types, DiskTypes
<1>4. PICK new : new = [old EXCEPT !.kind = "none", !.size = 0]
  OBVIOUS
<1>5. new.kind = "none" /\ new.size = 0
  BY <1>3, <1>4
<1>6. inode' = [inode EXCEPT ![x] = new]
  BY <1>0, <1>1, <1>2, <1>4 DEF ZeroInode, Types, DiskTypes
<1>7. /\ InUse' = InUse \ {x} /\ inode'[x].size = 0
      /\ \A j \in Ino : j # x => BlocksOf(j)' = BlocksOf(j) /\ inode'[j] = inode[j]
  BY <1>1, <1>5, <1>6, InodePut DEF Types
<1>8. /\ stage' = "iclear" /\ UNCHANGED <<op, bitmap, unmarked, cut>>
  BY DEF ZeroInode, history
<1>9. Kept = {x} /\ Kept' = {x}
  BY <1>0, <1>1, <1>8 DEF Kept, Deleting
<1>10. Owners' \subseteq Owners /\ Owners \subseteq Owners' \cup {x} /\ Owners \subseteq Ino
  BY <1>7, <1>8, OwnersAreInodes DEF Owners
<1>11. BlocksOf(x)' = BlocksOf(x)
  <2>1. new.pointers = old.pointers /\ inode'[x] = new
    BY <1>1, <1>3, <1>4, <1>6 DEF Types, DiskTypes
  <2> QED
    BY <1>2, <2>1 DEF BlocksOf
<1>12. \A j \in Ino : BlocksOf(j)' = BlocksOf(j)
  BY <1>7, <1>11
<1>13. /\ \A i \in Owners \ {x} : BlocksOf(i) \subseteq bitmap \cup unmarked
       /\ \A i, j \in Owners : i # j => BlocksOf(i) \cap BlocksOf(j) \subseteq unmarked
  BY <1>9, UsedIs DEF OwnersInv, BlocksInv
<1>14. UsedBlocksAreMarked' /\ BlocksHaveOneOwner'
  <2>1. ASSUME NEW i \in Owners' \ Kept' PROVE BlocksOf(i)' \subseteq bitmap' \cup unmarked'
    BY <1>8, <1>9, <1>10, <1>12, <1>13
  <2>2. ASSUME NEW i \in Owners', NEW j \in Owners', i # j
        PROVE  BlocksOf(i)' \cap BlocksOf(j)' \subseteq unmarked'
    BY <1>8, <1>10, <1>12, <1>13, <2>2
  <2> QED
    BY <2>1, <2>2, UsedIsNext
<1>15. TakenBlocks'
  BY <1>8 DEF TakenBlocks
<1>16. OwnerFits'
  <2>1. \A i \in Ino \ Owners' : inode'[i].size = 0
    BY <1>7, <1>10 DEF OwnersInv, OwnerFits
  <2> QED
    BY <1>0, <1>7, <1>8, <2>1 DEF OwnerFits
<1> QED
  BY <1>14, <1>15, <1>16 DEF OwnersInv, BlocksInv

\* A write of an inode that is lost leaves the blocks where they were; those
\* of an inode whose making or deletion it was are let go of.
LEMMA InodeWriteLostBlocks ==
  ASSUME Types, OwnersInv, InodeWriteLost
  PROVE  OwnersInv'
<1>0. PICK x : x = op.ino
  OBVIOUS
<1>1. /\ LostMaking \/ LostDirectory \/ LostGrowth \/ LostDeletion
      /\ UNCHANGED <<bitmap, inode>>
  BY InodeWriteLostIs DEF disk
<1>2. x \in Ino
  BY <1>0, <1>1 DEF LostMaking, LostDirectory, LostGrowth, LostDeletion, Types, CallFits
<1>3. PICK kept : LetGo(kept) /\ (kept = {x} \/ (kept = {} /\ LostGrowth))
  BY <1>0, <1>1 DEF LostMaking, LostDirectory, LostGrowth, LostDeletion
<1>4. InUse' = InUse /\ \A i : BlocksOf(i)' = BlocksOf(i) /\ inode'[i] = inode[i]
  BY <1>1, InodesStay
<1>5. /\ cut' = cut \cup kept /\ unmarked' = unmarked \cup UNION {BlocksOf(i) : i \in kept}
      /\ Owners' = Owners \cup kept
  BY <1>3, <1>4 DEF LetGo, BlocksOf, Owners
<1>6. op'.ino = x
  BY <1>0, <1>1, LostDirectoryLocals DEF LostMaking, LostGrowth, LostDeletion
<1>7. Kept' = Kept
  BY <1>0, <1>1, <1>6 DEF LostMaking, LostDirectory, LostGrowth, LostDeletion, Kept, Deleting
<1>8. /\ \A i \in Owners \ Kept : BlocksOf(i) \subseteq bitmap \cup unmarked
      /\ \A i, j \in Owners : i # j => BlocksOf(i) \cap BlocksOf(j) \subseteq unmarked
  BY UsedIs DEF OwnersInv, BlocksInv
<1>9. \A i \in kept : BlocksOf(i) \subseteq unmarked'
  BY <1>5
<1>10. UsedBlocksAreMarked'
  <2>1. ASSUME NEW i \in Owners' \ Kept' PROVE BlocksOf(i)' \subseteq bitmap' \cup unmarked'
    <3>1. i \in kept \/ i \in Owners \ Kept
      BY <1>5, <1>7
    <3> QED
      BY <1>1, <1>4, <1>5, <1>8, <1>9, <3>1
  <2> QED
    BY <2>1, UsedIsNext
<1>11. BlocksHaveOneOwner'
  <2>1. ASSUME NEW i \in Owners', NEW j \in Owners', i # j
        PROVE  BlocksOf(i)' \cap BlocksOf(j)' \subseteq unmarked'
    <3>1. CASE i \in kept \/ j \in kept
      BY <1>4, <1>9, <3>1
    <3>2. CASE i \in Owners /\ j \in Owners
      BY <1>4, <1>5, <1>8, <2>1, <3>2
    <3> QED
      BY <1>5, <3>1, <3>2
  <2> QED
    BY <2>1, UsedIsNext
<1>12. TakenBlocks'
  <2>1. CASE LostDirectory
    <3>1. kept = {x} /\ op'.list = inode[x].pointers.direct
      BY <1>0, <1>3, <2>1, LostDirectoryLocals DEF LostDirectory, LostGrowth
    <3>2. ToSet(op'.list) \subseteq BlocksOf(x)
      BY <3>1 DEF BlocksOf, PointerBlocks
    <3>3. ToSet(op'.list) \subseteq unmarked'
      BY <1>9, <3>1, <3>2
    <3> QED
      BY <3>3 DEF TakenBlocks
  <2>2. CASE LostMaking \/ LostGrowth \/ LostDeletion
    BY <2>2 DEF TakenBlocks, LostMaking, LostGrowth, LostDeletion
  <2> QED
    BY <1>1, <2>1, <2>2
<1>13. OwnerFits'
  <2>1. \A i \in Ino \ Owners' : inode'[i].size = 0
    BY <1>4, <1>5 DEF OwnersInv, OwnerFits
  <2>2. x \in Owners'
    BY <1>0, <1>3, <1>5 DEF LostGrowth, OwnersInv, OwnerFits
  <2>3. stage' = "iclear" => x \in cut'
    BY <1>3, <1>5 DEF LostGrowth
  <2>4. stage' \in {"link", "balloc", "data", "iclear"}
    BY <1>1 DEF LostMaking, LostDirectory, LostGrowth, LostDeletion
  <2> QED
    BY <1>6, <2>1, <2>2, <2>3, <2>4 DEF OwnerFits
<1> QED
  BY <1>10, <1>11, <1>12, <1>13 DEF OwnersInv, BlocksInv

\* A call that starts has no blocks in hand, or those of the file that grows.
LEMMA BeginBlocks ==
  ASSUME Types, OwnersInv, stage = "idle", NEW step, NEW locals, NEW kept \in SUBSET Ino,
         Begin(step, locals, kept), step \in {"ialloc", "balloc", "data", "bfree"},
         locals.kind \in {"file", "dir"} => step = "ialloc",
         step = "ialloc" => locals.list = <<>>,
         step = "balloc" => /\ locals.ino \in Owners \cup kept
                            /\ ToSet(locals.list) \subseteq BlocksOf(locals.ino),
         step = "bfree" => /\ locals.ino \in Owners \cup kept /\ locals.list # <<>>
                           /\ ToSet(locals.list) \subseteq BlocksOf(locals.ino)
  PROVE  OwnersInv'
<1>1. /\ stage' = step /\ op' = locals /\ UNCHANGED <<bitmap, inode>> /\ cut' = cut \cup kept
      /\ unmarked' = unmarked \cup UNION {BlocksOf(i) : i \in kept}
  BY DEF Begin, LetGo, disk, BlocksOf
<1>2. InUse' = InUse /\ \A i : BlocksOf(i)' = BlocksOf(i) /\ inode'[i] = inode[i]
  BY <1>1, InodesStay
<1>3. Owners' = Owners \cup kept /\ Kept = {}
  BY <1>1, <1>2, NotDeleting DEF Owners
<1>4. /\ \A i \in Owners : BlocksOf(i) \subseteq bitmap \cup unmarked
      /\ \A i, j \in Owners : i # j => BlocksOf(i) \cap BlocksOf(j) \subseteq unmarked
  BY <1>3, UsedIs DEF OwnersInv, BlocksInv
<1>5. \A i \in kept : BlocksOf(i) \subseteq unmarked'
  BY <1>1
<1>6. \A i \in Owners' : BlocksOf(i) \subseteq bitmap \cup unmarked'
  BY <1>1, <1>3, <1>4, <1>5
<1>7. \A i, j \in Owners' : i # j => BlocksOf(i) \cap BlocksOf(j) \subseteq unmarked'
  <2> TAKE i, j \in Owners'
  <2> HAVE i # j
  <2>1. CASE i \in kept \/ j \in kept
    BY <1>5, <2>1
  <2>2. CASE i \in Owners /\ j \in Owners
    BY <1>1, <1>4, <2>2
  <2> QED
    BY <1>3, <2>1, <2>2
<1>8. UsedBlocksAreMarked' /\ BlocksHaveOneOwner'
  BY <1>1, <1>2, <1>6, <1>7, UsedIsNext
<1>9. TakenBlocks'
  <2>1. SUFFICES ASSUME step = "balloc" PROVE TakenBlocks'
    BY <1>1 DEF TakenBlocks
  <2>2. PICK x : x = locals.ino
    OBVIOUS
  <2>3. x \in Owners' /\ ToSet(op'.list) \subseteq BlocksOf(x) /\ op'.ino = x
    BY <1>1, <1>3, <2>1, <2>2
  <2>4. ToSet(op'.list) \subseteq bitmap' \cup unmarked'
    BY <1>1, <1>6, <2>3
  <2>5. \A j \in Owners' \ {x} : ToSet(op'.list) \cap BlocksOf(j)' \subseteq unmarked'
    BY <1>2, <1>7, <2>3
  <2> QED
    BY <2>3, <2>4, <2>5 DEF TakenBlocks
<1>10. OwnerFits'
  <2>1. \A i \in Ino \ Owners' : inode'[i].size = 0
    BY <1>2, <1>3 DEF OwnersInv, OwnerFits
  <2>2. step = "bfree" => ToSet(op'.list) \subseteq BlocksOf(op.ino)'
    BY <1>1 DEF BlocksOf
  <2> QED
    BY <1>1, <1>3, <2>1, <2>2 DEF OwnerFits, Making
<1> QED
  BY <1>8, <1>9, <1>10 DEF OwnersInv, BlocksInv

LEMMA CreateFileBlocks ==
  ASSUME Types, OwnersInv, NEW path \in Path, NEW kind \in {"file", "dir"}, CreateFile(path, kind)
  PROVE  OwnersInv'
<1>1. PICK parent : parent = Lookup(Front(path))
  OBVIOUS
<1>2. PICK locals : locals = [NoOp EXCEPT !.path = path, !.kind = kind, !.parent = parent]
  OBVIOUS
<1>3. locals.list = <<>>
  BY <1>2 DEF NoOp
<1>4. stage = "idle" /\ Begin("ialloc", locals, {})
  BY <1>1, <1>2 DEF CreateFile
<1> QED
  BY <1>3, <1>4, BeginBlocks

LEMMA WriteFileBlocks ==
  ASSUME Types, OwnersInv, NEW path \in Path, NEW size \in Sizes, WriteFile(path, size)
  PROVE  OwnersInv'
<1>1. PICK i : i = Lookup(path)
  OBVIOUS
<1>2. i \in Ino
  <2>1. i \in Ino \cup {0}
    BY <1>1, PathsAreSeqs, LookupType DEF Types
  <2> QED
    BY <1>1, <2>1 DEF WriteFile
<1>3. PICK old : old = inode[i].pointers.direct
  OBVIOUS
<1>4. PICK need : need = BlocksFor(size - inode[i].size)
  OBVIOUS
<1>5. ToSet(old) \subseteq BlocksOf(i)
  BY <1>3 DEF BlocksOf, PointerBlocks
<1> DEFINE write == [NoOp EXCEPT !.path = path, !.kind = "write", !.ino = i]
           grow == [write EXCEPT !.need = need, !.size = size, !.list = old]
<1>6. PICK kept : kept = {i} \ Owners
  OBVIOUS
<1>7. \/ Begin("balloc", grow, kept)
      \/ Begin("data", write, {})
  BY <1>1, <1>3, <1>4, <1>6 DEF WriteFile, Owners
<1>8. write.kind = "write"
  BY DEF NoOp
<1>9. grow.kind = "write" /\ grow.ino = i /\ grow.list = old
  BY DEF NoOp
<1>10. stage = "idle" /\ kept \in SUBSET Ino /\ i \in Owners \cup kept
  BY <1>2, <1>6 DEF WriteFile
<1> HIDE DEF write, grow
<1>11. CASE Begin("balloc", grow, kept)
  <2>1. grow.ino \in Owners \cup kept /\ ToSet(grow.list) \subseteq BlocksOf(grow.ino)
    BY <1>5, <1>9, <1>10
  <2> QED
    BY <1>9, <1>10, <1>11, <2>1, BeginBlocks
<1>12. CASE Begin("data", write, {})
  BY <1>8, <1>10, <1>12, BeginBlocks
<1> QED
  BY <1>7, <1>11, <1>12

LEMMA DeleteFileBlocks ==
  ASSUME Types, OwnersInv, NEW path \in Path \cup {<<Image.name>>}, DeleteFile(path)
  PROVE  OwnersInv'
<1>1. PICK i : i = Lookup(path)
  OBVIOUS
<1>2. i \in Ino
  <2>1. i \in Ino \cup {0}
    BY <1>1, PathsAreSeqs, LookupType DEF Types
  <2> QED
    BY <1>1, <2>1 DEF DeleteFile
<1>3. PICK list : list = LoadBlockList(inode[i].pointers, inode[i].size)
  OBVIOUS
<1>4. list # <<>> /\ ToSet(list) \subseteq BlocksOf(i) /\ i \in Owners
  <2>1. inode[i].pointers \in Pointers /\ inode[i].size \in Nat
    BY <1>2 DEF Types, DiskTypes
  <2>2. list # <<>>
    BY <1>1, <1>3 DEF DeleteFile
  <2>3. inode[i].size # 0
    BY <1>3, <2>1, <2>2, LoadedList
  <2>4. i \in Owners
    BY <1>2, <2>3 DEF OwnersInv, OwnerFits
  <2> QED
    BY <1>3, <2>1, <2>2, <2>4, LoadedList DEF BlocksOf
<1>5. PICK locals : locals = [NoOp EXCEPT !.path = path, !.ino = i, !.list = list]
  OBVIOUS
<1>6. stage = "idle" /\ Begin("bfree", locals, {})
  BY <1>1, <1>3, <1>5 DEF DeleteFile
<1>7. locals.kind = "none" /\ locals.ino = i /\ locals.list = list
  BY <1>5 DEF NoOp
<1> QED
  BY <1>4, <1>6, <1>7, BeginBlocks

LEMMA NextOwners ==
  ASSUME Types, OwnersInv, [Ext2Next]_ext2Vars
  PROVE  OwnersInv'
<1>1. CASE UNCHANGED ext2Vars
  <2>1. UNCHANGED <<bitmap, inode, stage, op, unmarked, cut>>
    BY <1>1 DEF ext2Vars, disk, history
  <2>2. InUse' = InUse /\ Owners' = Owners /\ Kept' = Kept
    BY <2>1, InodesStay DEF Owners, Kept, Deleting
  <2>3. \A i : BlocksOf(i)' = BlocksOf(i)
    BY <2>1, InodesStay
  <2>4. UsedBlocksAreMarked' /\ BlocksHaveOneOwner'
    BY <2>1, <2>2, <2>3, UsedIs, UsedIsNext DEF OwnersInv, BlocksInv
  <2>5. TakenBlocks'
    BY <2>1, <2>2, <2>3 DEF OwnersInv, BlocksInv, TakenBlocks
  <2>6. BlocksOf(op.ino)' = BlocksOf(op.ino)
    BY <2>1 DEF BlocksOf
  <2>7. OwnerFits'
    BY <2>1, <2>2, <2>6 DEF OwnersInv, OwnerFits, Making
  <2> QED
    BY <2>4, <2>5, <2>7 DEF OwnersInv, BlocksInv
<1>2. CASE Step
  <2>1. StepFails \/ Reboot \/ DeleteDentry \/ CreateDirectoryEntry \/ WriteData => OwnersInv'
    BY EndingSteps
  <2> QED
    BY <1>2, <2>1, QuietSteps, AllocateInodeBlocks, AllocateBlockBlocks, DeallocateBlockBlocks,
       InitializeInodeBlocks, WriteInodeBlocks, ZeroInodeBlocks, InodeWriteLostBlocks DEF Step
<1> QED
  BY <1>1, <1>2, CreateFileBlocks, WriteFileBlocks, DeleteFileBlocks DEF Ext2Next

-----------------------------------------------------------------------------
\* The free counts.  The clear bits of a group that a write can mark:
Markable(g) == {b \in Block \ bitmap : GroupOfBlock(b) = g /\ InFirstSector(b)}

Lost == fault \in {"reboot", "write", "read"}

LEMMA CountsIs ==
  /\ CountsCoverClearBits <=> (~Lost => \A g \in Group : free[g] >= Cardinality(Markable(g)))
  /\ CountsCoverClearBits' <=> (~Lost' => \A g \in Group : free'[g] >= Cardinality(Markable(g)'))
  BY DEF CountsCoverClearBits, Markable, Lost

LEMMA MarkableIsFinite ==
  ASSUME NEW g
  PROVE  IsFiniteSet(Markable(g)) /\ Cardinality(Markable(g)) \in Nat
<1>1. IsFiniteSet(Markable(g))
  BY Numbers, FS_Subset DEF Markable
<1> QED
  BY <1>1, FS_CardinalityType

LEMMA CountsStay ==
  ASSUME CountsCoverClearBits, Lost => Lost', ~Lost' => UNCHANGED <<bitmap, free>>
  PROVE  CountsCoverClearBits'
<1>1. SUFFICES ASSUME ~Lost' PROVE \A g \in Group : free'[g] >= Cardinality(Markable(g)')
  BY CountsIs
<1>2. \A g : Markable(g)' = Markable(g)
  BY <1>1 DEF Markable
<1> QED
  BY <1>1, <1>2, CountsIs

LEMMA AllocateBlockCounts ==
  ASSUME Types, CountsCoverClearBits, NEW seen, NEW written \in BOOLEAN,
         AllocateBlock(seen, written)
  PROVE  CountsCoverClearBits'
<1>1. CASE GivesUp
  BY <1>1, CountsStay DEF GivesUp, disk, counts, Lost
<1>2. ASSUME NEW b \in AllocatableBlocks(seen), \A c \in AllocatableBlocks(seen) : b <= c,
             TakesBlock(b, seen, written)
      PROVE  CountsCoverClearBits'
  <2>1. SUFFICES ASSUME ~Lost', NEW g \in Group
                 PROVE  free'[g] >= Cardinality(Markable(g)')
    BY CountsIs
  <2>2. written /\ ~Lost /\ seen = bitmap
    BY <1>2, <2>1, BitmapReadFault DEF TakesBlock, Lost
  <2>3. PICK h \in Group : h = GroupOfBlock(b)
    BY Numbers DEF AllocatableBlocks
  <2>4. b \in Block \ bitmap /\ free[h] > 0
    BY <2>2, <2>3 DEF AllocatableBlocks
  <2>5. free \in [Group -> Nat] /\ free' = [free EXCEPT ![h] = free[h] - 1]
    BY <1>2, <2>3 DEF Types, MemoryTypes, TakesBlock
  <2>6. bitmap' = IF InFirstSector(b) THEN bitmap \cup {b} ELSE bitmap
    BY <1>2, <2>2, <2>4 DEF TakesBlock, WriteBitmap, Written, BlocksIn
  <2>7. free[g] >= Cardinality(Markable(g)) /\ Cardinality(Markable(g)) \in Nat
    BY <2>2, CountsIs, MarkableIsFinite
  <2>8. CASE g # h
    <3>1. Markable(g)' = Markable(g)
      BY <2>3, <2>6, <2>8 DEF Markable
    <3>2. free'[g] = free[g]
      BY <2>5, <2>8
    <3> QED
      BY <2>7, <3>1, <3>2
  <2>9. CASE g = h /\ InFirstSector(b)
    <3>1. b \in Markable(g) /\ Markable(g)' = Markable(g) \ {b}
      BY <2>3, <2>4, <2>6, <2>9 DEF Markable
    <3>2. Cardinality(Markable(g) \ {b}) = Cardinality(Markable(g)) - 1
      BY <3>1, MarkableIsFinite, FS_RemoveElement
    <3>3. free'[g] = free[g] - 1 /\ free[g] \in Nat
      BY <2>5, <2>9
    <3> QED
      BY <2>7, <3>1, <3>2, <3>3
  <2>10. CASE g = h /\ ~InFirstSector(b)
    <3>1. Markable(g) = {}
      <4>1. SUFFICES ASSUME NEW c \in Markable(g) PROVE FALSE
        OBVIOUS
      <4>2. /\ c \in AllocatableBlocks(seen) /\ InFirstSector(c) /\ c \in Block
            /\ GroupOfBlock(c) = GroupOfBlock(b)
        BY <2>2, <2>3, <2>4, <2>10 DEF Markable, AllocatableBlocks
      <4>3. c < b
        BY <2>4, <2>10, <4>2, FirstSectorIsFirst
      <4>4. b <= c /\ b \in Nat /\ c \in Nat
        BY <1>2, <2>4, <4>2, Numbers
      <4> QED
        BY <4>3, <4>4
    <3>2. Markable(g)' = Markable(g)
      BY <2>6, <2>10 DEF Markable
    <3>3. free'[g] = free[g] - 1 /\ free[g] \in Nat
      BY <2>5, <2>10
    <3> QED
      BY <2>4, <2>10, <3>1, <3>2, <3>3, FS_EmptySet
  <2> QED
    BY <2>8, <2>9, <2>10
<1> QED
  BY <1>1, <1>2, AllocateBlockIs

LEMMA DeallocateBlockCounts ==
  ASSUME Types, OwnerFits, CountsCoverClearBits, NEW seen, NEW written \in BOOLEAN,
         DeallocateBlock(seen, written)
  PROVE  CountsCoverClearBits'
<1>1. CASE StopsFreeing
  BY <1>1, CountsStay DEF StopsFreeing, disk, counts, Lost
<1>2. ASSUME NEW b \in Block, b \in seen, FreesBlock(b, seen, written)
      PROVE  CountsCoverClearBits'
  <2>1. SUFFICES ASSUME ~Lost', NEW g \in Group
                 PROVE  free'[g] >= Cardinality(Markable(g)')
    BY CountsIs
  <2>2. written /\ ~Lost /\ seen = bitmap
    BY <1>2, <2>1, BitmapReadFault DEF FreesBlock, Lost
  <2>3. PICK h \in Group : h = GroupOfBlock(b)
    BY Numbers
  <2>4. free \in [Group -> Nat] /\ free' = [free EXCEPT ![h] = free[h] + 1]
    BY <1>2, <2>3 DEF Types, MemoryTypes, FreesBlock
  <2>5. bitmap \subseteq bitmap' \cup {b}
    BY <1>2, <2>2 DEF FreesBlock, WriteBitmap
  <2>6. /\ free[g] >= Cardinality(Markable(g)) /\ Cardinality(Markable(g)) \in Nat
        /\ IsFiniteSet(Markable(g)) /\ free[g] \in Nat
    BY <2>2, <2>4, CountsIs, MarkableIsFinite
  <2>7. CASE g # h
    <3>1. Markable(g)' \subseteq Markable(g)
      BY <2>3, <2>5, <2>7 DEF Markable
    <3>2. Cardinality(Markable(g)') <= Cardinality(Markable(g)) /\ Cardinality(Markable(g)') \in Nat
      BY <2>6, <3>1, FS_Subset, FS_CardinalityType
    <3>3. free'[g] = free[g]
      BY <2>4, <2>7
    <3> QED
      BY <2>6, <3>2, <3>3
  <2>8. CASE g = h
    <3>1. PICK S : S = Markable(g) \cup {b}
      OBVIOUS
    <3>2. /\ IsFiniteSet(S)
          /\ Cardinality(S) = Cardinality(Markable(g)) \/ Cardinality(S) = Cardinality(Markable(g)) + 1
      BY <2>6, <3>1, FS_AddElement
    <3>3. Markable(g)' \subseteq S
      BY <2>5, <3>1 DEF Markable
    <3>4. Cardinality(Markable(g)') <= Cardinality(S) /\ Cardinality(Markable(g)') \in Nat
      BY <3>2, <3>3, FS_Subset, FS_CardinalityType
    <3>5. free'[g] = free[g] + 1
      BY <2>4, <2>8
    <3> QED
      BY <2>6, <3>2, <3>4, <3>5
  <2> QED
    BY <2>7, <2>8
<1> QED
  BY <1>1, <1>2, DeallocateBlockIs

LEMMA NextCounts ==
  ASSUME Types, OwnerFits, CountsCoverClearBits, [Ext2Next]_ext2Vars
  PROVE  CountsCoverClearBits'
<1>1. CASE UNCHANGED ext2Vars
  BY <1>1, CountsStay DEF ext2Vars, disk, counts, history, Lost
<1>2. ASSUME NEW w \in BOOLEAN, AllocateInode(w) PROVE CountsCoverClearBits'
  <2>1. CASE GivesUp
    BY <2>1, CountsStay DEF GivesUp, disk, counts, Lost
  <2>2. ASSUME NEW g, NEW i, TakesInode(g, i, w) PROVE CountsCoverClearBits'
    <3>1. UNCHANGED <<bitmap, free>> /\ (fault' = fault \/ fault' = "write")
      BY <2>2 DEF TakesInode, BitmapWrite
    <3> QED
      BY <3>1, CountsStay DEF Lost
  <2> QED
    BY <1>2, <2>1, <2>2, AllocateInodeIs
<1>3. CASE \/ InitializeInode \/ WriteInode \/ InitializeDirectory \/ CreateDirectoryEntry
           \/ WriteData \/ ZeroInode \/ ClearInodeBit \/ DeleteDentry
  <2>1. UNCHANGED <<bitmap, free, fault>>
    BY <1>3 DEF InitializeInode, WriteInode, InitializeDirectory, CreateDirectoryEntry, WriteData,
                ZeroInode, ClearInodeBit, DeleteDentry, counts, history
  <2> QED
    BY <2>1, CountsStay DEF Lost
<1>4. CASE StepFails \/ InodeWriteLost \/ Reboot
  <2>1. fault = "none"
    BY <1>4 DEF StepFails, InodeWriteLost, Reboot
  <2>2. fault' = "reboot" \/ UNCHANGED <<bitmap, free>>
    BY <1>4 DEF StepFails, InodeWriteLost, Reboot, disk, counts
  <2> QED
    BY <2>1, <2>2, CountsStay DEF Lost
<1>5. CASE \/ \E path \in Path, kind \in {"file", "dir"} : CreateFile(path, kind)
           \/ \E path \in Path, size \in Sizes : WriteFile(path, size)
           \/ \E path \in Path \cup {<<Image.name>>} : DeleteFile(path)
  <2>1. UNCHANGED <<disk, counts, loose, fault>>
    BY <1>5 DEF CreateFile, WriteFile, DeleteFile, Begin
  <2> QED
    BY <2>1, CountsStay DEF disk, counts, Lost
<1> QED
  BY <1>1, <1>2, <1>3, <1>4, <1>5, AllocateBlockCounts, DeallocateBlockCounts DEF Ext2Next, Step

-----------------------------------------------------------------------------
\* Names.  An entry is a block and a place in it behind the first.
LEMMA EntriesAre ==
  ASSUME DiskTypes
  PROVE  /\ \A b \in Block : Len(content[b]) \in Nat /\ DOMAIN content[b] = 1..Len(content[b])
         /\ \A e : e \in DirectoryEntries <=>
              \E b \in Block : \E k \in 1..Len(content[b]) : k # 1 /\ e = <<b, k>>
         /\ \A b, k : InoOf(<<b, k>>) = content[b][k].ino
         /\ \A e \in DirectoryEntries : InoOf(e) \in Ino
<1>1. \A b \in Block : content[b] \in Seq(Entry)
  BY DEF DiskTypes
<1>2. \A b \in Block : Len(content[b]) \in Nat /\ DOMAIN content[b] = 1..Len(content[b])
  BY <1>1
<1>3. \A e : e \in DirectoryEntries <=>
              \E b \in Block : \E k \in 1..Len(content[b]) : k # 1 /\ e = <<b, k>>
  <2> TAKE e
  <2>1. e \in DirectoryEntries <=> \E b \in Block : e \in {b} \X (DOMAIN content[b] \ {1})
    BY DEF DirectoryEntries
  <2>2. \A b \in Block : e \in {b} \X (DOMAIN content[b] \ {1}) <=>
                         \E k \in 1..Len(content[b]) : k # 1 /\ e = <<b, k>>
    BY <1>2
  <2> QED
    BY <2>1, <2>2
<1>4. \A b, k : InoOf(<<b, k>>) = content[b][k].ino
  BY DEF InoOf
<1>5. \A b \in Block : \A k \in 1..Len(content[b]) : content[b][k].ino \in Ino
  BY <1>1, <1>2, LensAreNat
<1>6. \A e \in DirectoryEntries : InoOf(e) \in Ino
  BY <1>3, <1>4, <1>5
<1> QED
  BY <1>2, <1>3, <1>4, <1>6

LEMMA EntriesAreNext ==
  ASSUME DiskTypes'
  PROVE  /\ \A b \in Block : Len(content'[b]) \in Nat /\ DOMAIN content'[b] = 1..Len(content'[b])
         /\ \A e : e \in DirectoryEntries' <=>
              \E b \in Block : \E k \in 1..Len(content'[b]) : k # 1 /\ e = <<b, k>>
         /\ \A b, k : InoOf(<<b, k>>)' = content'[b][k].ino
<1>1. \A b \in Block : content'[b] \in Seq(Entry)
  BY DEF DiskTypes
<1>2. \A b \in Block : Len(content'[b]) \in Nat /\ DOMAIN content'[b] = 1..Len(content'[b])
  BY <1>1
<1>3. \A e : e \in DirectoryEntries' <=>
              \E b \in Block : \E k \in 1..Len(content'[b]) : k # 1 /\ e = <<b, k>>
  <2> TAKE e
  <2>1. e \in DirectoryEntries' <=> \E b \in Block : e \in {b} \X (DOMAIN content'[b] \ {1})
    BY DEF DirectoryEntries
  <2>2. \A b \in Block : e \in {b} \X (DOMAIN content'[b] \ {1}) <=>
                         \E k \in 1..Len(content'[b]) : k # 1 /\ e = <<b, k>>
    BY <1>2
  <2> QED
    BY <2>1, <2>2
<1>4. \A b, k : InoOf(<<b, k>>)' = content'[b][k].ino
  BY DEF InoOf
<1> QED
  BY <1>2, <1>3, <1>4

\* Every entry of the next state is one that was there, maybe in another
\* place; none is for the inodes that are gone.
Carried(from, gone) ==
  /\ from \in [DirectoryEntries' -> DirectoryEntries]
  /\ \A e, f \in DirectoryEntries' : e # f => from[e] # from[f]
  /\ \A e \in DirectoryEntries' : InoOf(e)' = InoOf(from[e]) /\ InoOf(e)' \notin gone

LEMMA NamesStay ==
  ASSUME NamingInv, NEW from, NEW gone, Carried(from, gone),
         loose \subseteq loose', cut \subseteq cut',
         InUse \subseteq InUse' \cup cut' \cup Kept',
         Kept \subseteq cut' \cup Kept' \cup gone,
         \A i \in imap[0] \cap (InUse \cup cut \cup Kept) :
           i \in imap'[0] \cup loose' \cup cut' \cup Kept' \cup gone,
         NewIsUnnamed'
  PROVE  NamingInv'
<1>1. /\ \A e \in DirectoryEntries' : from[e] \in DirectoryEntries
      /\ \A e \in DirectoryEntries' : InoOf(e)' = InoOf(from[e]) /\ InoOf(e)' \notin gone
      /\ \A e, f \in DirectoryEntries' : e # f => from[e] # from[f]
  BY DEF Carried
<1>2. InodesHaveOneName'
  <2>1. ASSUME NEW e \in DirectoryEntries', NEW f \in DirectoryEntries', e # f, InoOf(e)' = InoOf(f)'
        PROVE  InoOf(e)' \in loose' \cup cut'
    <3>1. from[e] # from[f] /\ InoOf(from[e]) = InoOf(from[f])
      BY <1>1, <2>1
    <3>2. InoOf(from[e]) \in loose \cup cut
      BY <1>1, <3>1 DEF NamingInv, InodesHaveOneName
    <3> QED
      BY <1>1, <3>2
  <2> QED
    BY <2>1 DEF InodesHaveOneName
<1>3. \A e \in DirectoryEntries' : InoOf(e)' \in InUse \cup cut \cup Kept
  BY <1>1 DEF NamingInv, NamesLeadToInodes
<1>4. NamesLeadToInodes'
  <2>1. \A e \in DirectoryEntries' : InoOf(e)' \in InUse' \cup cut' \cup Kept'
    BY <1>1, <1>3
  <2> QED
    BY <2>1 DEF NamesLeadToInodes
<1>5. NamesAreMarked'
  <2>1. ASSUME NEW e \in DirectoryEntries' PROVE InoOf(e)' \in imap'[0] \cup loose' \cup cut' \cup Kept'
    <3>1. InoOf(e)' \in imap[0] \cup loose \cup cut \cup Kept /\ InoOf(e)' \notin gone
      BY <1>1 DEF NamingInv, NamesAreMarked
    <3> QED
      BY <1>3, <3>1
  <2> QED
    BY <2>1 DEF NamesAreMarked
<1> QED
  BY <1>2, <1>4, <1>5 DEF NamingInv

\* The entries that are left are where they were.
Fewer ==
  /\ DirectoryEntries' \subseteq DirectoryEntries
  /\ \A e \in DirectoryEntries' : InoOf(e)' = InoOf(e)

LEMMA FewerIsCarried ==
  ASSUME Fewer
  PROVE  Carried([e \in DirectoryEntries' |-> e], {})
  BY DEF Fewer, Carried

LEMMA SameIsFewer ==
  ASSUME content' = content
  PROVE  Fewer
  BY DEF Fewer, DirectoryEntries, InoOf

LEMMA EmptiedIsFewer ==
  ASSUME DiskTypes, DiskTypes',
         \A b \in Block : content'[b] = content[b] \/ Len(content'[b]) \in {0, 1}
  PROVE  Fewer
<1>0. \A l \in Nat : \A j \in 1..l : j # 1 => l \notin {0, 1}
  OBVIOUS
<1>1. ASSUME NEW e \in DirectoryEntries' PROVE e \in DirectoryEntries /\ InoOf(e)' = InoOf(e)
  <2>1. PICK b \in Block : \E k \in 1..Len(content'[b]) : k # 1 /\ e = <<b, k>>
    BY EntriesAreNext
  <2>2. PICK k \in 1..Len(content'[b]) : k # 1 /\ e = <<b, k>>
    BY <2>1
  <2>3. content'[b] = content[b]
    <3>1. PICK m \in Nat : m = Len(content'[b])
      BY EntriesAreNext
    <3>2. k \in 1..m /\ k # 1
      BY <2>2, <3>1
    <3>3. m \notin {0, 1}
      BY <1>0, <3>1, <3>2
    <3> QED
      BY <3>1, <3>3
  <2>4. e \in DirectoryEntries
    BY <2>2, <2>3, EntriesAre
  <2>5. InoOf(e)' = content'[b][k].ino /\ InoOf(e) = content[b][k].ino
    BY <2>2, EntriesAre, EntriesAreNext
  <2> QED
    BY <2>3, <2>4, <2>5
<1> QED
  BY <1>1 DEF Fewer

LEMMA NewStaysUnnamed ==
  ASSUME NamingInv, Fewer, imap[0] \subseteq imap'[0], loose \subseteq loose', cut \subseteq cut',
         op'.ino = op.ino, op'.kind = op.kind,
         stage \in {"iinit", "balloc", "iwrite", "dots", "link"}
  PROVE  NewIsUnnamed'
<1>1. Making' <=> Making
  BY DEF Making
<1> QED
  BY <1>1 DEF NamingInv, NewIsUnnamed, Fewer

LEMMA NewIsNot ==
  ASSUME op'.kind \notin {"file", "dir"} \/ stage' \notin {"iinit", "balloc", "iwrite", "dots", "link"}
  PROVE  NewIsUnnamed'
  BY DEF NewIsUnnamed, Making

\* A call that ends: an inode whose deletion was cut short is one of the cut.
LEMMA EndKeepsNames ==
  ASSUME NamingInv, NEW kept, Return(kept), NEW from, NEW gone, Carried(from, gone),
         Kept \subseteq kept \cup gone, UNCHANGED <<imap, inode, loose>>
  PROVE  NamingInv'
<1>1. stage' = "idle" /\ op' = NoOp /\ cut' = cut \cup kept
  BY DEF Return, LetGo
<1>2. InUse' = InUse
  BY InodesStay
<1>3. NewIsUnnamed'
  BY <1>1, NewIsNot
<1>4. Kept \subseteq cut' \cup Kept' \cup gone
  BY <1>1
<1>5. \A i \in imap[0] \cap (InUse \cup cut \cup Kept) :
        i \in imap'[0] \cup loose' \cup cut' \cup Kept' \cup gone
  OBVIOUS
<1> QED
  BY <1>1, <1>2, <1>3, <1>4, <1>5, NamesStay

\* A step of a call that leaves the directories and the inode bitmap alone.
LEMMA QuietKeepsNames ==
  ASSUME NamingInv, Fewer, imap'[0] = imap[0], loose \subseteq loose', cut \subseteq cut',
         InUse \subseteq InUse' \cup Kept', Kept \subseteq Kept', NewIsUnnamed'
  PROVE  NamingInv'
<1>1. PICK from : Carried(from, {})
  BY FewerIsCarried
<1>2. \A i \in imap[0] \cap (InUse \cup cut \cup Kept) :
        i \in imap'[0] \cup loose' \cup cut' \cup Kept' \cup {}
  OBVIOUS
<1>3. Kept \subseteq cut' \cup Kept' \cup {} /\ InUse \subseteq InUse' \cup cut' \cup Kept'
  OBVIOUS
<1> QED
  BY <1>1, <1>2, <1>3, NamesStay

LEMMA EndingNames ==
  ASSUME Types, Types', NamingInv, StepFails \/ Reboot \/ WriteData \/ (GivesUp /\ Kept = {})
  PROVE  NamingInv'
<1>1. CASE StepFails \/ Reboot
  <2>1. Return(Kept) /\ UNCHANGED <<imap, inode, loose, content>>
    BY <1>1 DEF StepFails, Reboot, disk
  <2>2. PICK from : Carried(from, {})
    BY <2>1, SameIsFewer, FewerIsCarried
  <2> QED
    BY <2>1, <2>2, EndKeepsNames
<1>2. CASE GivesUp /\ Kept = {}
  <2>1. Return({}) /\ UNCHANGED <<imap, inode, loose, content>>
    BY <1>2 DEF GivesUp, disk
  <2>2. PICK from : Carried(from, {})
    BY <2>1, SameIsFewer, FewerIsCarried
  <2> QED
    BY <1>2, <2>1, <2>2, EndKeepsNames
<1>3. CASE WriteData
  <2>1. Return({}) /\ UNCHANGED <<imap, inode, loose>> /\ Kept = {}
    BY <1>3, NotDeleting DEF WriteData
  <2>2. \A b \in Block : content'[b] = content[b] \/ content'[b] = <<>>
    BY <1>3 DEF WriteData
  <2>3. Fewer
    <3>1. Len(<<>>) = 0
      OBVIOUS
    <3>2. \A b \in Block : content'[b] = content[b] \/ Len(content'[b]) \in {0, 1}
      BY <2>2, <3>1
    <3> QED
      BY <3>2, EmptiedIsFewer DEF Types
  <2>4. PICK from : Carried(from, {})
    BY <2>3, FewerIsCarried
  <2> QED
    BY <2>1, <2>4, EndKeepsNames
<1> QED
  BY <1>1, <1>2, <1>3

LEMMA AllocateInodeNames ==
  ASSUME Types, Types', NamingInv, NEW written \in BOOLEAN, AllocateInode(written)
  PROVE  NamingInv'
<1>1. stage = "ialloc" /\ Kept = {}
  BY NotDeleting DEF AllocateInode
<1>2. CASE GivesUp
  BY <1>1, <1>2, EndingNames
<1>3. ASSUME NEW g \in Group, NEW i \in Ino \ imap[g], TakesInode(g, i, written)
      PROVE  NamingInv'
  <2>1. UNCHANGED <<inode, content, cut>> /\ loose \subseteq loose' /\ stage' = "iinit"
    BY <1>3 DEF TakesInode
  <2>2. Fewer
    BY <2>1, SameIsFewer
  <2>3. InUse' = InUse
    BY <2>1, InodesStay
  <2>4. imap[0] \subseteq imap'[0] /\ (g = 0 /\ written => i \in imap'[0])
    BY <1>3, Numbers DEF TakesInode, Types, DiskTypes
  <2>5. op'.ino = i
    BY <1>3 DEF TakesInode, Types, MemoryTypes, Locals
  <2>6. NewIsUnnamed'
    <3>1. CASE g > 0 \/ ~written
      <4>1. i \in loose'
        BY <1>3, <3>1 DEF TakesInode
      <4> QED
        BY <2>5, <4>1 DEF NewIsUnnamed
    <3>2. CASE ~(g > 0) /\ written
      <4>1. g = 0
        BY <3>2, Numbers
      <4>2. \A e \in DirectoryEntries : InoOf(e) = i => i \in loose \cup cut
        BY <1>1, <1>3, <4>1 DEF NamingInv, NamesAreMarked
      <4>3. \A e \in DirectoryEntries' : InoOf(e)' = i => i \in loose' \cup cut'
        BY <2>1, <2>2, <4>2 DEF Fewer
      <4> QED
        BY <2>4, <2>5, <3>2, <4>1, <4>3 DEF NewIsUnnamed
    <3> QED
      BY <3>1, <3>2
  <2>7. PICK from : Carried(from, {})
    BY <2>2, FewerIsCarried
  <2>8. \A j \in imap[0] \cap (InUse \cup cut \cup Kept) :
          j \in imap'[0] \cup loose' \cup cut' \cup Kept' \cup {}
    BY <2>4
  <2>9. Kept \subseteq cut' \cup Kept' \cup {} /\ InUse \subseteq InUse' \cup cut' \cup Kept'
    BY <1>1, <2>3
  <2> QED
    BY <2>1, <2>6, <2>7, <2>8, <2>9, NamesStay
<1> QED
  BY <1>2, <1>3, AllocateInodeIs

\* The steps between the allocation of an inode and its name.
LEMMA MakingNames ==
  ASSUME Types, Types', NamingInv, InitializeInode \/ WriteInode \/ InitializeDirectory
  PROVE  NamingInv'
<1>1. /\ stage \in {"iinit", "balloc", "iwrite", "dots", "link"} /\ UNCHANGED <<imap, loose, cut>>
      /\ op'.ino = op.ino /\ op'.kind = op.kind
  <2>1. op \in Locals
    BY DEF Types, MemoryTypes
  <2> QED
    BY <2>1 DEF InitializeInode, WriteInode, InitializeDirectory, history, Locals
<1>2. Kept = {}
  BY <1>1, NotDeleting
<1>3. Fewer
  <2>1. CASE InitializeInode \/ WriteInode
    BY <2>1, SameIsFewer DEF InitializeInode, WriteInode
  <2>2. CASE InitializeDirectory
    <3>1. \A b \in Block : content'[b] = content[b] \/ content'[b] = Dots(op.ino)
      BY <2>2, InitializeDirectoryIs
    <3>2. Len(Dots(op.ino)) = 1
      BY <2>2, InitializeDirectoryIs, DotsFit
    <3>3. \A b \in Block : content'[b] = content[b] \/ Len(content'[b]) \in {0, 1}
      BY <3>1, <3>2
    <3> QED
      BY <3>3, EmptiedIsFewer DEF Types
  <2> QED
    BY <2>1, <2>2
<1>4. InUse \subseteq InUse'
  <2>0. PICK x : x = op.ino
    OBVIOUS
  <2>1. CASE InitializeInode
    <3>1. PICK new : new = [NoInode EXCEPT !.kind = op.kind]
      OBVIOUS
    <3>2. x \in Ino /\ inode' = [inode EXCEPT ![x] = new] /\ new.kind # "none"
      BY <2>0, <2>1, <3>1 DEF InitializeInode, Types, CallFits, Making, NoInode
    <3> QED
      BY <3>2, InodePut DEF Types
  <2>2. CASE WriteInode
    <3>1. \A i \in Ino : inode'[i].kind = inode[i].kind
      BY <2>2 DEF WriteInode, Types, DiskTypes
    <3> QED
      BY <3>1 DEF InUse
  <2>3. CASE InitializeDirectory
    BY <2>3, InodesStay DEF InitializeDirectory
  <2> QED
    BY <2>1, <2>2, <2>3
<1>5. NewIsUnnamed'
  BY <1>1, <1>3, NewStaysUnnamed
<1> QED
  BY <1>1, <1>2, <1>3, <1>4, <1>5, QuietKeepsNames

LEMMA AllocateBlockNames ==
  ASSUME Types, Types', NamingInv, NEW seen, NEW written \in BOOLEAN, AllocateBlock(seen, written)
  PROVE  NamingInv'
<1>1. stage = "balloc" /\ Kept = {}
  BY NotDeleting DEF AllocateBlock
<1>2. CASE GivesUp
  BY <1>1, <1>2, EndingNames
<1>3. ASSUME NEW b, TakesBlock(b, seen, written) PROVE NamingInv'
  <2>1. UNCHANGED <<imap, inode, content, loose, cut>>
    BY <1>3 DEF TakesBlock
  <2>2. op'.ino = op.ino /\ op'.kind = op.kind
    <3>1. op \in Locals
      BY DEF Types, MemoryTypes
    <3>2. PICK l, k : op' = [op EXCEPT !.need = k, !.list = l]
      BY <1>3 DEF TakesBlock
    <3> QED
      BY <3>1, <3>2 DEF Locals
  <2>3. Fewer /\ InUse' = InUse
    BY <2>1, SameIsFewer, InodesStay
  <2>4. NewIsUnnamed'
    BY <1>1, <2>1, <2>2, <2>3, NewStaysUnnamed
  <2> QED
    BY <1>1, <2>1, <2>3, <2>4, QuietKeepsNames
<1> QED
  BY <1>2, <1>3, AllocateBlockIs

\* A deletion on its way: the inode stays in hand.
LEMMA DeletingNames ==
  ASSUME Types, Types', OwnerFits, NamingInv,
         ZeroInode \/ ClearInodeBit \/ \E seen, w : w \in BOOLEAN /\ DeallocateBlock(seen, w)
  PROVE  NamingInv'
<1>0. PICK x : x = op.ino
  OBVIOUS
<1>1. CASE ZeroInode
  <2>1. /\ stage = "izero" /\ stage' = "iclear" /\ op' = op
        /\ UNCHANGED <<imap, content, loose, cut>> /\ x \in Ino
    BY <1>0, <1>1 DEF ZeroInode, history, Types, CallFits
  <2>2. Kept = {x} /\ Kept' = {x} /\ Fewer /\ NewIsUnnamed'
    BY <1>0, <2>1, SameIsFewer, NewIsNot DEF Kept, Deleting
  <2>3. \A i \in Ino : i # x => inode'[i] = inode[i]
    BY <1>0, <1>1, <2>1 DEF ZeroInode, Types, DiskTypes
  <2>4. InUse \subseteq InUse' \cup Kept'
    BY <2>2, <2>3 DEF InUse
  <2> QED
    BY <2>1, <2>2, <2>4, QuietKeepsNames
<1>2. CASE ClearInodeBit
  <2>1. PICK g : g = (op.ino - 1) \div GroupInodes
    OBVIOUS
  <2>2. /\ imap' = [imap EXCEPT ![g] = @ \ ClearedBits(op.ino)]
        /\ loose' = loose \cup {i \in ClearedBits(op.ino) \cap imap[g] : inode[i].kind # "none"}
        /\ stage = "iclear" /\ stage' = "unlink" /\ UNCHANGED <<inode, content, op, cut>>
    BY <1>2, <2>1 DEF ClearInodeBit
  <2>3. Kept = {x} /\ Kept' = {x} /\ Fewer /\ NewIsUnnamed' /\ InUse' = InUse
    BY <1>0, <2>2, SameIsFewer, NewIsNot, InodesStay DEF Kept, Deleting
  <2>4. \A i \in imap[0] \cap (InUse \cup cut \cup Kept) :
          i \in imap'[0] \cup loose' \cup cut' \cup Kept' \cup {}
    <3> TAKE i \in imap[0] \cap (InUse \cup cut \cup Kept)
    <3>1. CASE i \in cut \cup Kept
      BY <2>2, <2>3, <3>1
    <3>2. CASE i \in InUse
      <4>1. PICK C : C = ClearedBits(op.ino)
        OBVIOUS
      <4>2. inode[i].kind # "none"
        BY <3>2 DEF InUse
      <4>3. CASE g = 0 /\ i \in C
        BY <2>2, <4>1, <4>2, <4>3
      <4>4. CASE ~(g = 0 /\ i \in C)
        <5>1. imap' = [imap EXCEPT ![g] = imap[g] \ C] /\ DOMAIN imap = Group /\ 0 \in Group
          BY <2>2, <4>1, Numbers DEF Types, DiskTypes
        <5>2. i \in imap'[0]
          BY <4>4, <5>1
        <5> QED
          BY <5>2
      <4> QED
        BY <4>3, <4>4
    <3> QED
      BY <3>1, <3>2
  <2>5. PICK from : Carried(from, {})
    BY <2>3, FewerIsCarried
  <2>6. Kept \subseteq cut' \cup Kept' \cup {} /\ InUse \subseteq InUse' \cup cut' \cup Kept'
    BY <2>3
  <2>7. loose \subseteq loose' /\ cut \subseteq cut'
    BY <2>2
  <2> QED
    BY <2>3, <2>4, <2>5, <2>6, <2>7, NamesStay
<1>3. ASSUME NEW seen, NEW w \in BOOLEAN, DeallocateBlock(seen, w) PROVE NamingInv'
  <2>1. stage = "bfree"
    BY <1>3, DeallocateBlockIs
  <2>2. CASE StopsFreeing
    <3>1. Return(Kept) /\ UNCHANGED <<imap, inode, loose, content>>
      BY <2>2 DEF StopsFreeing, disk
    <3>2. PICK from : Carried(from, {})
      BY <3>1, SameIsFewer, FewerIsCarried
    <3> QED
      BY <3>1, <3>2, EndKeepsNames
  <2>3. ASSUME NEW b, FreesBlock(b, seen, w) PROVE NamingInv'
    <3>1. stage' \in {"izero", "bfree"} /\ UNCHANGED <<imap, inode, content, loose, cut>>
      BY <2>3 DEF FreesBlock
    <3>2. op'.ino = op.ino
      BY <2>3 DEF FreesBlock, Types, MemoryTypes, Locals
    <3>3. Kept = {x} /\ Kept' = {x} /\ Fewer /\ NewIsUnnamed' /\ InUse' = InUse
      BY <1>0, <2>1, <3>1, <3>2, SameIsFewer, NewIsNot, InodesStay DEF Kept, Deleting
    <3> QED
      BY <3>1, <3>3, QuietKeepsNames
  <2> QED
    BY <1>3, <2>2, <2>3, DeallocateBlockIs
<1> QED
  BY <1>1, <1>2, <1>3

\* The entries behind the one that goes move up by one.
LEMMA ShrunkIsCarried ==
  ASSUME DiskTypes, DiskTypes', NEW b \in Block, NEW r, NEW k, Puts(b, r), Shrunk(content[b], r, k)
  PROVE  /\ <<b, k>> \in DirectoryEntries
         /\ \E from : Carried(from, {}) /\ \A e \in DirectoryEntries' : from[e] # <<b, k>>
<1>1. PICK m \in Nat : m = Len(content[b])
  BY EntriesAre
<1>2. k \in 2..m /\ k \in 1..m /\ k # 1 /\ Len(r) = m - 1
  BY <1>1 DEF Shrunk
<1>3. <<b, k>> \in DirectoryEntries
  BY <1>1, <1>2, EntriesAre
<1> DEFINE at(j) == IF j < k THEN j ELSE j + 1
           from == [e \in DirectoryEntries' |-> IF e[1] = b THEN <<b, at(e[2])>> ELSE e]
<1>4. \A j \in 1..(m - 1) : r[j].ino = content[b][at(j)].ino
  BY <1>1, <1>2 DEF Shrunk
<1>5. \A j \in 1..(m - 1) : j # 1 => at(j) \in 1..m /\ at(j) # 1 /\ at(j) # k
  BY <1>2
<1>6. \A i, j \in 1..(m - 1) : i # j => at(i) # at(j)
  BY <1>2
<1>7. \A c \in Block : content'[c] = IF c = b THEN r ELSE content[c]
  BY DEF Puts, DiskTypes
<1>8. ASSUME NEW e \in DirectoryEntries'
      PROVE  \E c \in Block : \E j \in Nat :
               /\ e = <<c, j>>
               /\ c = b => j \in 1..(m - 1) /\ j # 1
               /\ c # b => e \in DirectoryEntries /\ InoOf(e)' = InoOf(e)
  <2>1. PICK c \in Block : \E j \in 1..Len(content'[c]) : j # 1 /\ e = <<c, j>>
    BY EntriesAreNext
  <2>2. PICK j \in 1..Len(content'[c]) : j # 1 /\ e = <<c, j>>
    BY <2>1
  <2>3. j \in Nat
    BY <2>2, EntriesAreNext
  <2>4. CASE c = b
    <3>1. Len(content'[c]) = m - 1
      BY <1>2, <1>7, <2>4
    <3> QED
      BY <2>2, <2>3, <2>4, <3>1
  <2>5. CASE c # b
    <3>1. content'[c] = content[c]
      BY <1>7, <2>5
    <3>2. e \in DirectoryEntries
      BY <2>2, <3>1, EntriesAre
    <3>3. InoOf(e)' = content'[c][j].ino /\ InoOf(e) = content[c][j].ino
      BY <2>2, EntriesAre, EntriesAreNext
    <3> QED
      BY <2>2, <2>3, <2>5, <3>1, <3>2, <3>3
  <2> QED
    BY <2>4, <2>5
<1>9. ASSUME NEW e \in DirectoryEntries'
      PROVE  /\ from[e] \in DirectoryEntries /\ from[e] # <<b, k>>
             /\ InoOf(e)' = InoOf(from[e])
  <2>1. PICK c \in Block, j \in Nat :
               /\ e = <<c, j>>
               /\ c = b => j \in 1..(m - 1) /\ j # 1
               /\ c # b => e \in DirectoryEntries /\ InoOf(e)' = InoOf(e)
    BY <1>8
  <2>2. CASE c = b
    <3>1. PICK l : l = at(j)
      OBVIOUS
    <3>2. l \in 1..m /\ l # 1 /\ l # k /\ r[j].ino = content[b][l].ino
      BY <1>4, <1>5, <2>1, <2>2, <3>1
    <3>3. from[e] = <<b, l>>
      BY <2>1, <2>2, <3>1
    <3>4. <<b, l>> \in DirectoryEntries /\ InoOf(<<b, l>>) = content[b][l].ino
      BY <1>1, <3>2, EntriesAre
    <3>5. InoOf(e)' = r[j].ino
      BY <1>7, <2>1, <2>2, EntriesAreNext
    <3> HIDE DEF from, at
    <3> QED
      BY <3>2, <3>3, <3>4, <3>5
  <2>3. CASE c # b
    <3>1. from[e] = e
      BY <2>1, <2>3
    <3> HIDE DEF from, at
    <3> QED
      BY <2>1, <2>3, <3>1
  <2> QED
    BY <2>2, <2>3
<1>10. ASSUME NEW e \in DirectoryEntries', NEW f \in DirectoryEntries', e # f
       PROVE  from[e] # from[f]
  <2>1. PICK c \in Block, i \in Nat : e = <<c, i>> /\ (c = b => i \in 1..(m - 1) /\ i # 1)
    BY <1>8
  <2>2. PICK d \in Block, j \in Nat : f = <<d, j>> /\ (d = b => j \in 1..(m - 1) /\ j # 1)
    BY <1>8
  <2>3. /\ from[e] = IF c = b THEN <<b, at(i)>> ELSE <<c, i>>
        /\ from[f] = IF d = b THEN <<b, at(j)>> ELSE <<d, j>>
    BY <2>1, <2>2
  <2>4. PICK p : p = at(i)
    OBVIOUS
  <2>5. PICK q : q = at(j)
    OBVIOUS
  <2>6. c = b /\ d = b /\ i # j => p # q
    BY <1>6, <2>1, <2>2, <2>4, <2>5
  <2>7. c # d \/ i # j
    BY <1>10, <2>1, <2>2
  <2> HIDE DEF from, at
  <2> QED
    BY <2>3, <2>4, <2>5, <2>6, <2>7
<1>11. from \in [DirectoryEntries' -> DirectoryEntries]
  <2>1. DOMAIN from = DirectoryEntries' /\ from = [e \in DirectoryEntries' |-> from[e]]
    OBVIOUS
  <2> HIDE DEF from, at
  <2> QED
    BY <1>9, <2>1
<1> HIDE DEF from, at
<1>12. Carried(from, {})
  BY <1>9, <1>10, <1>11 DEF Carried
<1> QED
  BY <1>3, <1>9, <1>12

LEMMA DeleteDentryNames ==
  ASSUME Types, Types', NamingInv, DeleteDentry
  PROVE  NamingInv'
<1>1. stage = "unlink" /\ UNCHANGED <<imap, inode, loose>>
  BY DeleteDentryIs
<1>2. CASE Return(Kept) /\ content' = content
  <2>1. PICK from : Carried(from, {})
    BY <1>2, SameIsFewer, FewerIsCarried
  <2> QED
    BY <1>1, <1>2, <2>1, EndKeepsNames
<1>3. ASSUME NEW b \in Block, NEW r, NEW k, Puts(b, r), Shrunk(content[b], r, k),
             \/ Return(Kept)
             \/ /\ Return({}) /\ op.ino \notin loose \cup cut
                /\ content[b][k].ino = op.ino
      PROVE  NamingInv'
  <2>1. <<b, k>> \in DirectoryEntries
    BY <1>3, ShrunkIsCarried DEF Types
  <2>2. PICK from : Carried(from, {}) /\ \A e \in DirectoryEntries' : from[e] # <<b, k>>
    BY <1>3, ShrunkIsCarried DEF Types
  <2>3. CASE Return(Kept)
    BY <1>1, <2>2, <2>3, EndKeepsNames
  <2>4. CASE Return({}) /\ op.ino \notin loose \cup cut /\ content[b][k].ino = op.ino
    <3>1. PICK x : x = op.ino
      OBVIOUS
    <3>2. InoOf(<<b, k>>) = x
      BY <2>4, <3>1, EntriesAre DEF Types
    <3>3. \A e \in DirectoryEntries' : InoOf(from[e]) # x
      <4> TAKE e \in DirectoryEntries'
      <4>1. from[e] \in DirectoryEntries /\ from[e] # <<b, k>>
        BY <2>2 DEF Carried
      <4> QED
        BY <2>1, <2>4, <3>1, <3>2, <4>1 DEF NamingInv, InodesHaveOneName
    <3>4. Carried(from, {x})
      BY <2>2, <3>3 DEF Carried
    <3>5. Kept = {x}
      BY <1>1, <3>1 DEF Kept, Deleting
    <3> QED
      BY <1>1, <2>4, <3>4, <3>5, EndKeepsNames
  <2> QED
    BY <1>3, <2>3, <2>4
<1> QED
  BY <1>2, <1>3, DeleteDentryIs

\* An inode that is given a name had none, or is one that a deletion let go of.
LEMMA CreateDirectoryEntryNames ==
  ASSUME Types, Types', OwnerFits, NamingInv, CreateDirectoryEntry
  PROVE  NamingInv'
<1>1. stage = "link" /\ Return({}) /\ UNCHANGED <<imap, inode, loose>> /\ Kept = {}
  BY CreateDirectoryEntryIs, NotDeleting
<1>2. CASE content' = content
  <2>1. PICK from : Carried(from, {})
    BY <1>2, SameIsFewer, FewerIsCarried
  <2> QED
    BY <1>1, <2>1, EndKeepsNames
<1>3. ASSUME NEW b \in Block, NEW r, Puts(b, r), Grown(content[b], r, op.ino) PROVE NamingInv'
  <2>1. PICK x : x = op.ino
    OBVIOUS
  <2>2. PICK m \in Nat : m = Len(content[b])
    BY EntriesAre DEF Types
  <2>3. m # 0 /\ Len(r) = m + 1 /\ r[m + 1].ino = x /\ \A k \in 1..m : r[k].ino = content[b][k].ino
    BY <1>3, <2>1, <2>2 DEF Grown
  <2>4. \A c \in Block : content'[c] = IF c = b THEN r ELSE content[c]
    BY <1>3 DEF Puts, Types, DiskTypes
  <2>5. PICK new : new = <<b, m + 1>>
    OBVIOUS
  <2>6. ASSUME NEW e \in DirectoryEntries'
        PROVE  \/ e \in DirectoryEntries /\ InoOf(e)' = InoOf(e)
               \/ e = new /\ InoOf(e)' = x
    <3>1. PICK c \in Block : \E j \in 1..Len(content'[c]) : j # 1 /\ e = <<c, j>>
      BY EntriesAreNext DEF Types
    <3>2. PICK j \in 1..Len(content'[c]) : j # 1 /\ e = <<c, j>>
      BY <3>1
    <3>3. InoOf(e)' = content'[c][j].ino /\ InoOf(e) = content[c][j].ino
      BY <3>2, EntriesAre, EntriesAreNext DEF Types
    <3>4. CASE c # b
      BY <2>4, <3>2, <3>3, <3>4, EntriesAre DEF Types
    <3>5. CASE c = b
      <4>1. content'[c] = r /\ j \in 1..(m + 1)
        BY <2>3, <2>4, <3>2, <3>5
      <4>2. CASE j = m + 1
        BY <2>3, <2>5, <3>2, <3>3, <3>5, <4>1, <4>2
      <4>3. CASE j # m + 1
        <5>1. j \in 1..m
          BY <4>1, <4>3
        <5>2. e \in DirectoryEntries
          BY <2>2, <3>2, <3>5, <5>1, EntriesAre DEF Types
        <5> QED
          BY <2>3, <3>3, <3>5, <4>1, <5>1, <5>2
      <4> QED
        BY <4>2, <4>3
    <3> QED
      BY <3>4, <3>5
  <2>7. cut' = cut /\ stage' = "idle" /\ op' = NoOp /\ loose' = loose /\ imap' = imap
    BY <1>1 DEF Return, LetGo
  <2>8. InUse' = InUse /\ NewIsUnnamed'
    BY <1>1, <2>7, InodesStay, NewIsNot
  <2>9. Making
    BY <1>1 DEF Types, CallFits
  <2>10. /\ x \in Owners
         /\ x \in loose \cup cut \/ (x \in imap[0] /\ \A e \in DirectoryEntries : InoOf(e) # x)
    BY <1>1, <2>1, <2>9 DEF OwnerFits, NamingInv, NewIsUnnamed
  <2>11. InodesHaveOneName'
    <3>1. ASSUME NEW e \in DirectoryEntries', NEW f \in DirectoryEntries', e # f, InoOf(e)' = InoOf(f)'
          PROVE  InoOf(e)' \in loose' \cup cut'
      <4>1. CASE e \in DirectoryEntries /\ f \in DirectoryEntries /\ InoOf(e)' = InoOf(e) /\ InoOf(f)' = InoOf(f)
        BY <2>7, <3>1, <4>1 DEF NamingInv, InodesHaveOneName
      <4>2. CASE e = new /\ InoOf(e)' = x /\ f \in DirectoryEntries /\ InoOf(f)' = InoOf(f)
        BY <2>7, <2>10, <3>1, <4>2
      <4>3. CASE f = new /\ InoOf(f)' = x /\ e \in DirectoryEntries /\ InoOf(e)' = InoOf(e)
        BY <2>7, <2>10, <3>1, <4>3
      <4> QED
        BY <2>6, <3>1, <4>1, <4>2, <4>3
    <3> QED
      BY <3>1 DEF InodesHaveOneName
  <2>12. NamesLeadToInodes'
    <3>1. ASSUME NEW e \in DirectoryEntries' PROVE InoOf(e)' \in InUse' \cup cut' \cup Kept'
      <4>1. CASE e \in DirectoryEntries /\ InoOf(e)' = InoOf(e)
        BY <1>1, <2>7, <2>8, <4>1 DEF NamingInv, NamesLeadToInodes
      <4> QED
        BY <2>6, <2>7, <2>8, <2>10, <4>1 DEF Owners
    <3> QED
      BY <3>1 DEF NamesLeadToInodes
  <2>13. NamesAreMarked'
    <3>1. ASSUME NEW e \in DirectoryEntries' PROVE InoOf(e)' \in imap'[0] \cup loose' \cup cut' \cup Kept'
      <4>1. CASE e \in DirectoryEntries /\ InoOf(e)' = InoOf(e)
        BY <1>1, <2>7, <4>1 DEF NamingInv, NamesAreMarked
      <4> QED
        BY <2>6, <2>7, <2>10, <4>1
    <3> QED
      BY <3>1 DEF NamesAreMarked
  <2> QED
    BY <2>8, <2>11, <2>12, <2>13 DEF NamingInv
<1> QED
  BY <1>2, <1>3, CreateDirectoryEntryIs

\* An inode whose write is lost is one of the cut, or has no name to gain.
LEMMA InodeWriteLostNames ==
  ASSUME Types, Types', NamingInv, InodeWriteLost
  PROVE  NamingInv'
<1>0. PICK x : x = op.ino
  OBVIOUS
<1>1. /\ LostMaking \/ LostDirectory \/ LostGrowth \/ LostDeletion
      /\ UNCHANGED <<imap, inode, content, loose>>
  BY InodeWriteLostIs DEF disk
<1>2. cut \subseteq cut' /\ (~LostGrowth => x \in cut')
  BY <1>0, <1>1 DEF LostMaking, LostDirectory, LostGrowth, LostDeletion, LetGo
<1>3. op'.ino = x /\ op'.kind = op.kind
  BY <1>0, <1>1, LostDirectoryLocals DEF LostMaking, LostGrowth, LostDeletion
<1>4. Fewer /\ InUse' = InUse
  BY <1>1, SameIsFewer, InodesStay
<1>5. Kept' = Kept
  BY <1>0, <1>1, <1>3 DEF LostMaking, LostDirectory, LostGrowth, LostDeletion, Kept, Deleting
<1>6. NewIsUnnamed'
  <2>1. CASE LostGrowth
    <3>1. stage \in {"iinit", "balloc", "iwrite", "dots", "link"}
      BY <2>1 DEF LostGrowth
    <3> QED
      BY <1>0, <1>1, <1>2, <1>3, <1>4, <3>1, NewStaysUnnamed
  <2>2. CASE ~LostGrowth
    BY <1>2, <1>3, <2>2 DEF NewIsUnnamed
  <2> QED
    BY <2>1, <2>2
<1> QED
  BY <1>1, <1>2, <1>4, <1>5, <1>6, QuietKeepsNames

LEMMA BeginNames ==
  ASSUME NamingInv, stage = "idle", NEW step, NEW locals, NEW kept, Begin(step, locals, kept),
         step # "ialloc" => locals.kind \notin {"file", "dir"}
  PROVE  NamingInv'
<1>1. stage' = step /\ op' = locals /\ UNCHANGED <<imap, inode, content, loose>> /\ cut' = cut \cup kept
  BY DEF Begin, LetGo, disk
<1>2. Fewer /\ InUse' = InUse /\ Kept = {} /\ NewIsUnnamed'
  BY <1>1, SameIsFewer, InodesStay, NotDeleting, NewIsNot
<1> QED
  BY <1>1, <1>2, QuietKeepsNames

LEMMA CallNames ==
  ASSUME NamingInv,
         \/ \E path \in Path, kind \in {"file", "dir"} : CreateFile(path, kind)
         \/ \E path \in Path, size \in Sizes : WriteFile(path, size)
         \/ \E path \in Path \cup {<<Image.name>>} : DeleteFile(path)
  PROVE  NamingInv'
<1>1. stage = "idle"
  BY DEF CreateFile, WriteFile, DeleteFile
<1>2. ASSUME NEW path, NEW kind, CreateFile(path, kind) PROVE NamingInv'
  <2>1. PICK locals : Begin("ialloc", locals, {})
    BY <1>2 DEF CreateFile
  <2> QED
    BY <1>1, <2>1, BeginNames
<1>3. ASSUME NEW path, NEW size, WriteFile(path, size) PROVE NamingInv'
  <2>1. PICK i : i = Lookup(path)
    OBVIOUS
  <2>2. PICK old : old = inode[i].pointers.direct
    OBVIOUS
  <2>3. PICK need : need = BlocksFor(size - inode[i].size)
    OBVIOUS
  <2> DEFINE write == [NoOp EXCEPT !.path = path, !.kind = "write", !.ino = i]
             grow == [write EXCEPT !.need = need, !.size = size, !.list = old]
  <2>4. PICK kept : kept = {i} \ (InUse \cup cut)
    OBVIOUS
  <2>5. \/ Begin("balloc", grow, kept)
        \/ Begin("data", write, {})
    BY <1>3, <2>1, <2>2, <2>3, <2>4 DEF WriteFile
  <2>6. write.kind = "write" /\ grow.kind = "write"
    BY DEF NoOp
  <2> HIDE DEF write, grow
  <2> QED
    BY <1>1, <2>5, <2>6, BeginNames
<1>4. ASSUME NEW path, DeleteFile(path) PROVE NamingInv'
  <2>1. PICK i : i = Lookup(path)
    OBVIOUS
  <2>2. PICK list : list = LoadBlockList(inode[i].pointers, inode[i].size)
    OBVIOUS
  <2>3. PICK locals : locals = [NoOp EXCEPT !.path = path, !.ino = i, !.list = list]
    OBVIOUS
  <2>4. Begin("bfree", locals, {})
    BY <1>4, <2>1, <2>2, <2>3 DEF DeleteFile
  <2>5. locals.kind = "none"
    BY <2>3 DEF NoOp
  <2> QED
    BY <1>1, <2>4, <2>5, BeginNames
<1> QED
  BY <1>2, <1>3, <1>4

LEMMA NextNames ==
  ASSUME Types, Types', OwnerFits, NamingInv, [Ext2Next]_ext2Vars
  PROVE  NamingInv'
<1>1. CASE UNCHANGED ext2Vars
  <2>1. UNCHANGED <<imap, inode, content, stage, op, loose, cut>>
    BY <1>1 DEF ext2Vars, disk, history
  <2>2. InUse' = InUse /\ Kept' = Kept /\ DirectoryEntries' = DirectoryEntries
        /\ \A e : InoOf(e)' = InoOf(e)
    BY <2>1, InodesStay DEF Kept, Deleting, DirectoryEntries, InoOf
  <2>3. InodesHaveOneName' /\ NamesLeadToInodes' /\ NamesAreMarked'
    BY <2>1, <2>2 DEF NamingInv, InodesHaveOneName, NamesLeadToInodes, NamesAreMarked
  <2>4. NewIsUnnamed'
    BY <2>1, <2>2 DEF NamingInv, NewIsUnnamed, Making
  <2> QED
    BY <2>3, <2>4 DEF NamingInv
<1>2. CASE Step
  BY <1>2, AllocateInodeNames, AllocateBlockNames, DeletingNames, MakingNames,
     CreateDirectoryEntryNames, DeleteDentryNames, EndingNames, InodeWriteLostNames DEF Step
<1> QED
  BY <1>1, <1>2, CallNames DEF Ext2Next

-----------------------------------------------------------------------------
\* The partition that mkfs left.
\* The root directory: "." and "..", and the image file.
LEMMA RootDirectory ==
  ASSUME Ext2Init
  PROVE  /\ content \in [Block -> Seq(Entry)]
         /\ content[1] \in Seq(Entry) /\ Len(content[1]) = 2 /\ content[1][2].ino = 3
         /\ \A b \in Block : b # 1 => content[b] = <<>>
         /\ RecordsFit
<1>1. PICK e : e = [Dots(Root)[1] EXCEPT !.len = 1]
  OBVIOUS
<1>2. PICK f : f = [name |-> Image.name, ino |-> 3, len |-> DirSlots - 1]
  OBVIOUS
<1>3. e \in Entry /\ e.len = 1
  <2>1. Dots(Root)[1] = [name |-> <<".">>, ino |-> Root, len |-> DirSlots]
    BY DEF Dots
  <2>2. e = [name |-> <<".">>, ino |-> Root, len |-> 1]
    BY <1>1, <2>1
  <2> QED
    BY <2>2, Numbers DEF Entry, Name
<1>4. f \in Entry /\ f.len = DirSlots - 1 /\ f.ino = 3
  <2>1. DirSlots - 1 \in Nat \ {0}
    BY Ext2Assumption
  <2> QED
    BY <1>2, <2>1, Numbers DEF Entry, Name
<1>5. PICK s : s = <<e, f>>
  OBVIOUS
<1>6. s \in Seq(Entry) /\ Len(s) = 2 /\ s[1] = e /\ s[2] = f
  BY <1>3, <1>4, <1>5
<1>7. content = [b \in Block |-> IF b = 1 THEN s ELSE <<>>]
  BY <1>1, <1>2, <1>5 DEF Ext2Init
<1>8. /\ content \in [Block -> Seq(Entry)] /\ content[1] = s
      /\ \A b \in Block : b # 1 => content[b] = <<>>
  BY <1>6, <1>7, Numbers
<1>9. Fits(s)
  <2>1. PICK at : at = [k \in 1..(2 + 1) |-> IF k = 1 THEN 0 ELSE IF k = 2 THEN 1 ELSE DirSlots]
    OBVIOUS
  <2>2. at \in [1..(2 + 1) -> 0..DirSlots] /\ at[1] = 0 /\ at[1 + 1] = 1 /\ at[2 + 1] = DirSlots
    BY <2>1, Ext2Assumption
  <2>3. PICK lens : lens = [k \in 1..2 |-> s[k].len]
    OBVIOUS
  <2>4. lens[1] = 1 /\ lens[2] = DirSlots - 1
    BY <1>3, <1>4, <1>6, <2>3
  <2>5. \A k \in 1..2 : at[k + 1] = at[k] + lens[k]
    <3> TAKE k \in 1..2
    <3>1. CASE k = 1
      BY <2>2, <2>4, <3>1
    <3>2. CASE k = 2
      BY <2>2, <2>4, <3>2, Ext2Assumption
    <3> QED
      BY <3>1, <3>2
  <2>6. Laid(lens, 2)
    BY <2>2, <2>5 DEF Laid
  <2> QED
    BY <1>6, <2>3, <2>6 DEF Fits
<1>10. RecordsFit
  BY <1>8, <1>9, NothingFits DEF RecordsFit
<1> QED
  BY <1>4, <1>6, <1>8, <1>10

LEMMA InitTypes ==
  ASSUME Ext2Init
  PROVE  Types
<1>1. bitmap \subseteq Block /\ unmarked = {} /\ loose = {} /\ cut = {} /\ fault = "none"
  <2>1. PointerBlocks(Image.pointers) \subseteq Block /\ 1 \in Block
    BY ImageBlocks, Numbers
  <2> QED
    BY <2>1, ImageAssumption DEF Ext2Init, FormatBlocks
<1>2. imap \in [Group -> SUBSET Ino]
  <2>1. \A g \in Group : FormatInodes(g) \subseteq Ino
    <3>1. 1..4 \subseteq Ino
      BY Numbers DEF Root
    <3> QED
      BY <3>1 DEF FormatInodes
  <2> QED
    BY <2>1 DEF Ext2Init
<1>3. inode \in [Ino -> [kind : {"none", "file", "dir"}, size : Nat, pointers : Pointers]]
  <2>1. PICK T : T = [kind : {"none", "file", "dir"}, size : Nat, pointers : Pointers]
    OBVIOUS
  <2>2. NoInode \in T
    BY <2>1, NoBlocks DEF NoInode
  <2>3. PICK p : p = [NoPointers EXCEPT !.direct = <<1>>]
    OBVIOUS
  <2>4. p \in Pointers
    <3>1. PICK l : l = <<1>>
      OBVIOUS
    <3>2. l \in Seq(Block)
      BY <3>1, Numbers
    <3> QED
      BY <2>3, <3>1, <3>2, NoBlocks DEF Pointers
  <2>5. PICK rootInode : rootInode = [kind |-> "dir", size |-> BlockSize, pointers |-> p]
    OBVIOUS
  <2>6. rootInode \in T
    BY <2>1, <2>4, <2>5, BlocksAssumption
  <2>7. PICK imageInode : imageInode = [kind |-> "file", size |-> Image.size, pointers |-> Image.pointers]
    OBVIOUS
  <2>8. imageInode \in T
    BY <2>1, <2>7, ImageBlocks, ImageAssumption
  <2>9. inode = [i \in Ino |-> CASE i = Root -> rootInode [] i = 3 -> imageInode [] OTHER -> NoInode]
    BY <2>3, <2>5, <2>7 DEF Ext2Init
  <2>10. inode \in [Ino -> T]
    BY <2>2, <2>6, <2>8, <2>9
  <2> QED
    BY <2>1, <2>10
<1>4. content \in [Block -> Seq(Entry)] /\ RecordsFit
  BY RootDirectory
<1>5. DiskTypes
  BY <1>1, <1>2, <1>3, <1>4 DEF DiskTypes
<1>6. stage = "idle" /\ op = NoOp /\ calls = 0 /\ free = FormatFree /\ ifree = FormatInodesFree
  BY DEF Ext2Init
<1>7. MemoryTypes
  BY <1>1, <1>6, NoOpIsLocals, FormatCounts, Ext2Assumption DEF MemoryTypes, Faults
<1>8. CallFits
  BY <1>6, NoOpIsLocals DEF CallFits, Making, Deleting
<1> QED
  BY <1>4, <1>5, <1>7, <1>8 DEF Types

LEMMA InitOwners ==
  ASSUME Ext2Init, Types
  PROVE  OwnersInv
<1>1. /\ bitmap = FormatBlocks /\ stage = "idle" /\ op = NoOp /\ cut = {} /\ unmarked = {}
  BY DEF Ext2Init
<1>2. PICK p : p = [NoPointers EXCEPT !.direct = <<1>>]
  OBVIOUS
<1>3. PointerBlocks(p) = {1}
  <2>1. p = [direct |-> <<1>>, single |-> <<>>, double |-> <<>>, triple |-> <<>>]
    BY <1>2 DEF NoPointers
  <2>2. ToSet(<<>>) = {} /\ ToSet(<<1>>) = {1}
    BY DEF ToSet
  <2> QED
    BY <2>1, <2>2, FlattenEmpty DEF PointerBlocks
<1>4. /\ \A i \in Ino : i = Root => inode[i].pointers = p
      /\ \A i \in Ino : i = 3 => inode[i].pointers = Image.pointers
      /\ \A i \in Ino : i # Root /\ i # 3 => inode[i] = NoInode
  BY <1>2 DEF Ext2Init, Root
<1>5. /\ \A i \in Ino : i = Root => BlocksOf(i) = {1}
      /\ \A i \in Ino : i = 3 => BlocksOf(i) = PointerBlocks(Image.pointers)
      /\ \A i \in Ino : i # Root /\ i # 3 => BlocksOf(i) = {} /\ inode[i].size = 0 /\ i \notin InUse
  <2>1. NoInode.pointers = NoPointers /\ NoInode.size = 0 /\ NoInode.kind = "none"
    BY DEF NoInode
  <2> QED
    BY <1>3, <1>4, <2>1, NoBlocks DEF BlocksOf, InUse
<1>6. Owners = InUse /\ Owners \subseteq Ino /\ Kept = {}
  BY <1>1, OwnersAreInodes DEF Owners, Kept, Deleting
<1>7. UsedBlocksAreMarked
  <2>1. \A i \in Ino : BlocksOf(i) \subseteq FormatBlocks
    BY <1>5 DEF FormatBlocks
  <2> QED
    BY <1>1, <1>6, <2>1, UsedIs
<1>8. BlocksHaveOneOwner
  <2>1. PointerBlocks(Image.pointers) \cap {1} = {}
    BY ImageBlocks
  <2>2. \A i, j \in Ino : i # j => BlocksOf(i) \cap BlocksOf(j) \subseteq {}
    BY <1>5, <2>1
  <2> QED
    BY <1>1, <1>6, <2>2, UsedIs
<1>9. OwnerFits
  <2>1. Root \in InUse /\ 3 \in InUse
    BY Numbers DEF Ext2Init, InUse, Root
  <2>2. \A i \in Ino \ Owners : inode[i].size = 0
    BY <1>5, <1>6, <2>1
  <2> QED
    BY <1>1, <2>2 DEF OwnerFits
<1>10. TakenBlocks
  BY <1>1 DEF TakenBlocks
<1> QED
  BY <1>7, <1>8, <1>9, <1>10 DEF OwnersInv, BlocksInv

LEMMA InitCounts ==
  ASSUME Ext2Init
  PROVE  CountsCoverClearBits
<1>1. ASSUME NEW g \in Group PROVE free[g] >= Cardinality(Markable(g))
  <2>1. PICK S : S = {b \in Block \ FormatBlocks : GroupOfBlock(b) = g}
    OBVIOUS
  <2>2. IsFiniteSet(S)
    BY <2>1, Numbers, FS_Subset
  <2>3. Markable(g) \subseteq S
    BY <2>1 DEF Markable, Ext2Init
  <2>4. Cardinality(Markable(g)) <= Cardinality(S)
    BY <2>2, <2>3, FS_Subset
  <2>5. free[g] = Cardinality(S)
    BY <2>1 DEF Ext2Init, FormatFree
  <2>6. Cardinality(S) \in Nat /\ Cardinality(Markable(g)) \in Nat
    BY <2>2, FS_CardinalityType, MarkableIsFinite
  <2> QED
    BY <2>4, <2>5, <2>6
<1> QED
  BY <1>1, CountsIs

LEMMA InitNames ==
  ASSUME Ext2Init, Types
  PROVE  NamingInv
<1>1. /\ Len(content[1]) = 2 /\ content[1][2].ino = 3
      /\ \A b \in Block : b # 1 => content[b] = <<>>
  BY RootDirectory
<1>2. \A e \in DirectoryEntries : e = <<1, 2>>
  <2> TAKE e \in DirectoryEntries
  <2>1. PICK b \in Block : \E k \in 1..Len(content[b]) : k # 1 /\ e = <<b, k>>
    BY EntriesAre DEF Types
  <2>2. PICK k \in 1..Len(content[b]) : k # 1 /\ e = <<b, k>>
    BY <2>1
  <2>3. CASE b # 1
    <3>1. Len(content[b]) = 0
      BY <1>1, <2>3
    <3> QED
      BY <2>2, <3>1
  <2>4. CASE b = 1
    <3>1. k \in 1..2
      BY <1>1, <2>4
    <3> QED
      BY <2>2, <2>4, <3>1
  <2> QED
    BY <2>3, <2>4
<1>3. InoOf(<<1, 2>>) = 3
  BY <1>1, EntriesAre DEF Types
<1>4. 3 \in InUse /\ 3 \in imap[0]
  BY Numbers DEF Ext2Init, InUse, Root, FormatInodes
<1>5. InodesHaveOneName
  BY <1>2 DEF InodesHaveOneName
<1>6. NamesLeadToInodes /\ NamesAreMarked
  BY <1>2, <1>3, <1>4 DEF NamesLeadToInodes, NamesAreMarked
<1>7. NewIsUnnamed
  BY DEF Ext2Init, NewIsUnnamed
<1> QED
  BY <1>5, <1>6, <1>7 DEF NamingInv

-----------------------------------------------------------------------------
\* Types, from the sharper ones of the invariant.
LEMMA TypesHold ==
  ASSUME Types
  PROVE  TypeOK
<1>1. \A i \in Ino : /\ inode[i].kind \in {"none", "file", "dir"} /\ inode[i].size \in Nat
                     /\ inode[i].pointers \in Pointers
  BY DEF Types, DiskTypes
<1>2. \A i \in Ino : PointerBlocks(inode[i].pointers) \subseteq Block
  BY <1>1, PointersType
<1>3. ASSUME NEW b \in Block, NEW k \in DOMAIN content[b]
      PROVE  content[b][k].ino \in Ino /\ content[b][k].len \in 1..DirSlots
  <2>1. PICK s : s = content[b]
    OBVIOUS
  <2>2. s \in Seq(Entry) /\ Fits(s)
    BY <2>1 DEF Types, DiskTypes, RecordsFit
  <2>3. PICK m \in Nat : m = Len(s)
    BY <2>2
  <2>4. k \in 1..m
    BY <2>1, <2>2, <2>3
  <2>5. s[k] \in Entry
    BY <2>2, <2>3, <2>4
  <2>6. PICK l \in Nat \ {0} : l = s[k].len /\ s[k].ino \in Ino
    BY <2>5, LensAreNat
  <2>7. PICK lens : lens = [j \in 1..m |-> s[j].len]
    OBVIOUS
  <2>8. PICK at \in [1..(m + 1) -> 0..DirSlots] : \A j \in 1..m : at[j + 1] = at[j] + lens[j]
    BY <2>2, <2>3, <2>7 DEF Fits, Laid
  <2>9. at[k] \in 0..DirSlots /\ at[k + 1] \in 0..DirSlots /\ at[k + 1] = at[k] + l
    <3>1. k \in 1..(m + 1) /\ k + 1 \in 1..(m + 1)
      BY <2>4
    <3> QED
      BY <2>4, <2>6, <2>7, <2>8, <3>1
  <2>10. l \in 1..DirSlots
    <3>1. PICK y \in 0..DirSlots, z \in 0..DirSlots : z = y + l
      BY <2>9
    <3>2. DirSlots \in Nat
      BY Ext2Assumption
    <3> QED
      BY <2>6, <3>1, <3>2
  <2> QED
    BY <2>1, <2>6, <2>10
<1>4. bitmap \subseteq Block /\ imap \in [Group -> SUBSET Ino]
  BY DEF Types, DiskTypes
<1> QED
  BY <1>1, <1>2, <1>3, <1>4 DEF Types, MemoryTypes, TypeOK, Faults

\* The invariant of the partition.
Ext2Inv == Types /\ OwnersInv /\ CountsCoverClearBits /\ NamingInv

LEMMA PartitionInvariant == Ext2Spec => []Ext2Inv
<1>1. Ext2Init => Ext2Inv
  BY InitTypes, InitOwners, InitCounts, InitNames DEF Ext2Inv
<1>2. Ext2Inv /\ [Ext2Next]_ext2Vars => Ext2Inv'
  <2> SUFFICES ASSUME Ext2Inv, [Ext2Next]_ext2Vars PROVE Ext2Inv'
    OBVIOUS
  <2>1. Types /\ OwnersInv /\ OwnerFits /\ CountsCoverClearBits /\ NamingInv
    BY DEF Ext2Inv, OwnersInv
  <2>2. Types'
    BY <2>1, NextTypes
  <2>3. OwnersInv'
    BY <2>1, NextOwners
  <2>4. CountsCoverClearBits'
    BY <2>1, NextCounts
  <2>5. NamingInv'
    BY <2>1, <2>2, NextNames
  <2> QED
    BY <2>2, <2>3, <2>4, <2>5 DEF Ext2Inv
<1> QED
  BY <1>1, <1>2, PTL DEF Ext2Spec

\* A block of an inode in use is marked in the bitmap: no order of creations,
\* writes and deletions, failed steps and reboots between two writes gives a
\* block away that a file still has, on a partition of any size
\* (ext2_allocate_block, ext2_deallocate_block, ext2_delete_file).
THEOREM UsedBlocksStayMarked == Ext2Spec => []UsedBlocksAreMarked
<1>1. Ext2Inv => UsedBlocksAreMarked
  BY DEF Ext2Inv, OwnersInv, BlocksInv
<1> QED
  BY <1>1, PartitionInvariant, PTL

\* Two inodes never have the same block, but for the blocks whose mark is
\* known to be missing (ext2_allocate_block, ext2_resize_file).
THEOREM BlocksKeepOneOwner == Ext2Spec => []BlocksHaveOneOwner
<1>1. Ext2Inv => BlocksHaveOneOwner
  BY DEF Ext2Inv, OwnersInv, BlocksInv
<1> QED
  BY <1>1, PartitionInvariant, PTL

\* The free counts in memory never fall below the clear bits that can be
\* marked, until a reboot or a lost bitmap write: no call makes a free block
\* unreachable to the next one (ext2_allocate_block, ext2_deallocate_block).
THEOREM CountsStayCovering == Ext2Spec => []CountsCoverClearBits
<1>1. Ext2Inv => CountsCoverClearBits
  BY DEF Ext2Inv
<1> QED
  BY <1>1, PartitionInvariant, PTL

\* A name leads to one inode in use that no other name leads to, but for the
\* inodes that deletions have let go of, and every number on the disk stays
\* inside the partition (ext2_create_file, ext2_delete_file).
THEOREM NamesStaySound == Ext2Spec => []NamesAreSound
<1>1. Ext2Inv => NamesAreSound
  BY TypesHold DEF Ext2Inv, NamingInv, NamesAreSound
<1> QED
  BY <1>1, PartitionInvariant, PTL
=============================================================================
