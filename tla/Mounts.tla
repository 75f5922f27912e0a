-------------------------------- MODULE Mounts --------------------------------
(***************************************************************************)
(* What the kernel does with its devices at boot, and the names it reads    *)
(* them by afterwards.                                                      *)
(*                                                                          *)
(* register_pci_device and register_comm put a device into the list of      *)
(* devices.c for every disk port and every serial line.  probe_fs           *)
(* (vfs/vfs.c) then walks that list twice: detect_devices reads the         *)
(* partition table of every disk (partition/gpt.c, then partition/mbr.c),   *)
(* and detect_partition_fs asks the registered file systems, FAT32 before   *)
(* ext2, whether they know the partition and mounts it with the first that  *)
(* does.  From then on a path finds its mount by name, the mount names a    *)
(* slot of its file system, and the slot names a disk and a sector.         *)
(*                                                                          *)
(* Every read of a disk is a step of its own and may fail.  probe_fs runs   *)
(* once, so the check for devices already scanned never finds one.          *)
(***************************************************************************)
EXTENDS Integers, Sequences, FiniteSets, SequencesExt

CONSTANTS
    Images,      \* what may be on a disk: its tables and its partitions
    Ports,       \* the majors of the disk ports, as probe_ports orders them
    ComPorts,    \* the number of serial lines (serial_count_ports)
    EntriesPerSector, \* entries of a GPT in one sector (4)
    GroupCount,  \* block groups of an ext2 partition
    Slots,       \* partitions a file system keeps (MAX_EXT2_PARTITIONS, 32)
    Base,        \* the base partition numbers are written in (10)
    MaxFailures  \* bound on the disk reads that fail

ASSUME BaseAssumption == Base \in Nat /\ Base > 1
ASSUME CountsAssumption ==
    /\ EntriesPerSector \in Nat \ {0}
    /\ {GroupCount, Slots, ComPorts, MaxFailures} \subseteq Nat

SATA == 8
SATAPI == 9
TTY == 14
SERIAL == 141    \* 0x8d: a character device

\* The majors fat32_registrar and ext2_registrar mount.
DiskMajors == 8 .. 12

ASSUME PortsAssumption == Ports \in Seq(DiskMajors)

VARIABLES
    images,   \* the image on each port's disk
    devices,  \* the list of struct device, in order
    root,     \* vfs_root: the partitions found on each device
    mounts,   \* the list of struct vfs_mount, in order
    fat,      \* f32_compat_partitions: the slots in use
    ext2,     \* ext2_partitions: what each slot was registered for
    pc,       \* where probe_fs is
    dev,      \* the device it has got to
    part,     \* and the partition of it, from 0
    n,        \* the reads done by the function that is reading
    failed,   \* the devices a read of which failed, one entry per failure
    call      \* the last path a file was opened by, and what it reached

vars == <<images, devices, root, mounts, fat, ext2, pc, dev, part, n, failed,
          call>>

Slot == 0 .. Slots - 1
None == [device |-> 0, lba |-> 0]
NoCall == [device |-> 0, part |-> 0, reached |-> None]

(***************************************************************************)
(* Names.  A device is named after its major and the number of devices of   *)
(* that major before it, a mount after its device and its partition's       *)
(* number, whose digits come last.                                          *)
(***************************************************************************)
DeviceName(d) == <<d.major, d.minor>>

\* The two characters a name may go on with, told apart from every digit.
P == -1
Slash == -2

\* sprintf's %d.
Digits[i \in Nat] ==
    IF i < Base THEN <<i>> ELSE Append(Digits[i \div Base], i % Base)

Mountpoint(d, p) == DeviceName(d) \o <<P>> \o Digits[p]

\* device_search and its copies in device_read, device_write and device_ioctl
\* compare as many bytes as the asked name has.
DeviceSearch(name) ==
    SelectInSeq(devices, LAMBDA d : IsPrefix(name, DeviceName(d)))

\* A fault: one character of the mountpoint is not compared.
MountFromPathShort(path) ==
    SelectInSeq(mounts, LAMBDA m : IsPrefix(Front(m.name), path))

\* get_mount_from_path: the first mount whose name begins the path.
MountFromPath(path) == SelectInSeq(mounts, LAMBDA m : IsPrefix(m.name, path))

Init ==
    /\ images \in [1 .. Len(Ports) -> Images]
    /\ devices = <<>>
    /\ root = <<>>
    /\ mounts = <<>>
    /\ fat = [s \in Slot |-> FALSE]
    /\ ext2 = [s \in Slot |-> None]
    /\ pc = "pci"
    /\ dev = 1
    /\ part = 0
    /\ n = 0
    /\ failed = <<>>
    /\ call = NoCall

(***************************************************************************)
(* The devices.                                                             *)
(***************************************************************************)
DeviceCreate(list, major) ==
    Append(list,
           [major |-> major,
            minor |-> Cardinality({i \in DOMAIN list : list[i].major = major})])

\* register_pci_device: one device per port.
RegisterPort ==
    /\ pc = "pci"
    /\ IF Len(devices) < Len(Ports)
          THEN /\ devices' = DeviceCreate(devices, Ports[Len(devices) + 1])
               /\ pc' = pc
          ELSE devices' = devices /\ pc' = "comm"
    /\ UNCHANGED <<images, root, mounts, fat, ext2, dev, part, n, failed, call>>

\* register_comm: the line and the terminal on it.
RegisterComm ==
    /\ pc = "comm"
    /\ IF Len(devices) < Len(Ports) + 2 * ComPorts
          THEN /\ devices' = DeviceCreate(DeviceCreate(devices, SERIAL), TTY)
               /\ pc' = pc
          ELSE devices' = devices /\ pc' = "scan"
    /\ UNCHANGED <<images, root, mounts, fat, ext2, dev, part, n, failed, call>>

(***************************************************************************)
(* Partition tables: detect_devices and detect_partitions.                  *)
(***************************************************************************)

\* A read of the disk at hand, which the driver finds by the device's name.
Disk == images[DeviceSearch(DeviceName(devices[dev]))]

ReadDisk(ok) ==
    \/ ok /\ failed' = failed
    \/ ~ok /\ Len(failed) < MaxFailures /\ failed' = Append(failed, dev)

\* The entries before the first empty one.
GptPartitions(entries) ==
    LET ends == SelectInSeq(entries, LAMBDA e : e = 0)
    IN  IF ends = 0 THEN entries ELSE SubSeq(entries, 1, ends - 1)

MbrPartitions(entries) == SelectSeq(entries, LAMBDA e : e # 0)

\* The device is scanned; the next one.
Scanned(partitions) ==
    /\ root' = Append(root, partitions)
    /\ dev' = dev + 1
    /\ pc' = "scan"
    /\ n' = 0

\* A device that is no disk has one partition that is not read from anywhere.
ScanDevice ==
    /\ pc = "scan"
    /\ \/ /\ dev > Len(devices)
          /\ pc' = "mount"
          /\ dev' = 1
          /\ UNCHANGED <<root, n>>
       \/ /\ dev <= Len(devices)
          /\ devices[dev].major \notin DiskMajors
          /\ Scanned(<<0>>)
       \/ /\ dev <= Len(devices)
          /\ devices[dev].major \in DiskMajors
          /\ pc' = "gpt"
          /\ UNCHANGED <<root, dev, n>>
    /\ UNCHANGED <<images, devices, mounts, fat, ext2, part, failed, call>>

\* The sectors read_gpt reads: the first, the header and then the table.
TableSectors(gpt) ==
    (Len(gpt) + EntriesPerSector - 1) \div EntriesPerSector

\* What the n reads done have found is in order.
GptGoesOn ==
    /\ n = 0 => Disk.bootsig
    /\ n = 1 => Disk.gpt # <<>>

GptFails ==
    /\ pc' = "mbr"
    /\ n' = 0
    /\ UNCHANGED <<root, dev>>

\* A fault: an empty GPT is not told from one with partitions.
GptAddsUnchecked == Scanned(GptPartitions(Disk.gpt))

\* The partitions are added by an index of eight bits: with 256 or more of
\* them gpt.c does not return, and no image has so many.
GptAdds ==
    IF GptPartitions(Disk.gpt) = <<>> THEN GptFails
                                      ELSE Scanned(GptPartitions(Disk.gpt))

ReadGpt ==
    /\ pc = "gpt"
    /\ \E ok \in BOOLEAN :
          /\ ReadDisk(ok)
          /\ \/ ~(ok /\ GptGoesOn) /\ GptFails
             \/ /\ ok /\ GptGoesOn
                /\ IF n < 1 + TableSectors(Disk.gpt)
                      THEN n' = n + 1 /\ UNCHANGED <<root, dev, pc>>
                      ELSE GptAdds
    /\ UNCHANGED <<images, devices, mounts, fat, ext2, part, call>>

ReadMbr ==
    /\ pc = "mbr"
    /\ \E ok \in BOOLEAN :
          /\ ReadDisk(ok)
          /\ Scanned(IF ok /\ Disk.bootsig THEN MbrPartitions(Disk.mbr)
                                           ELSE <<>>)
    /\ UNCHANGED <<images, devices, mounts, fat, ext2, part, call>>

(***************************************************************************)
(* File systems: detect_partition_fs and mount_fs.                          *)
(***************************************************************************)
Lba == root[dev][part + 1]
Content == Disk.content[Lba]

\* A FAT32 boot sector (fat_search).
HasFat == Content \in {"fat", "both"}

\* An ext2 superblock: s_magic is right (ext2_partition_search).
HasMagic == Content \in {"ext2", "both", "odd"}

\* Its block and inode counts agree on the number of groups.
GroupsAgree == Content # "odd"

FreeSlots(table, empty) == {s \in Slot : table[s] = empty}
LowestSlot(set) == CHOOSE s \in set : \A t \in set : s <= t

NextPartition ==
    /\ pc' = "mount"
    /\ part' = part + 1
    /\ n' = 0

\* add_mount, after the partition is given its name.
AddMount(fs, index) ==
    mounts' = Append(mounts,
                     [device |-> dev, lba |-> Lba, fs |-> fs, index |-> index,
                      name |-> Mountpoint(devices[dev], part)])

\* The partitions of a device, and after them those of the next.
TryPartition ==
    /\ pc = "mount"
    /\ \/ /\ dev > Len(root)
          /\ pc' = "done"
          /\ UNCHANGED <<dev, part, n>>
       \/ /\ dev <= Len(root)
          /\ part >= Len(root[dev])
          /\ dev' = dev + 1
          /\ part' = 0
          /\ UNCHANGED <<pc, n>>
       \/ /\ dev <= Len(root)
          /\ part < Len(root[dev])
          /\ devices[dev].major \in DiskMajors
          /\ pc' = "fatDetect"
          /\ UNCHANGED <<dev, part, n>>
       \/ /\ dev <= Len(root)
          /\ part < Len(root[dev])
          /\ devices[dev].major \notin DiskMajors
          /\ NextPartition
          /\ dev' = dev
    /\ UNCHANGED <<images, devices, root, mounts, fat, ext2, failed, call>>

FatDetect ==
    /\ pc = "fatDetect"
    /\ \E ok \in BOOLEAN :
          /\ ReadDisk(ok)
          /\ pc' = IF ok /\ HasFat THEN "fatRegister" ELSE "ext2Detect"
    /\ UNCHANGED <<images, devices, root, mounts, fat, ext2, dev, part, n, call>>

\* f32_compat_register_partition answers with the slot even when
\* register_fat32_partition could not read, and then the slot stays free.
FatRegister ==
    /\ pc = "fatRegister"
    /\ \/ /\ FreeSlots(fat, FALSE) = {}
          /\ UNCHANGED <<fat, mounts, failed>>
       \/ /\ FreeSlots(fat, FALSE) # {}
          /\ LET s == LowestSlot(FreeSlots(fat, FALSE))
             IN  \E ok \in BOOLEAN :
                    /\ ReadDisk(ok)
                    /\ fat' = [fat EXCEPT ![s] = ok]
                    /\ AddMount("fat32", s)
    /\ NextPartition
    /\ UNCHANGED <<images, devices, root, ext2, dev, call>>

Ext2Detect ==
    /\ pc = "ext2Detect"
    /\ \E ok \in BOOLEAN :
          /\ ReadDisk(ok)
          /\ IF ok /\ HasMagic
                THEN pc' = "ext2Register" /\ UNCHANGED <<part, n>>
                ELSE NextPartition
    /\ UNCHANGED <<images, devices, root, mounts, fat, ext2, dev, call>>

\* A fault: the slot is answered although nothing was registered in it.
RegisterFailsMounted ==
    /\ NextPartition
    /\ ext2' = ext2
    /\ IF FreeSlots(ext2, None) = {}
          THEN mounts' = mounts
          ELSE AddMount("ext2", LowestSlot(FreeSlots(ext2, None)))

\* A fault: the rest of the device is given up.
RegisterFailsForDevice ==
    /\ pc' = "mount"
    /\ part' = Len(root[dev])
    /\ n' = 0
    /\ UNCHANGED <<ext2, mounts>>

\* mount_fs gives the partition up: no other file system is asked.
RegisterFails ==
    /\ NextPartition
    /\ UNCHANGED <<ext2, mounts>>

\* The last read of ext2_partition_register_partition succeeded.
Registered(s) ==
    /\ ext2' = [ext2 EXCEPT ![s] = [device |-> dev, lba |-> Lba]]
    /\ AddMount("ext2", s)
    /\ NextPartition

\* ext2_compat_register_partition: a free slot, then the superblock, the
\* superblock of every group, and the table of group descriptors.
Ext2Register ==
    /\ pc = "ext2Register"
    /\ \/ /\ FreeSlots(ext2, None) = {}
          /\ RegisterFails
          /\ failed' = failed
       \/ /\ FreeSlots(ext2, None) # {}
          /\ \E ok \in BOOLEAN :
                /\ ReadDisk(ok)
                /\ IF ~ok \/ (n = 0 /\ ~GroupsAgree) THEN RegisterFails
                   ELSE IF n <= GroupCount
                        THEN n' = n + 1 /\ UNCHANGED <<ext2, mounts, pc, part>>
                        ELSE Registered(LowestSlot(FreeSlots(ext2, None)))
    /\ UNCHANGED <<images, devices, root, fat, dev, call>>

(***************************************************************************)
(* A file is opened by a path that names partition p of device d.           *)
(***************************************************************************)
Reached(path) ==
    LET i == MountFromPath(path)
    IN  IF i = 0 \/ mounts[i].fs # "ext2" THEN None ELSE ext2[mounts[i].index]

FileOpen ==
    /\ pc = "done"
    /\ \E d \in DOMAIN root : \E p \in 0 .. Len(root[d]) :
          call' = [device |-> d, part |-> p,
                   reached |-> Reached(Mountpoint(devices[d], p) \o <<Slash>>)]
    /\ UNCHANGED <<images, devices, root, mounts, fat, ext2, pc, dev, part, n,
                   failed>>

Next ==
    \/ RegisterPort
    \/ RegisterComm
    \/ ScanDevice
    \/ ReadGpt
    \/ ReadMbr
    \/ TryPartition
    \/ FatDetect
    \/ FatRegister
    \/ Ext2Detect
    \/ Ext2Register
    \/ FileOpen

Spec == Init /\ [][Next]_vars

-----------------------------------------------------------------------------
(***************************************************************************)
(* Properties.                                                              *)
(***************************************************************************)

\* The table a disk's partitions are to be taken from when it can be read.
Listed(image) ==
    IF ~image.bootsig THEN <<>>
    ELSE IF GptPartitions(image.gpt) # <<>> THEN GptPartitions(image.gpt)
    ELSE MbrPartitions(image.mbr)

ASSUME ImagesAssumption == \A image \in Images : Listed(image) \in Seq(Nat)

Healthy(d) == d \notin {failed[i] : i \in DOMAIN failed}

\* detect_partitions: a disk that reads well has the partitions of its GPT or,
\* without one, of its MBR.  When reads fail it has those of one of its tables
\* or none, never some of each.
PartitionsComeFromOneTable ==
    \A d \in DOMAIN root :
        devices[d].major \in DiskMajors =>
            IF Healthy(d) THEN root[d] = Listed(images[d])
            ELSE root[d] \in {<<>>, GptPartitions(images[d].gpt),
                              MbrPartitions(images[d].mbr)}

\* mount_fs and ext2_compat_register_partition: a mount's index is a slot that
\* holds the very disk and sector it was mounted from, and no other mount's.
MountsOwnTheirSlots ==
    \A i \in DOMAIN mounts :
        mounts[i].fs = "ext2" =>
            /\ ext2[mounts[i].index] = [device |-> mounts[i].device,
                                        lba |-> mounts[i].lba]
            /\ \A j \in DOMAIN mounts \ {i} :
                  mounts[j].fs = "ext2" => mounts[j].index # mounts[i].index

\* get_mount_from_path: opening a file by a path that names one of the first
\* Base partitions of a device reaches that partition or nothing.  From number
\* Base on, the name of a mounted partition may begin the path of another.
CallsReachTheirPartition ==
    call.part < Base =>
        \/ call.reached = None
        \/ /\ call.reached.device = call.device
           /\ call.part < Len(root[call.device])
           /\ call.reached.lba = root[call.device][call.part + 1]

\* probe_fs: when it is done every ext2 partition of every disk that read well
\* is mounted, whatever failed on the other disks and on the partitions before
\* it, unless FAT32 took it first or all slots are taken.
HealthyDisksAreMounted ==
    pc = "done" =>
        \A d \in 1 .. Len(Ports) :
            Healthy(d) =>
                \A p \in DOMAIN Listed(images[d]) :
                    LET lba == Listed(images[d])[p]
                    IN  images[d].content[lba] = "ext2" =>
                            \/ FreeSlots(ext2, None) = {}
                            \/ \E i \in DOMAIN mounts :
                                  /\ mounts[i].device = d
                                  /\ mounts[i].lba = lba
                                  /\ mounts[i].fs = "ext2"
                                  /\ mounts[i].name = Mountpoint(devices[d], p - 1)

-----------------------------------------------------------------------------
=============================================================================
