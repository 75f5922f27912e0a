\* Three disks, two of one kind; partition numbers in base 2, so that the third
\* partition's name begins with the second's; slots for three ext2 partitions.
CONSTANTS
    Images <- MCImages
    Ports <- MCPorts
    ComPorts = 2
    EntriesPerSector = 2
    GroupCount = 1
    Slots = 3
    Base = 2
    MaxFailures = 2

SPECIFICATION Spec
INVARIANTS PartitionsComeFromOneTable MountsOwnTheirSlots CallsReachTheirPartition HealthyDisksAreMounted
