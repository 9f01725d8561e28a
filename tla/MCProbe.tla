------------------------------- MODULE MCProbe ------------------------------
(* Machines for ProbeRun.  obj names what a device path holds physically. *)
EXTENDS ProbeRun

Bare == [udev |-> {}, fdisk |-> {}, blkid |-> {}, luks |-> {}, dm |-> {}, loop |-> {},
         swap |-> {}, multipath |-> {}, md |-> [arrays |-> {}, members |-> {}], lvm |-> NoLvm,
         btrfs |-> {}, mounts |-> <<>>, subvolumes |-> {},
         zfs |-> [pools |-> {}, datasets |-> {}], nvme |-> {}, obj |-> <<>>]
Disk(dev, devno, wwn) == UdevBlockEntry(dev, "disk", "disk", devno, {8}, wwn, {})
Volume(devno, class) == UdevBlockEntry(<<"dm", devno>>, class, "disk", devno, {2}, {}, {})

\* A partitioned disk, a second disk with a volume group, one mapped volume.
LvmHost(first, second, lv, free) ==
    [Bare EXCEPT
        !.udev = {Disk(<<first>>, 1, {"wa"}), Disk(<<second>>, 2, {"wb"}), Volume(9, "dm"),
                  UdevBlockEntry(<<first, 1>>, "disk", "partition", 3, {6}, {}, {<<"by", "p1">>})},
        !.fdisk = {FdiskTable(<<first>>, {"gpt"}, {FdiskPartition(1, 1, 6, {"p1"}),
                                                   FdiskPartition(0, 0, 1, {})})},
        !.blkid = {BlkidEntry(<<first, 1>>, "ext4", {"f1"}, {}),
                   BlkidEntry(<<second>>, "LVM2_member", {"pv"}, {}),
                   BlkidEntry(<<"dm", 9>>, "ext4", {lv}, {})},
        !.dm = {DevmapperEntry(9, lv, <<"LVM", lv>>, {"linear"}, {2})},
        !.lvm = [vgs |-> {LvmVgEntry("vg", "v", 8, free)},
                 pvs |-> {LvmPvEntry(<<second>>, "pv", "vg", 8)},
                 lvs |-> {LvmLvEntry(lv, "vg", lv, 2, "a", {}),
                          LvmLvEntry("snap", "vg", "snap", 2, "-", {lv}),
                          LvmLvEntry("odd", "vg", "odd", 2, "short", {})}],
        !.mounts = <<LibmountEntry(<<"by", "p1">>, "ext4", <<"/", "m">>, <<"rw">>),
                     LibmountEntry(<<"mapper", lv>>, "ext4", <<"/", "d">>, <<"rw">>),
                     LibmountEntry(<<>>, "tmpfs", <<"/", "t">>, <<"rw">>)>>,
        !.obj = (<<first>> :> "A") @@ (<<first, 1>> :> "A1") @@ (<<second>> :> "B")
                @@ (<<"dm", 9>> :> lv)]
LvmHosts == {LvmHost("sda", "sdb", "l", 6), LvmHost("sdb", "sda", "l", 6),
             LvmHost("sda", "sdb", "k", 5)}

\* Encryption, multipath, arrays, loop devices and swap, and a Btrfs over two disks.
MixedHost(names, degraded) ==
    [Bare EXCEPT
        !.udev = {Disk(<<names[1]>>, 1, {"wa"}), Disk(<<names[2]>>, 2, {"wb"}),
                  Disk(<<"sdc">>, 3, {}), Volume(9, "dm"), Volume(8, "dm"),
                  UdevBlockEntry(<<"md", 0>>, "md", "disk", 7, {8}, {}, {}),
                  UdevBlockEntry(<<"loop", 0>>, "loop", "disk", 6, {4}, {}, {})},
        !.blkid = {BlkidEntry(<<names[1]>>, "btrfs", {"bt"}, {}),
                   BlkidEntry(<<names[2]>>, "btrfs", {"bt"}, {}),
                   BlkidEntry(<<"sdc">>, "linux_raid_member", {"md"}, {}),
                   BlkidEntry(<<"md", 0>>, "crypto_LUKS", {"lu"}, {}),
                   BlkidEntry(<<"loop", 0>>, "swap", {"sw"}, {})},
        !.luks = {CryptsetupEntry(<<"md", 0>>, {"lu"}, 1)},
        !.dm = {DevmapperEntry(9, "secret", <<"CRYPT", "lu">>, {"crypt"}, {7}),
                DevmapperEntry(8, "mp", <<"mpath", "x">>, {"multipath"}, {3})},
        !.loop = {LoopEntry(<<"loop", 0>>, FALSE)},
        !.swap = {SwapEntry(<<"loop", 0>>, TRUE)},
        !.multipath = {<<"sdc">>},
        !.md = [arrays |-> {MdraidArrayEntry(<<"md", 0>>, "raid1", {"md"}, 8, degraded)},
                members |-> {MdraidMemberEntry(<<"sdc">>, {"md"})}],
        !.btrfs = {BtrfsFilesystemEntry(<<names[1]>>, "bt", {"data"},
                        {BtrfsDeviceEntry(1, <<names[1]>>), BtrfsDeviceEntry(2, <<names[2]>>)})},
        !.mounts = <<LibmountEntry(<<names[1]>>, "btrfs", <<"/", "b">>, <<"rw">>)>>,
        !.subvolumes = {BtrfsEntry(<<"/", "b">>, {BtrfsSubvolumeEntry(256, "home", FALSE)})},
        !.obj = (<<names[1]>> :> "A") @@ (<<names[2]>> :> "B") @@ (<<"sdc">> :> "C")
                @@ (<<"dm", 9>> :> "secret") @@ (<<"dm", 8>> :> "mp")
                @@ (<<"md", 0>> :> "md") @@ (<<"loop", 0>> :> "loop")]

\* A pool on a namespace, and two disks that report one WWN.
PoolHost(clone) ==
    [Bare EXCEPT
        !.udev = {Disk(<<"sda">>, 1, {"w"}), Disk(<<"nvme", 0>>, 5, {})}
                 \cup (IF clone THEN {Disk(<<"sdb">>, 2, {"w"})} ELSE {}),
        !.zfs = [pools |-> {ZfsPoolEntry("tank", {"g"}, {
                                ZfsVdevEntry({"m"}, {}, {"data"}, "mirror", {}),
                                ZfsVdevEntry({"d"}, {"m"}, {}, "disk", {<<"nvme", 0>>})})},
                 datasets |-> {ZfsDatasetEntry(<<"tank", "home">>, FALSE, {})}],
        !.nvme = {NvmeSubsystemEntry("n", {NvmeControllerEntry("nvme0", {"s"})},
                      {NvmeNamespaceEntry(<<"nvme", 0>>, 1, 2, 4, {Id("NvmeUuid", "u")})})},
        !.obj = (<<"sda">> :> "A") @@ (<<"sdb">> :> "B") @@ (<<"nvme", 0>> :> "N")]

Machines == {LvmHosts, {MixedHost(<<"sda", "sdb">>, FALSE), MixedHost(<<"sdb", "sda">>, TRUE)},
             {PoolHost(FALSE), PoolHost(TRUE)}}
MCMoves == UNION {m \X m : m \in Machines}
MCServices == {<<{"system"}>>, <<{"local"}, {"system"}>>, <<{"block", "local"}, {"system"}>>,
               <<{"local"}, {"libmount"}>>}
=============================================================================
