------------------------------- MODULE MCLive -------------------------------
EXTENDS LiveRun

MCInit == [lvs |-> {Volume("o", "other", 0, {}), Volume("r", "root", 1, Fs("fr"))},
           mounts |-> <<[target |-> <<"/", "r">>, lv |-> "r"]>>]
\* CreateLv, activation, ext4, Mount(Host).
MCOrder(vg) ==
    <<[provider |-> "Lvm", op |-> "LvmCreateLv", node |-> vg, planned |-> <<"planned", "lv">>,
       name |-> "data", size |-> 2, layout |-> "Linear"],
      [provider |-> "Lvm", op |-> "LvmSetActivation", node |-> <<"planned", "lv">>, active |-> TRUE],
      [provider |-> "Filesystem", op |-> "FilesystemCreate", node |-> <<"planned", "lv">>,
       planned |-> <<"planned", "fs">>, fs |-> "Ext4", label |-> {}],
      [provider |-> "Mount", op |-> "Mount",
       entry |-> MountEntry([s |-> "Filesystem", node |-> <<"planned", "fs">>], <<"/", "m">>,
                            MountOptions, Host)]>>
=============================================================================
