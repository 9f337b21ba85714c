---------------------------- MODULE PairedDevice ----------------------------
(* PairedDeviceStorage (common-cpp/src/storage/PairedDevice.cpp): what it    *)
(* makes of the file of paired devices.  A file is the sequence of its JSON  *)
(* entries, each with its user and whether its fields can be read; a list of *)
(* devices is given by their places in the file.                             *)
EXTENDS Naturals

Entries(Users) == [userName : Users, readable : BOOLEAN]

\* An exception ends the loop: the entries before the bad one are kept, it and
\* those after it are dropped.  (A file that is no JSON at all has no entries.)
GetDevices(file) == {i \in DOMAIN file : \A j \in 1 .. i : file[j].readable}

GetDevicesForUser(file, userName) ==
    {i \in GetDevices(file) : file[i].userName = userName}
=============================================================================
