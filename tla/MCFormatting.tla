---------------------------- MODULE MCFormatting ----------------------------
EXTENDS Formatting
Request(c, b, n, fs) ==
  [capacity |-> c, blocks |-> b, inodes |-> n, files |-> fs]
From(a, b) == [start |-> a, end |-> b - 1]
(* One group and several; bitmaps of one byte, filled or not, and of more; *)
(* the least format, 34 times on a device with room for 33: on key-value   *)
(* stores.  Then three groups on two files, on one of the two, and with    *)
(* the files in the other order.                                           *)
Stores == <<>>
SmallDevices ==
  {Request(c, b, n, Stores) : c \in {600, 2000, 4700, 8000},
                              b \in {1, 3, 8, 9}, n \in {0, 1, 8, 9, 17}}
    \cup {Request(22984, 1, 1, Stores)}
    \cup {Request(2100, 1, 1, fs) :
            fs \in {<<From(0, 300), From(300, 2100)>>, <<From(0, 800)>>,
                    <<From(800, 2100)>>, <<From(800, 2100), From(0, 800)>>}}
=============================================================================
