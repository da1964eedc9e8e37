----------------------------- MODULE MCFileTransfer -----------------------------
(* Instances of FileTransfer for TLC: lists with files of no, one and two     *)
(* packets, directories first, between and last, and an entry of no kind.     *)
EXTENDS FileTransfer, TLC

File(n) == [kind |-> "file", size |-> n]
Dir == [kind |-> "dir", size |-> 0]
Fifo == [kind |-> "other", size |-> 0]

SomeLists == {<<File(0)>>, <<File(2), File(1)>>, <<Dir, File(1), File(0)>>,
              <<File(1), Dir>>, <<File(1), Fifo, File(1)>>, <<File(0), File(0), File(2)>>, <<Dir>>,
              <<File(3), Dir, File(2), File(1)>>}
===============================================================================
