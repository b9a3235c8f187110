------------------------------- MODULE MCWalk -------------------------------
(* Model-checking instance of the mounted methods.                         *)
EXTENDS Walk, TLC

Dir(ents) == [type |-> "dir", size |-> 0, ents |-> <<Dot, Dot>> \o ents]
Reg(size) == [type |-> "reg", size |-> size, ents |-> <<>>]
Link == [type |-> "other", size |-> 1, ents |-> <<>>]

(* Inode 13 has two names in two directories, 9 two in one, 6 none; their   *)
(* data is more than the arena of 16 holds.                                *)
Wide(typed) ==
  [root |-> 2, typed |-> typed,
   node |-> 2 :> Dir(<<13, 5, 9, 4, 9>>) @@ 5 :> Dir(<<3, 13>>)
         @@ 13 :> Reg(10) @@ 9 :> Reg(0) @@ 3 :> Reg(7) @@ 4 :> Link @@ 6 :> Reg(2)]

(* Directories in directories, one of them empty. *)
Deep(typed) ==
  [root |-> 8, typed |-> typed,
   node |-> 8 :> Dir(<<7, 10>>) @@ 7 :> Dir(<<12, 11>>) @@ 12 :> Dir(<<>>)
         @@ 10 :> Reg(1) @@ 11 :> Reg(6)]

MCVolumes == {Wide(TRUE), Deep(FALSE)}

(* --threads takes 1 to 1024. *)
MCCounts == "1" :> 1 @@ "2" :> 2

MCCmds ==
  {<<"vfs", "mnt">>, <<"vfs", "mnt", "--hash">>, <<"--threads", "2", "vfs", "mnt", "--digest", "out">>,
   <<"handle", "mnt", "--digest", "out">>, <<"handle", "mnt">>,
   <<"bulkstat", "mnt", "--hash", "--threads", "2">>, <<"bulkstat", "--digest", "out", "mnt">>,
   <<"tar", "mnt">>, <<"vfs", "--threads", "0", "mnt">>, <<"vfs", "mnt", "more">>,
   <<"vfs", "mnt", "--digest">>, <<"vfs", "--header", "mnt">>}

(* Every inode in a slot of its own, or all in one. *)
MCHashes == {[i \in 1..13 |-> i], [i \in 1..13 |-> 3]}
=============================================================================
