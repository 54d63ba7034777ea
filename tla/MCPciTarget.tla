---------------------------- MODULE MCPciTarget ----------------------------
(* Instances of PciTarget for TLC: three words of memory and one of        *)
(* configuration space, and the calls of the library on them.              *)
EXTENDS PciTarget

All == Lane
Part == {1}
Rec(op, page, word, n, data, be, flag64) ==
  [op |-> op, page |-> page, word |-> word, n |-> n, data |-> data, be |-> be,
   flag64 |-> flag64]

read32  == {Rec("read", p, 2, 1, <<>>, <<All>>, FALSE) : p \in {"low", "high", "none"}}
write32 == {Rec("write", p, 0, 1, <<v>>, <<b>>, FALSE) :
              p \in {"low", "none"}, v \in Value, b \in {All, Part}}
write32b == {Rec("write", "low", 0, 3, <<v, 1, 0>>, <<b, All, c>>, FALSE) :
               v \in Value, b \in {All, Part}, c \in {All, Part}}
read64  == {Rec("read", p, 0, 2, <<>>, <<All, All>>, TRUE) : p \in {"low", "high"}}
write64 == {Rec("write", p, 1, 2, <<0, 1>>, <<All, b>>, TRUE) :
              p \in {"low", "high"}, b \in {All, Part}}
config  == {Rec("read", "config", Words, 1, <<>>, <<All>>, FALSE),
            Rec("write", "config", Words, 1, <<1>>, <<Part>>, FALSE)}

AllCalls == read32 \cup write32 \cup write32b \cup read64 \cup write64 \cup config
Reads == read32
AbortedBurst == read32 \cup {Rec("read", "none", 0, 2, <<>>, <<All, All>>, TRUE)}
=============================================================================
