--------------------------- MODULE MCMemoryWrite ---------------------------
(* Instances of MemoryWrite for TLC.                                       *)
EXTENDS MemoryWrite

Fill(byte, n) == [i \in 1 .. n |-> byte]

\* Writes of up to four bytes over three pages of two, and refused ones.
SmallRequests ==
  {[address |-> a, expected |-> Fill(e, n), replacement |-> Fill(1 - e, n)] :
     a \in {3, 4, 5}, e \in {0, 1}, n \in {1, 4}}
  \cup {[address |-> 0, expected |-> <<0>>, replacement |-> <<1>>],
        [address |-> 4, expected |-> <<>>, replacement |-> <<>>],
        [address |-> 4, expected |-> <<0>>, replacement |-> <<1, 1>>],
        [address |-> 9, expected |-> <<0, 0>>, replacement |-> <<1, 1>>]}

Zeros == {[a \in Addresses |-> 0]}

MixedLayouts == [Pages -> {{"r", "w", "x"}, {"r", "x"}, {"r"}}] \cup [Pages -> {{"r", "x"}, {}}]
=============================================================================
