--------------------------- MODULE MCDeviceWrite ---------------------------
(* Instances of DeviceWrite for TLC: two writes over each other, three      *)
(* reads, or a write and a read; and three writes.                          *)
EXTENDS DeviceWrite

CONSTANTS w1, w2, w3, r1, r2, r3

TwoChunksEach == [w \in Writers |-> 2]
WritesOrReads == {{w1, w2}, {w1, r1}, {r1, r2, r3}}
ThreeWrites == {{w1, w2, w3}}
=============================================================================
