------------------------------- MODULE MCWire -------------------------------
(***************************************************************************)
(* Bytes of two bits.  The addresses differ in each of their bytes, so     *)
(* that every prefix length separates some of them, and one read backwards *)
(* is another one.                                                         *)
(***************************************************************************)
EXTENDS Wire

\* Bytes and addresses by their numbers.
byteOf(n) == [j \in 0 .. Bits - 1 |-> (n \div 2^j) % 2]
addressOf(ip) == [i \in 1 .. 4 |-> byteOf(ip[i])]
pairOf(bytes) == [i \in 1 .. 2 |-> byteOf(bytes[i])]

MCAddress == { addressOf(ip) : ip \in { <<1, 2, 3, 0>>, <<1, 2, 0, 3>>, <<1, 3, 3, 0>>, <<0, 3, 2, 1>> } }
MCPodsOnHost == { addressOf(ip) : ip \in { <<1, 2, 3, 0>>, <<1, 3, 3, 0>> } }
MCPorts == { <<pairOf(<<0, 1>>), pairOf(<<3, 2>>)>>, <<pairOf(<<3, 2>>), pairOf(<<0, 1>>)>> }
MCSizes == { pairOf(<<1, 2>>), pairOf(<<2, 1>>) }

\* 0.0.0.0/0, and the network address of each prefix of 1.2.3.0.
MCCidr ==
  { [ip |-> addressOf(c[1]), ones |-> c[2]] : c \in
      { <<<<0, 0, 0, 0>>, 0>>, <<<<0, 0, 0, 0>>, 1>>, <<<<1, 0, 0, 0>>, 2>>, <<<<1, 2, 0, 0>>, 3>>,
        <<<<1, 2, 0, 0>>, 4>>, <<<<1, 2, 2, 0>>, 5>>, <<<<1, 2, 3, 0>>, 6>>, <<<<1, 2, 3, 0>>, 8>> } }

\* net.ParseCIDR takes an address of the subnet as well: the flag 10.0.0.5/24.
MCHostBits == { [ip |-> addressOf(<<1, 2, 3, 1>>), ones |-> 6] }

\* Numbers fit a uint32 as they do in arithmetic.
ASSUME UintAssumption ==
  /\ Uint32 = 2^(4 * Bits)
  /\ \A n \in 0 .. 2 * Uint32 : numberOf(uint32Of(n)) = n % Uint32
=============================================================================
