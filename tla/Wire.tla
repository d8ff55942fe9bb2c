-------------------------------- MODULE Wire --------------------------------
(***************************************************************************)
(* An address and a byte count on their way from a packet to the server's  *)
(* index: the subnet test of src/agent/kubezonnet.c, the filter and the    *)
(* constants of src/agent/agent.go, src/byteorder, src/payload, and the    *)
(* two copies of ipToUint32.                                               *)
(*                                                                         *)
(* A word is a function from bit positions, 0 the least, to bits, so that  *)
(* shifts and masks are what they are in a register.  An IPv4 address is   *)
(* four bytes, as in a packet or in dotted notation; the code turns it     *)
(* into a uint32 in host order or in network order (the host is little     *)
(* endian).  A byte has Bits bits, 8 in the code.                          *)
(***************************************************************************)
EXTENDS Naturals, Sequences

CONSTANTS
  Bits,          \* bits in a byte
  Cidr,          \* the -subnet-cidr flags to try: [ip, ones]
  Address,       \* addresses of packets
  PodsOnHost,    \* those of them that are pod IPs of the agent's node
  Ports,         \* the two ports of a packet, each the two bytes of its header
  Sizes,         \* tot_len of a packet, likewise
  MaxFlows       \* bound on the entries of one flush

\* Words of n bytes.
Word(n) == [0 .. n * Bits - 1 -> 0 .. 1]
Byte == Word(1)

\* How many numbers a uint32 has.
Uint32 ==
  LET power[i \in 0 .. 4 * Bits] == IF i = 0 THEN 1 ELSE 2 * power[i - 1] IN power[4 * Bits]

\* The largest report has a length that fits: ip_map has 1024 entries.
ASSUME WireAssumption ==
  /\ Bits \in Nat \ {0}
  /\ Address \subseteq [1 .. 4 -> Byte]
  /\ PodsOnHost \subseteq Address
  /\ Ports \subseteq [1 .. 2 -> Byte] \X [1 .. 2 -> Byte] /\ Sizes \subseteq [1 .. 2 -> Byte]
  /\ Cidr \subseteq [ip: [1 .. 4 -> Byte], ones: 0 .. 4 * Bits]
  /\ MaxFlows \in Nat /\ 4 + 20 * MaxFlows < Uint32

-----------------------------------------------------------------------------
(***************************************************************************)
(* Words.  A shift is by whole bytes and drops what leaves the word.       *)
(***************************************************************************)

x | y == [i \in DOMAIN x |-> IF x[i] = 1 \/ y[i] = 1 THEN 1 ELSE 0]
x & y == [i \in DOMAIN x |-> IF x[i] = 1 /\ y[i] = 1 THEN 1 ELSE 0]

\* Of a uint32.
shl(x, n) == [i \in 0 .. 4 * Bits - 1 |-> IF i < n * Bits THEN 0 ELSE x[i - n * Bits]]
shr(x, n) == [i \in 0 .. 4 * Bits - 1 |-> IF i + n * Bits < 4 * Bits THEN x[i + n * Bits] ELSE 0]
byteMask(n) == [i \in 0 .. 4 * Bits - 1 |-> IF i \in n * Bits .. (n + 1) * Bits - 1 THEN 1 ELSE 0]

\* Fault: the masks of the middle bytes are swapped.
Htonl_masksSwapped(x) ==
  shl(x, 3) | (shl(x, 1) & byteMask(1)) | (shr(x, 1) & byteMask(2)) | shr(x, 3)

Htonl(x) == shl(x, 3) | (shl(x, 1) & byteMask(2)) | (shr(x, 1) & byteMask(1)) | shr(x, 3)

Ntohl(x) == shl(x, 3) | (shl(x, 1) & byteMask(2)) | (shr(x, 1) & byteMask(1)) | shr(x, 3)

\* A byte as a uint32.
uint32(byte) == [i \in 0 .. 4 * Bits - 1 |-> IF i < Bits THEN byte[i] ELSE 0]

ipToUint32(ip) ==
  shl(uint32(ip[1]), 3) | shl(uint32(ip[2]), 2) | shl(uint32(ip[3]), 1) | shl(uint32(ip[4]), 0)

maskToUint32(mask) ==
  LET next(result, byteValue) == shl(result, 1) | uint32(byteValue)
  IN next(next(next(uint32(mask[1]), mask[2]), mask[3]), mask[4])

\* The uint32 of a number, which loses what does not fit, and its number.
uint32Of(n) ==
  LET half[i \in 0 .. 4 * Bits] == IF i = 0 THEN n ELSE half[i - 1] \div 2
  IN [i \in 0 .. 4 * Bits - 1 |-> half[i] % 2]
numberOf(x) ==
  LET first[i \in 0 .. 4 * Bits] == IF i = 0 THEN 0 ELSE 2 * first[i - 1] + x[4 * Bits - i]
  IN first[4 * Bits]

-----------------------------------------------------------------------------
(***************************************************************************)
(* encoding/binary's BigEndian, and the two ends of package payload.       *)
(***************************************************************************)

\* The n bytes of a word, and the word of n bytes at an offset.
put(x, n) == [i \in 1 .. n |-> [j \in 0 .. Bits - 1 |-> x[(n - i) * Bits + j]]]
get(buf, offset, n) == [i \in 0 .. n * Bits - 1 |-> buf[offset + n - (i \div Bits)][i % Bits]]

\* How a little-endian CPU loads four bytes of a packet, and two.
load(ip) == get(<<ip[4], ip[3], ip[2], ip[1]>>, 0, 4)
load16(bytes) == get(<<bytes[2], bytes[1]>>, 0, 2)

\* bpf_endian.h on such a CPU: the two bytes of a uint16 change places.
bpf_ntohs(x) == [i \in 0 .. 2 * Bits - 1 |-> IF i < Bits THEN x[i + Bits] ELSE x[i - Bits]]

\* A uint16 as a uint64.
uint64(x) == [i \in 0 .. 8 * Bits - 1 |-> IF i < 2 * Bits THEN x[i] ELSE 0]

\* The 20 bytes of an entry.
entryBytes(key, value) ==
  put(key.SrcIP, 4) \o put(key.DstIP, 4) \o put(key.SrcPort, 2) \o put(key.DstPort, 2)
    \o put(value.PacketSize, 8)

Encode(ks, vs) ==
  [p \in 1 .. 4 + 20 * Len(ks) |->
     IF p <= 4 THEN put(uint32Of(Len(ks)), 4)[p]
     ELSE LET i == 1 + ((p - 5) \div 20) IN entryBytes(ks[i], vs[i])[1 + ((p - 5) % 20)]]

numEntries(buf) == numberOf(get(buf, 0, 4))

EntryAt(buf, offset) ==
  [SrcIP   |-> Ntohl(get(buf, offset, 4)),
   DstIP   |-> Ntohl(get(buf, offset + 4, 4)),
   SrcPort |-> get(buf, offset + 8, 2),
   DstPort |-> get(buf, offset + 10, 2),
   Traffic |-> get(buf, offset + 12, 8)]

\* Fault: an entry is taken to have no ports.
decodable_noPorts(buf) ==
  /\ Len(buf) >= 4
  /\ uint32Of(Len(buf)) = uint32Of(4 + 16 * numEntries(buf))

\* Does Decode take the buffer?  Its length is computed in 32 bits.
decodable(buf) ==
  /\ Len(buf) >= 4
  /\ uint32Of(Len(buf)) = uint32Of(4 + 20 * numEntries(buf))

Decode(buf) == [i \in 1 .. numEntries(buf) |-> EntryAt(buf, 4 + 20 * (i - 1))]

-----------------------------------------------------------------------------
(***************************************************************************)
(* One flush of an agent, from the packets to the server.                  *)
(***************************************************************************)

VARIABLES
  cidr,       \* the agent's -subnet-cidr
  packets,    \* history: the packets seen, in order
  keys,       \* ip_map, as two slices
  values,
  sent,       \* the body of the POST
  entries     \* what the server decodes

vars == <<cidr, packets, keys, values, sent, entries>>

\* net.CIDRMask: the four bytes of a mask, whose first `ones' bits are set, each
\* byte read from its most significant bit.
cidrMask(ones) ==
  [i \in 1 .. 4 |-> [j \in 0 .. Bits - 1 |-> IF i * Bits - 1 - j < ones THEN 1 ELSE 0]]

\* The constants Run writes into the eBPF program.
subnet_prefix == Htonl(ipToUint32(cidr.ip))
subnet_mask   == Htonl(maskToUint32(cidrMask(cidr.ones)))

\* handle_v4's test of an address it loads from the packet.
inSubnet(ip) == (load(ip) & subnet_mask) = subnet_prefix

Init ==
  /\ cidr \in Cidr
  /\ packets = <<>>
  /\ keys = <<>>
  /\ values = <<>>
  /\ sent = <<>>
  /\ entries = <<>>

\* Fault: the ports are kept in network order.
keyOf_noNtohs(p) ==
  [SrcIP |-> load(p.src), DstIP |-> load(p.dst),
   SrcPort |-> load16(p.ports[1]), DstPort |-> load16(p.ports[2])]

\* Fault: the length is counted in network order.
valueOf_noNtohs(p) == [PacketSize |-> uint64(load16(p.size))]

\* The key and the value of a packet in ip_map.  The addresses stay in network
\* order, the ports and the length do not.
keyOf(p) ==
  [SrcIP |-> load(p.src), DstIP |-> load(p.dst),
   SrcPort |-> bpf_ntohs(load16(p.ports[1])), DstPort |-> bpf_ntohs(load16(p.ports[2]))]
valueOf(p) == [PacketSize |-> uint64(bpf_ntohs(load16(p.size)))]

\* A packet passes the hook.  It is the only one of its flow: module FlowMap is
\* about the sums.
handle_v4(src, dst, ports, size) ==
  LET p == [src |-> src, dst |-> dst, ports |-> ports, size |-> size] IN
  /\ sent = <<>>
  /\ Len(packets) < MaxFlows
  /\ \A i \in 1 .. Len(packets) : <<packets[i].src, packets[i].dst, packets[i].ports>> # <<src, dst, ports>>
  /\ packets' = Append(packets, p)
  /\ \/ /\ inSubnet(src) /\ inSubnet(dst)
        /\ keys' = Append(keys, keyOf(p))
        /\ values' = Append(values, valueOf(p))
     \/ /\ ~(inSubnet(src) /\ inSubnet(dst))
        /\ UNCHANGED <<keys, values>>
  /\ UNCHANGED <<cidr, sent, entries>>

\* The numbers up to n that are in a set, one after the other.
inOrder(S, n) ==
  LET upTo[i \in 0 .. n] == IF i = 0 THEN <<>> ELSE IF i \in S THEN Append(upTo[i - 1], i) ELSE upTo[i - 1]
  IN upTo[n]

ipsOnHost == {ipToUint32(ip) : ip \in PodsOnHost}

\* Fault: the address is looked up in network order.
kept_networkOrder == inOrder({i \in 1 .. Len(keys) : keys[i].SrcIP \in ipsOnHost}, Len(keys))

\* filterSrcIpOnCurrentHost: the indexes of the entries it keeps.
kept == inOrder({i \in 1 .. Len(keys) : Ntohl(keys[i].SrcIP) \in ipsOnHost}, Len(keys))

finalKeys == [i \in 1 .. Len(kept) |-> keys[kept[i]]]
finalValues == [i \in 1 .. Len(kept) |-> values[kept[i]]]

\* Nothing is sent if nothing is kept.
sendDataToServer ==
  /\ sent = <<>>
  /\ kept # <<>>
  /\ sent' = Encode(finalKeys, finalValues)
  /\ UNCHANGED <<cidr, packets, keys, values, entries>>

receive ==
  /\ sent # <<>>
  /\ entries = <<>>
  /\ decodable(sent)
  /\ entries' = Decode(sent)
  /\ UNCHANGED <<cidr, packets, keys, values, sent>>

Next ==
  \/ \E src, dst \in Address, ports \in Ports, size \in Sizes : handle_v4(src, dst, ports, size)
  \/ sendDataToServer
  \/ receive

Spec == Init /\ [][Next]_vars

-----------------------------------------------------------------------------
(***************************************************************************)
(* Properties.                                                             *)
(***************************************************************************)

\* Does an address begin with the first `ones' bits of the CIDR's address?
member(ip) ==
  \A i \in 4 * Bits - cidr.ones .. 4 * Bits - 1 : ipToUint32(ip)[i] = ipToUint32(cidr.ip)[i]

counted == {p \in {packets[i] : i \in 1 .. Len(packets)} : member(p.src) /\ member(p.dst)}

\* The elements of a sequence, none of which occurs twice.
listed(s, S) ==
  /\ {s[i] : i \in 1 .. Len(s)} = S
  /\ \A i, j \in 1 .. Len(s) : s[i] = s[j] => i = j

\* The map holds exactly the flows between two addresses of the CIDR, each once,
\* although the hook compares words in network order with constants that Run made
\* from text (cmd/agent/main.go:14, "Specify the subnet in CIDR notation").
CountsTheSubnet == listed(keys, {keyOf(p) : p \in counted})

\* The number that two bytes of a header stand for, the first one the more
\* significant, as a word of n bytes.
numberIn(bytes, n) ==
  [i \in 0 .. n * Bits - 1 |-> IF i < 2 * Bits THEN bytes[2 - (i \div Bits)][i % Bits] ELSE 0]

\* What the server should have of a packet.
recordOf(p) ==
  [SrcIP   |-> ipToUint32(p.src), DstIP |-> ipToUint32(p.dst),
   SrcPort |-> numberIn(p.ports[1], 2), DstPort |-> numberIn(p.ports[2], 2),
   Traffic |-> numberIn(p.size, 8)]

\* The entries that reach the server are the flows whose source is a pod of the
\* agent's node, each once and under the uint32 the server's own index has for
\* its addresses, with the numbers that its headers have for its ports and its
\* length, through bpf_ntohs and the two ends of package payload.
ServerSeesAddresses ==
  entries # <<>> => listed(entries, {recordOf(p) : p \in {q \in counted : q.src \in PodsOnHost}})

\* Decode takes what Encode makes: no report of the agent is refused.
NeverRefused == sent # <<>> => decodable(sent)
=============================================================================
