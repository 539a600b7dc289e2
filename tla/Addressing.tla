----------------------------- MODULE Addressing -----------------------------
(***************************************************************************)
(* The address arithmetic of internal/adapters/dhcpwindows: what a create  *)
(* is validated by, in words of Width bits (32 in the code), the overlap   *)
(* test of the create script, and next to them what the DHCP server itself *)
(* makes of a subnet, which no definition of the code is used for.         *)
(***************************************************************************)
EXTENDS Naturals

CONSTANT Width  \* bits of an address

ASSUME WidthAssumption == Width \in Nat /\ Width >= 2

\* The powers of two.
Power[k \in Nat] == IF k = 0 THEN 1 ELSE 2 * Power[k - 1]

Top == Power[Width]
Addresses == 0 .. Top - 1
NotAnAddress == Top  \* stands for every text parseIPv4 refuses

parseIPv4(s) == s \in Addresses

-----------------------------------------------------------------------------
(* Words.                                                                  *)

Bits == [a \in Addresses |-> {i \in 0 .. Width - 1 : (a \div Power[i]) % 2 = 1}]
Word == [bits \in SUBSET (0 .. Width - 1) |-> CHOOSE a \in Addresses : Bits[a] = bits]
Inverted(a) == Top - 1 - a

networkAddr(addr, mask) == Word[Bits[addr] \cap Bits[mask]]
broadcastAddr(addr, mask) == Word[Bits[addr] \cup Bits[Inverted(mask)]]

hasHostAddresses(mask) == Inverted(mask) >= 3

\* Mutant: a mask with a gap in it passes.
isContiguousMaskAny(mask) == mask # 0

\* Adding one to the hosts' bits carries through all of them, and wraps for a zero mask.
isContiguousMask(mask) ==
  mask # 0 /\ Bits[Inverted(mask)] \cap Bits[(Inverted(mask) + 1) % Top] = {}

-----------------------------------------------------------------------------
(* Ranges.                                                                 *)

checkLeasableEnds(start, end, mask) ==
  start # networkAddr(start, mask) /\ end # broadcastAddr(end, mask)

\* The addressing of a create: each part, and then the parts together.
validateAddressing(in) ==
  /\ parseIPv4(in.lo) /\ parseIPv4(in.hi) /\ parseIPv4(in.mask)
  /\ isContiguousMask(in.mask) /\ hasHostAddresses(in.mask)
  /\ in.lo <= in.hi
  /\ networkAddr(in.lo, in.mask) = networkAddr(in.hi, in.mask)
  /\ checkLeasableEnds(in.lo, in.hi, in.mask)

ScopeID(in) == networkAddr(in.lo, in.mask)

\* Each block's network address is at or below the other's broadcast address.
Overlap(net, mask, otherNet, otherMask) ==
  net <= otherNet + Inverted(otherMask) /\ otherNet <= net + Inverted(mask)

-----------------------------------------------------------------------------
(* The DHCP server. A subnet is a block of a power of two of addresses,    *)
(* four at the least and not all of them.                                  *)

Size(mask) == Top - mask
Block(net, mask) == net .. net + Size(mask) - 1
SubnetOf(addr, mask) == addr - (addr % Size(mask))

Subnets == {[net |-> a - (a % Power[k]), mask |-> Top - Power[k]] : a \in Addresses, k \in 2 .. Width - 1}

\* A range it leases: in order, inside its subnet, and free of both ends of it.
Leasable(net, scope) ==
  /\ [net |-> net, mask |-> scope.mask] \in Subnets
  /\ net < scope.lo /\ scope.lo <= scope.hi /\ scope.hi < net + Size(scope.mask) - 1
=============================================================================
