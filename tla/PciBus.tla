------------------------------ MODULE PciBus ------------------------------
(***************************************************************************)
(* The scan of the PCI buses (os/kernel/src/device/pci.rs) as a function   *)
(* from the configuration space of a machine to the list of its devices.   *)
(*                                                                         *)
(* A configuration space maps the addresses <<bus, device, function>> that *)
(* answer to their headers: the vendor and device id, the class, the type  *)
(* ("endpoint", "bridge" or another one), whether the device has multiple  *)
(* functions and, for a bridge, the secondary bus.  An address that does   *)
(* not answer reads as all ones.                                           *)
(***************************************************************************)
EXTENDS Naturals, Sequences, SequencesExt, FiniteSets

MAX_DEVICES_PER_BUS == 32
MAX_FUNCTIONS_PER_DEVICE == 8

\* id() is not INVALID.
Exists(space, address) == address \in DOMAIN space

\* Bit 7 of the header type, which is also set where nothing answers.
has_multiple_functions(space, address) ==
  Exists(space, address) => space[address].multiple

\* The buses that addresses or bridges of the machine name.
Buses(space) == {0} \cup {a[1] : a \in DOMAIN space} \cup {space[a].secondary : a \in DOMAIN space}

\* A bridge stands for the devices on its secondary bus: below says which these are.
check_function(space, below, address) ==
  IF space[address].type = "bridge" THEN below[space[address].secondary] ELSE <<address>>

\* The loop over the other functions ends at the first one that is missing.
OtherFunctions(space, bus, device) ==
  Min({i \in 1 .. MAX_FUNCTIONS_PER_DEVICE :
         i = MAX_FUNCTIONS_PER_DEVICE \/ ~Exists(space, <<bus, device, i>>)}) - 1

\* A bug: the loop starts with function 0, which has been checked already.
Bug_CheckedTwice(space, below, bus, device) ==
  IF ~Exists(space, <<bus, device, 0>>) THEN <<>>
  ELSE check_function(space, below, <<bus, device, 0>>)
       \o IF ~has_multiple_functions(space, <<bus, device, 0>>) THEN <<>>
          ELSE FlattenSeq([i \in 1 .. OtherFunctions(space, bus, device) + 1 |->
                             check_function(space, below, <<bus, device, i - 1>>)])

check_device(space, below, bus, device) ==
  IF ~Exists(space, <<bus, device, 0>>) THEN <<>>
  ELSE check_function(space, below, <<bus, device, 0>>)
       \o IF ~has_multiple_functions(space, <<bus, device, 0>>) THEN <<>>
          ELSE FlattenSeq([i \in 1 .. OtherFunctions(space, bus, device) |->
                             check_function(space, below, <<bus, device, i>>)])

\* The devices of a bus, given those of the buses below it.
DevicesOn(space, below, bus) ==
  FlattenSeq([i \in 1 .. MAX_DEVICES_PER_BUS |-> check_device(space, below, bus, i - 1)])

\* scan_bus() calls itself for each bridge.  The calls nest no deeper than there are buses,
\* because bridges form a tree (BridgesFormTree).
scan_bus(space, bus) ==
  LET nested[depth \in 0 .. Cardinality(Buses(space))] ==
        [b \in Buses(space) |-> IF depth = 0 THEN <<>>
                                ELSE DevicesOn(space, nested[depth - 1], b)]
  IN nested[Cardinality(Buses(space))][bus]

Root == <<0, 0, 0>>

\* Without a root device the loop over the host controllers ends at once.
scan(space) == IF Exists(space, Root) THEN scan_bus(space, 0) ELSE <<>>

\* With several host controllers scan_bus() is called for each function of
\* the root device and asserts that it is function 0.  A header that is
\* neither a bridge's nor an endpoint's is unwrapped although it is None.
ScanPanics(space) ==
  \/ Exists(space, Root) /\ has_multiple_functions(space, Root) /\ Exists(space, <<0, 0, 1>>)
  \/ \E address \in ToSet(scan(space)) : space[address].type # "endpoint"

search_by_class(space, devices, class) ==
  SelectSeq(devices, LAMBDA address : space[address].class = class)
-----------------------------------------------------------------------------
(***************************************************************************)
(* What a scan should find, stated without a walk.                          *)
(***************************************************************************)
\* A device answers at function 0 and, if it says so, at further ones.
ImplementedFunctions(space) ==
  {a \in DOMAIN space :
     LET first == <<a[1], a[2], 0>>
     IN Exists(space, first) /\ (a[3] = 0 \/ has_multiple_functions(space, first))}

Bridges(space) == {a \in ImplementedFunctions(space) : space[a].type = "bridge"}

Leads(space, from, to) == \E a \in Bridges(space) : a[1] = from /\ space[a].secondary = to

\* How the firmware numbers buses: each bridge has a secondary bus of its own, one level further
\* away from bus 0.
BridgesFormTree(space) ==
  /\ \A a, b \in Bridges(space) : space[a].secondary = space[b].secondary => a = b
  /\ \E level \in [Buses(space) -> 0 .. Cardinality(Buses(space)) - 1] :
       /\ level[0] = 0
       /\ \A a \in Bridges(space) : level[space[a].secondary] = level[a[1]] + 1

\* The least set of buses with bus 0 that is closed under bridges.
ConnectedBuses(space) ==
  LET Closed(S) == 0 \in S /\ \A b \in S, c \in Buses(space) : Leads(space, b, c) => c \in S
  IN {b \in Buses(space) : \A S \in SUBSET Buses(space) : Closed(S) => b \in S}

Endpoints(space) ==
  {a \in ImplementedFunctions(space) : a[1] \in ConnectedBuses(space) /\ space[a].type # "bridge"}

\* A function with a lower number is missing: the scan does not get there.
BehindGap(space, address) ==
  \E i \in 1 .. address[3] : ~Exists(space, <<address[1], address[2], i>>)
=============================================================================
