-------------------------------- MODULE Numa --------------------------------
(***************************************************************************)
(* NUMA layouts of attic-numa: how a machine's nodes, its L3 domains and a *)
(* custom string become logical nodes, and how threads are spread over     *)
(* them. A layout is the sequence of its nodes, each a set of CPUs; node   *)
(* n of the code is number n + 1 here.                                     *)
(*                                                                         *)
(* A machine is what sysfs shows of it: `listed`, whether there is a file  *)
(* of its nodes that is not empty; `online`, their numbers in its order,   *)
(* none when it has blanks only; `cpulist`, per node number with a file,   *)
(* its CPUs; `l3`, per CPU with a file, its L3 siblings; `allowed`, the    *)
(* process's CPUs at startup; `threads`, how many it has.                  *)
(***************************************************************************)
EXTENDS Integers, Sequences, FiniteSets, SequencesExt

CONSTANT BundleSize    \* CPUs a bundle of L3 domains may have, 32 in the code

Cpus(cfg) == UNION Range(cfg.nodes)
NodeOfCpu(cfg, c) == CHOOSE n \in DOMAIN cfg.nodes : c \in cfg.nodes[n]
RequiresMemoryReplication(cfg) == cfg.custom \/ Len(cfg.nodes) > 1

Retain(kept, cpus) == IF cpus = {} THEN kept ELSE Append(kept, cpus)
RemoveEmptyNodes(nodes) == FoldLeft(Retain, <<>>, nodes)

(* NumaConfig::new, one node with every thread. *)
DefaultConfig(machine) == [nodes |-> <<0..(machine.threads - 1)>>, custom |-> FALSE]

(* A custom string is its groups of CPU indexes. A CPU named twice is an     *)
(* error, and so is, to the caller, a string without nodes.                 *)
NamesTwice(groups) ==
    \E i, j \in DOMAIN groups : \E a \in DOMAIN groups[i], b \in DOMAIN groups[j] :
        <<i, a>> # <<j, b>> /\ groups[i][a] = groups[j][b]
FromString(groups) ==
    LET nodes == RemoveEmptyNodes([i \in DOMAIN groups |-> ToSet(groups[i])])
    IN  IF NamesTwice(groups) \/ nodes = <<>> THEN <<>>
        ELSE <<[nodes |-> nodes, custom |-> TRUE]>>

----------------------------------------------------------------------------
(* Detection.                                                              *)

Usable(machine, respect) == IF respect THEN machine.allowed ELSE Nat

(* The system's nodes by their numbers, empty where none is online; a CPU    *)
(* stays with the node listed first of those that have it. Without the      *)
(* file, or one of the nodes', one node.                                    *)
ListedBefore(machine, n) ==
    {machine.online[j] : j \in {i \in DOMAIN machine.online :
                                   \A k \in 1..i : machine.online[k] # n}}
ListedNodes(machine) ==
    LET numbers == Range(machine.online)
        earlier(n) == UNION {machine.cpulist[p] : p \in ListedBefore(machine, n)}
    IN  IF machine.listed /\ numbers \subseteq DOMAIN machine.cpulist
        THEN [i \in 1..Max({n + 1 : n \in numbers} \cup {0}) |->
                 IF i - 1 \in numbers THEN machine.cpulist[i - 1] \ earlier(i - 1) ELSE {}]
        ELSE <<0..(machine.threads - 1)>>
SystemNodes(machine, respect) ==
    RemoveEmptyNodes([i \in DOMAIN ListedNodes(machine) |->
                         ListedNodes(machine)[i] \cap Usable(machine, respect)])
FromSystemNuma(machine, respect) == [nodes |-> SystemNodes(machine, respect), custom |-> ~respect]

(* The walk over the next CPU not yet seen, up to the first without a file.  *)
NextUnseen(seen) == CHOOSE c \in 0..Cardinality(seen) : c \notin seen /\ (0..(c - 1)) \subseteq seen
Tagged(cpus, sys) ==
    IF cpus = {} THEN <<>> ELSE <<[cpus |-> cpus, node |-> NodeOfCpu(sys, Max(cpus))]>>
NextDomain(walk, shown) ==
    LET c == NextUnseen(walk.seen)
    IN  IF c \notin DOMAIN shown.l3 THEN walk
        ELSE [seen |-> walk.seen \cup shown.l3[c],
              domains |-> walk.domains \o Tagged(shown.l3[c] \cap shown.usable, shown.sys)]
L3Walk(machine, respect) ==
    FoldLeft(NextDomain, [seen |-> {}, domains |-> <<>>],
             [k \in 1..Cardinality(DOMAIN machine.l3) |->
                 [l3 |-> machine.l3, usable |-> Usable(machine, respect),
                  sys |-> FromSystemNuma(machine, respect)]]).domains

(* One pass merges neighbours that fit; a merged one takes no third. *)
Merge(pass, cpus) ==
    IF pass.open /\ Cardinality(Last(pass.out)) + Cardinality(cpus) <= BundleSize
    THEN [out |-> Append(Front(pass.out), Last(pass.out) \cup cpus), open |-> FALSE]
    ELSE [out |-> Append(pass.out, cpus), open |-> TRUE]
BundlePass(sets) == FoldLeft(Merge, [out |-> <<>>, open |-> FALSE], sets).out
PassAgain(sets, again) == BundlePass(sets)
Bundled(sets) == FoldLeft(PassAgain, sets, sets)

(* Node after node, the domains of each in bundles. *)
DomainsOf(domains, n) ==
    RemoveEmptyNodes([i \in DOMAIN domains |-> IF domains[i].node = n THEN domains[i].cpus ELSE {}])
Follow(nodes, more) == nodes \o more
FromL3Info(domains) ==
    FoldLeft(Follow, <<>>, [n \in 1..Max({domains[i].node : i \in DOMAIN domains}) |->
                               Bundled(DomainsOf(domains, n))])

(* auto, system and hardware: L3 domains in bundles, or the system's nodes. *)
FromSystem(machine, respect) ==
    LET domains == L3Walk(machine, respect)
    IN  [nodes |-> IF domains = <<>> THEN SystemNodes(machine, respect)
                   ELSE RemoveEmptyNodes(FromL3Info(domains)),
         custom |-> ~respect]

----------------------------------------------------------------------------
(* Threads on nodes.                                                       *)

(* More than half of the largest node, or four for every node that is not    *)
(* small, a small one having at most three fifths of the largest.           *)
SuggestsBindingThreads(cfg, n) ==
    LET sizes == [i \in DOMAIN cfg.nodes |-> Cardinality(cfg.nodes[i])]
        largest == Max(Range(sizes) \cup {0})
        notSmall == Cardinality({i \in DOMAIN sizes : 5 * sizes[i] > 3 * largest})
    IN  cfg.custom \/ (/\ n > 1
                       /\ n > largest \div 2 \/ n >= 4 * notSmall
                       /\ Len(cfg.nodes) > 1)

(* Each thread to the node it would fill least, the lowest of equals. *)
Fits(nodes, occupied, a, b) ==
    (occupied[a] + 1) * Cardinality(nodes[b]) < (occupied[b] + 1) * Cardinality(nodes[a])
Emptiest(nodes, occupied) ==
    CHOOSE a \in DOMAIN nodes : \A b \in DOMAIN nodes :
        ~Fits(nodes, occupied, b, a) /\ (b < a => Fits(nodes, occupied, a, b))
Occupy(s, nodes) ==
    LET a == Emptiest(nodes, s.occupied)
    IN  [bound |-> Append(s.bound, a), occupied |-> [s.occupied EXCEPT ![a] = @ + 1]]
DistributeThreads(cfg, n) ==
    FoldLeft(Occupy, [bound |-> <<>>, occupied |-> [a \in DOMAIN cfg.nodes |-> 0]],
             [k \in 1..n |-> cfg.nodes]).bound

(* The system node, regardless of affinity, of a logical node's first CPU. *)
SystemNodeOf(cfg, n, machine) ==
    LET sys == FromSystemNuma(machine, FALSE)
        first == Min(cfg.nodes[n])
    IN  IF first \in Cpus(sys) THEN NodeOfCpu(sys, first) ELSE 1

(* A machine: each CPU list is one, some CPU is the process's, and the CPUs  *)
(* behind one L3 belong to one node and know of each other.                 *)
IsMachine(machine) ==
    /\ machine.threads \in Nat \ {0} /\ machine.allowed \in SUBSET Nat
    /\ machine.listed \in BOOLEAN /\ machine.online \in Seq(Nat)
    /\ \A n \in DOMAIN machine.cpulist :
          machine.cpulist[n] \in SUBSET Nat /\ IsFiniteSet(machine.cpulist[n])
    /\ \E i \in DOMAIN ListedNodes(machine) : ListedNodes(machine)[i] \cap machine.allowed # {}
    /\ IsFiniteSet(DOMAIN machine.l3)
    /\ \A c \in DOMAIN machine.l3 :
          /\ c \in machine.l3[c]
          /\ \E i \in DOMAIN ListedNodes(machine) : machine.l3[c] \subseteq ListedNodes(machine)[i]
          /\ \A d \in DOMAIN machine.l3 :
                machine.l3[d] = machine.l3[c] \/ machine.l3[d] \cap machine.l3[c] = {}

(* What is expected of a layout: it has nodes, of CPUs, none empty and none  *)
(* sharing a CPU.                                                           *)
IsLayout(cfg) ==
    /\ DOMAIN cfg = {"nodes", "custom"} /\ cfg.custom \in BOOLEAN
    /\ cfg.nodes \in Seq(SUBSET Nat) /\ cfg.nodes # <<>>
    /\ \A n \in DOMAIN cfg.nodes :
          /\ cfg.nodes[n] # {} /\ IsFiniteSet(cfg.nodes[n])
          /\ \A k \in DOMAIN cfg.nodes \ {n} : cfg.nodes[n] \cap cfg.nodes[k] = {}

=============================================================================
