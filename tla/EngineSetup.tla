----------------------------- MODULE EngineSetup -----------------------------
(***************************************************************************)
(* What the options of a session set up: the transposition table, the      *)
(* layout of the machine and the threads bound to it, the tables and the   *)
(* networks they share, and the isready that reads the override files and  *)
(* loads the network under a keep-alive.                                   *)
(*                                                                         *)
(* A line of an override file and a setoption name an option as it is      *)
(* declared, in another case, or not at all (`spelled`), with a value its  *)
(* declaration accepts or refuses (`valid`). A network is known by the     *)
(* directory it was read from, and of the generations of the shared tables *)
(* the model tells the current one from the one before.                    *)
(***************************************************************************)
EXTENDS Numa

CONSTANTS
    Machines,         \* the machines the engine may run on
    Declared,         \* the options with their default values
    Requests,         \* a sequence of setoption commands: [option, spelled, value, valid]
    OverrideFiles,    \* lines of the files there are: from directories ("" is the current one)
    Networks,         \* the directories with a network that loads
    TicksPerNewline   \* polls of the keep-alive before it writes a newline

(* What a declared value is, of the options that set something up. *)
IsPolicy(policy) ==
    /\ policy.kind \in {"auto", "system", "hardware", "none", "custom"}
    /\ policy.kind = "custom" => policy.groups \in Seq(Seq(Nat))
Suits(option, value) ==
    /\ option \in {"Threads", "USI_Hash"} => value \in Nat \ {0}
    /\ option = "NumaPolicy" => IsPolicy(value)
IsRequest(req) == req.valid \in BOOLEAN /\ (req.valid => Suits(req.option, req.value))
IsFile(lines) ==
    /\ Len(lines) \in Nat /\ lines = [i \in 1..Len(lines) |-> lines[i]]
    /\ \A i \in DOMAIN lines : IsRequest(lines[i])

ASSUME OptionsAssumption ==
    /\ {"Threads", "USI_Hash", "NumaPolicy", "EvalDir"} \subseteq DOMAIN Declared
    /\ \A o \in DOMAIN Declared : Suits(o, Declared[o])
    /\ Declared.NumaPolicy.kind = "auto"
    /\ \A i \in DOMAIN Requests : IsRequest(Requests[i])
    /\ \A d \in DOMAIN OverrideFiles : IsFile(OverrideFiles[d])

ASSUME MachinesAssumption == \A m \in Machines : IsMachine(m)

VARIABLES
    machine,
    options, fixed,      \* the option store
    numaConfig, numaBound,
    workerShared,        \* per worker, the table it shares: [generation, node, threads]
    histories,           \* the main worker's table, <<>> while a search has it
    workerNetworks,      \* per worker, the network it reads: [dir, node], node 0 the loaded one
    eval,                \* <<>> or <<[dir, replicas]>>
    ttSize,              \* in the unit of USI_Hash, 0 before it is sized
    pool,                \* [size, bound] of the threads there are
    search,              \* what the running search borrowed, or <<>>
    isready,             \* the stage of the isready at work, "idle" when none is
    overrides,           \* the override lines it has not applied
    keepAlive,           \* [state, ticks] of the keep-alive thread
    lastLine,            \* the kind of the last line written
    exited

tables == <<numaConfig, numaBound, workerShared, histories, workerNetworks, pool>>
ready == <<isready, overrides, keepAlive, lastLine>>
setupVars == <<machine, options, fixed, tables, eval, ttSize, search, ready, exited>>

----------------------------------------------------------------------------
(* The option store.                                                       *)

SetValue(req) ==
    IF req.option \in fixed \/ ~req.valid THEN options ELSE [options EXCEPT ![req.option] = req.value]

----------------------------------------------------------------------------
(* What the options drive.                                                 *)

(* The layout of a policy, <<>> when it names none. *)
ConfigFromPolicy(policy) ==
    CASE policy.kind \in {"auto", "system"} -> <<FromSystem(machine, TRUE)>>
      [] policy.kind = "hardware" -> <<FromSystem(machine, FALSE)>>
      [] policy.kind = "none" -> <<DefaultConfig(machine)>>
      [] policy.kind = "custom" -> FromString(policy.groups)

Binding(config, policy, requested) ==
    IF \/ policy.kind = "none"
       \/ policy.kind = "auto" /\ ~SuggestsBindingThreads(config, requested)
    THEN <<>>
    ELSE DistributeThreads(config, requested)

WorkerNodes(bound, requested) == IF bound = <<>> THEN [w \in 1..requested |-> 1] ELSE bound
Doubled(p, n) == IF p < n THEN 2 * p ELSE p
NextPowerOfTwo(n) == FoldLeft(Doubled, 1, [k \in 1..n |-> n])
BuildWorkerShared(bound, requested, generation) ==
    LET nodes == WorkerNodes(bound, requested)
        count(n) == Cardinality({w \in DOMAIN nodes : nodes[w] = n})
    IN  [w \in DOMAIN nodes |-> [generation |-> generation, node |-> nodes[w],
                                 threads |-> NextPowerOfTwo(count(nodes[w]))]]

(* A replica per system node that a bound thread is on, reusing what there is. *)
ResolveWorkerNetworks(config, bound, ev, requested) ==
    LET active == bound # <<>> /\ RequiresMemoryReplication(config)
        sys == [w \in DOMAIN bound |-> SystemNodeOf(config, bound[w], machine)]
        kept == {r \in ev.replicas : r.node \in Range(sys)}
        added == {[dir |-> ev.dir, node |-> s] : s \in Range(sys) \ {r.node : r \in kept}}
    IN  IF ~active
        THEN [replicas |-> {}, networks |-> [w \in 1..requested |-> [dir |-> ev.dir, node |-> 0]]]
        ELSE [replicas |-> kept \cup added,
              networks |-> [w \in DOMAIN bound |->
                               CHOOSE r \in kept \cup added : r.node = sys[w]]]

RebuildNetworks(config, bound, ev, requested) ==
    IF ev = <<>> THEN eval' = <<>> /\ workerNetworks' = <<>>
    ELSE LET built == ResolveWorkerNetworks(config, bound, ev[1], requested)
         IN  /\ eval' = <<[ev[1] EXCEPT !.replicas = built.replicas]>>
             /\ workerNetworks' = built.networks

(* The mutant of FinishSearchJoin: a change under a running search. *)
SearchNotJoined == UNCHANGED search

(* The search is waited for, and its tables are handed back. *)
FinishSearchJoin == search' = <<>>

Returned == IF search = <<>> THEN histories ELSE search.histories

RebuildPool(config, opts) ==
    LET bound == Binding(config, opts.NumaPolicy, opts.Threads)
    IN  /\ numaConfig' = config
        /\ numaBound' = bound
        /\ workerShared' = BuildWorkerShared(bound, opts.Threads, 1 - workerShared[1].generation)
        /\ histories' = <<workerShared'[1]>>
        /\ pool' = [size |-> opts.Threads, bound |-> bound]
        /\ RebuildNetworks(config, bound, eval, opts.Threads)

----------------------------------------------------------------------------
(* setoption, usinewgame and go, while no isready is at work.              *)

Attending == isready = "idle" /\ ~exited

SetThreads(req) ==
    /\ req.option = "Threads" /\ req.spelled = "exact"
    /\ req.valid \/ req.option \in fixed
    /\ options' = SetValue(req)
    /\ FinishSearchJoin /\ RebuildPool(numaConfig, options')
    /\ UNCHANGED <<ttSize, exited>>

SetHash(req) ==
    /\ req.option = "USI_Hash" /\ req.spelled = "exact"
    /\ req.valid \/ req.option \in fixed
    /\ options' = SetValue(req)
    /\ FinishSearchJoin /\ histories' = Returned
    /\ ttSize' = options'.USI_Hash
    /\ UNCHANGED <<numaConfig, numaBound, workerShared, workerNetworks, pool, eval, exited>>

(* The one name that is taken in any case. A text that is no layout ends the *)
(* process.                                                                 *)
SetNumaPolicy(req) ==
    /\ req.option = "NumaPolicy" /\ req.spelled # "unknown"
    /\ options' = SetValue(req)
    /\ FinishSearchJoin
    /\ LET config == ConfigFromPolicy(options'.NumaPolicy)
       IN  \/ config # <<>> /\ RebuildPool(config[1], options') /\ exited' = FALSE
           \/ /\ config = <<>> /\ exited' = TRUE /\ histories' = Returned
              /\ UNCHANGED <<numaConfig, numaBound, workerShared, workerNetworks, pool, eval>>
    /\ UNCHANGED ttSize

(* Every other option, and a name or value that is rejected. *)
SetOther(req) ==
    /\ req.option # "NumaPolicy" \/ req.spelled = "unknown"
    /\ \/ req.option \notin {"Threads", "USI_Hash", "NumaPolicy"}
       \/ req.spelled # "exact"
       \/ ~req.valid /\ req.option \notin fixed
    /\ options' = IF req.spelled = "exact" THEN SetValue(req) ELSE options
    /\ UNCHANGED <<tables, eval, ttSize, search, exited>>

SetOption ==
    /\ Attending
    /\ \E i \in DOMAIN Requests :
          \/ SetThreads(Requests[i]) \/ SetHash(Requests[i])
          \/ SetNumaPolicy(Requests[i]) \/ SetOther(Requests[i])
    /\ UNCHANGED <<machine, fixed, ready>>

UsiNewGame ==
    /\ Attending
    /\ FinishSearchJoin /\ RebuildPool(numaConfig, options)
    /\ UNCHANGED <<machine, options, fixed, ttSize, ready, exited>>

(* Without a network the reply is a resignation and nothing is lent. *)
Go ==
    /\ Attending /\ eval # <<>>
    /\ search' = [histories |-> Returned, shared |-> workerShared, networks |-> workerNetworks,
                  size |-> pool.size, tt |-> ttSize]
    /\ histories' = <<>>
    /\ UNCHANGED <<machine, options, fixed, numaConfig, numaBound, workerShared, workerNetworks,
                   pool, eval, ttSize, ready, exited>>

----------------------------------------------------------------------------
(* isready.                                                                *)

LinesOf(dir) == IF dir \in DOMAIN OverrideFiles THEN OverrideFiles[dir] ELSE <<>>

IsReady ==
    /\ Attending
    /\ FinishSearchJoin /\ histories' = Returned
    /\ isready' = "engine options" /\ overrides' = LinesOf("")
    /\ UNCHANGED <<machine, options, fixed, numaConfig, numaBound, workerShared, workerNetworks,
                   pool, eval, ttSize, keepAlive, lastLine, exited>>

(* A value the store refuses is lost, but its option is fixed all the same. *)
ApplyOverrideLine ==
    /\ overrides # <<>>
    /\ overrides' = Tail(overrides)
    /\ LET req == Head(overrides)
           config == ConfigFromPolicy(options'.NumaPolicy)
       IN  /\ options' = IF req.spelled = "unknown" THEN options ELSE SetValue(req)
           /\ fixed' = IF req.spelled = "unknown" THEN fixed ELSE fixed \cup {req.option}
           /\ ttSize' = IF req.option = "USI_Hash" /\ req.spelled # "unknown"
                        THEN options'.USI_Hash ELSE ttSize
           /\ IF req.spelled = "unknown" \/ req.option \notin {"Threads", "NumaPolicy"}
              THEN UNCHANGED <<tables, eval>>
              ELSE RebuildPool(IF req.option = "NumaPolicy" /\ config # <<>>
                               THEN config[1] ELSE numaConfig, options')
    /\ UNCHANGED <<machine, search, isready, keepAlive, lastLine, exited>>

(* The second file is looked for where the first one may have put it. *)
ReadEvalOptions ==
    /\ isready = "engine options" /\ overrides = <<>>
    /\ isready' = "eval options" /\ overrides' = LinesOf(options.EvalDir)
    /\ UNCHANGED <<machine, options, fixed, tables, eval, ttSize, search, keepAlive, lastLine, exited>>

SpawnKeepAlive ==
    /\ isready = "eval options" /\ overrides = <<>>
    /\ isready' = "loading" /\ keepAlive' = [state |-> "running", ticks |-> 0]
    /\ UNCHANGED <<machine, options, fixed, tables, eval, ttSize, search, overrides, lastLine, exited>>

(* One poll: the thread looks at the flag before it sleeps, not after. *)
KeepAliveTick ==
    /\ keepAlive.state # "gone"
    /\ LET full == keepAlive.ticks + 1 = TicksPerNewline
       IN  /\ keepAlive' = [keepAlive EXCEPT !.ticks = IF full THEN 0 ELSE @ + 1]
           /\ lastLine' = IF full THEN "newline" ELSE lastLine
    /\ UNCHANGED <<machine, options, fixed, tables, eval, ttSize, search, isready, overrides, exited>>

KeepAliveEnds ==
    /\ keepAlive.state = "stopping"
    /\ keepAlive' = [state |-> "gone", ticks |-> 0]
    /\ UNCHANGED <<machine, options, fixed, tables, eval, ttSize, search, isready, overrides, lastLine,
                   exited>>

(* The heavy job, and the flag that its end raises. *)
LoadNetwork ==
    /\ isready = "loading"
    /\ LET same == eval # <<>> /\ eval[1].dir = options.EvalDir
           loads == options.EvalDir \in Networks
       IN  /\ isready' = IF same \/ loads THEN "ready" ELSE "load failed"
           /\ ttSize' = IF ~same /\ loads /\ ttSize = 0 THEN options.USI_Hash ELSE ttSize
           /\ IF ~same /\ loads
              THEN RebuildNetworks(numaConfig, numaBound,
                                   <<[dir |-> options.EvalDir, replicas |-> {}]>>, pool.size)
              ELSE UNCHANGED <<eval, workerNetworks>>
    /\ keepAlive' = [keepAlive EXCEPT !.state = "stopping"]
    /\ UNCHANGED <<machine, options, fixed, numaConfig, numaBound, workerShared, histories, pool,
                   search, overrides, lastLine, exited>>

(* The reply waits for the thread. *)
Reply ==
    /\ isready \in {"ready", "load failed"} /\ keepAlive.state = "gone"
    /\ isready' = "idle" /\ lastLine' = isready
    /\ UNCHANGED <<machine, options, fixed, tables, eval, ttSize, search, overrides, keepAlive, exited>>

----------------------------------------------------------------------------
SetupInit ==
    /\ machine \in Machines
    /\ options = Declared /\ fixed = {}
    /\ numaConfig = ConfigFromPolicy(Declared.NumaPolicy)[1]
    /\ numaBound = Binding(numaConfig, Declared.NumaPolicy, Declared.Threads)
    /\ workerShared = BuildWorkerShared(numaBound, Declared.Threads, 0)
    /\ histories = <<workerShared[1]>>
    /\ workerNetworks = <<>> /\ eval = <<>> /\ ttSize = 0
    /\ pool = [size |-> Declared.Threads, bound |-> numaBound]
    /\ search = <<>> /\ isready = "idle" /\ overrides = <<>>
    /\ keepAlive = [state |-> "gone", ticks |-> 0]
    /\ lastLine = "none" /\ exited = FALSE

SetupNext ==
    \/ SetOption \/ UsiNewGame \/ Go
    \/ IsReady \/ ApplyOverrideLine \/ ReadEvalOptions \/ SpawnKeepAlive
    \/ LoadNetwork \/ Reply
    \/ KeepAliveTick \/ KeepAliveEnds

SetupSpec == SetupInit /\ [][SetupNext]_setupVars

----------------------------------------------------------------------------
(* Properties.                                                             *)

(* A layout has nodes, none empty and none sharing a CPU, and one that was   *)
(* detected spreads no node over two of the system's.                       *)
LayoutRight ==
    /\ numaConfig.nodes # <<>>
    /\ \A n \in DOMAIN numaConfig.nodes :
          /\ numaConfig.nodes[n] # {}
          /\ \A k \in DOMAIN numaConfig.nodes \ {n} : numaConfig.nodes[n] \cap numaConfig.nodes[k] = {}
    /\ options.NumaPolicy.kind \in {"auto", "system"} =>
          /\ Cpus(numaConfig) \subseteq machine.allowed
          /\ \A n \in DOMAIN numaConfig.nodes : \E s \in Range(SystemNodes(machine, TRUE)) :
                numaConfig.nodes[n] \subseteq s

(* No thread is put on a node while another would be filled less by it. *)
BindingBalanced ==
    LET on(n) == Cardinality({w \in DOMAIN numaBound : numaBound[w] = n})
    IN  numaBound # <<>> =>
            \A a, b \in DOMAIN numaConfig.nodes :
                on(a) * Cardinality(numaConfig.nodes[b])
                    <= (on(b) + 1) * Cardinality(numaConfig.nodes[a])

(* The workers are as many as asked for and bound as the layout says; two    *)
(* share a table exactly when they are on one node, the table has room for   *)
(* all of them, and the main worker's handle is to its node's.               *)
WorkersAgree ==
    LET nodes == WorkerNodes(numaBound, pool.size)
    IN  /\ pool.size = options.Threads /\ pool.bound = numaBound
        /\ Len(workerShared) = pool.size /\ Len(nodes) = pool.size
        /\ \A v, w \in 1..pool.size : (workerShared[v] = workerShared[w]) <=> (nodes[v] = nodes[w])
        /\ \A w \in 1..pool.size :
              workerShared[w].threads >= Cardinality({v \in 1..pool.size : nodes[v] = nodes[w]})
        /\ Returned = <<workerShared[1]>>

(* With a network loaded the transposition table has a size, every worker    *)
(* reads that network, and one with replicas reads the one that is local to  *)
(* the node its thread is bound to.                                         *)
NetworksAgree ==
    eval # <<>> =>
        /\ ttSize # 0
        /\ Len(workerNetworks) = pool.size
        /\ \A w \in 1..pool.size :
              /\ workerNetworks[w].dir = eval[1].dir
              /\ IF numaBound # <<>> /\ RequiresMemoryReplication(numaConfig)
                 THEN workerNetworks[w].node = SystemNodeOf(numaConfig, numaBound[w], machine)
                 ELSE workerNetworks[w].node = 0

(* The set-up is sound whenever a command is awaited: whatever the order in  *)
(* which options were set, overridden, refused and read, workers, tables and *)
(* networks are those the current options ask for, a search runs on nothing  *)
(* that was replaced under it, and the keep-alive has ended before the       *)
(* reply, which is the last line written.                                   *)
SetupSound ==
    /\ LayoutRight /\ BindingBalanced
    /\ WorkersAgree
    /\ ttSize \in {0, options.USI_Hash}
    /\ Attending => NetworksAgree
    /\ search # <<>> =>
          /\ search.shared = workerShared /\ search.networks = workerNetworks
          /\ search.size = pool.size /\ search.tt = ttSize
    /\ isready = "idle" => keepAlive.state = "gone" /\ lastLine # "newline"

=============================================================================
