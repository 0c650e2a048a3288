----------------------------- MODULE Workspaces -----------------------------
(***************************************************************************)
(* The scratchpads of the mining workers (algorithm.Workspace, package     *)
(* memory): mapped with huge pages, bound to a NUMA node, replaced when a  *)
(* setting changes, and freed.  The callers are RunMiner's workers         *)
(* (stratum.go), which defer ws.Free(), and Pool.Mine's (pool.go), which   *)
(* leave their workspace behind when they return.  The kernel may map a    *)
(* scratchpad where another one was before.                                *)
(***************************************************************************)
EXTENDS Integers, FiniteSets

CONSTANTS Workers,
          Regions,     \* the addresses at which the kernel can map a scratchpad
          Heap,        \* a scratchpad in Go's heap
          NoWorkspace, \* none has been allocated yet
          MaxChanges,  \* bound on the changes of settings
          MaxCalls     \* bound on the calls of Mine

ASSUME RegionsAssumption ==
  Heap \notin Regions /\ NoWorkspace \notin Regions /\ Heap # NoWorkspace
ASSUME WorkersAssumption == IsFiniteSet(Workers)
ASSUME BoundsAssumption  == MaxChanges \in Nat /\ MaxCalls \in Nat

VARIABLES
  caller,    \* whose workers these are
  calls,     \* calls of Mine so far
  settings,  \* the enabled ones of numaEnabled and hugepagesEnabled
  changes,   \* how often a setting has changed
  ctxDone,   \* RunMiner's context is done
  mapped,    \* the regions mapped, which are also syscall's table of mappings
  unbound,   \* history: mapped regions that could not be bound to their node
  pc,        \* pc[w]: where worker w is
  onNode,    \* onNode[w]: the node of its CPU is known
  ws,        \* ws[w]: its workspace
  deferred,  \* deferred[w]: the workspace its deferred call of Free frees
  last       \* last[w]: the settings it last saw, lastNuma and lastHuge

memVars  == <<mapped, unbound>>
wsVars   == <<onNode, ws, deferred, last>>
envVars  == <<settings, changes, ctxDone>>
vars == <<caller, calls, envVars, memVars, pc, wsVars>>

Callers  == {"RunMiner", "Mine"}
Settings == {"numa", "huge"}
Pcs == {"start", "numa", "huge", "poll", "hash", "free", "renuma", "rehuge",
        "realloc", "return", "done", "dead"}

\* A worker past its first allocation has a workspace, or had one until it freed it.
Allocated == \A w \in Workers : pc[w] \notin {"start", "dead"} => ws[w] # NoWorkspace

TypeOK ==
  /\ caller \in Callers
  /\ calls \in 1 .. (MaxCalls + 1)
  /\ settings \in SUBSET Settings
  /\ changes \in 0 .. MaxChanges
  /\ ctxDone \in BOOLEAN
  /\ mapped \in SUBSET Regions
  /\ unbound \in SUBSET mapped
  /\ pc \in [Workers -> Pcs]
  /\ onNode \in [Workers -> BOOLEAN]
  /\ ws \in [Workers -> Regions \cup {Heap, NoWorkspace}]
  /\ deferred \in [Workers -> Regions \cup {Heap, NoWorkspace}]
  /\ last \in [Workers -> SUBSET Settings]
  /\ Allocated

\* Sysfs lists the CPUs of each node, as far as it can be read.
CPUToNodeMaps == SUBSET Workers
NodeForCPU(m) == [w \in Workers |-> w \in m]

Init ==
  /\ caller \in Callers
  /\ calls = 1
  /\ settings = Settings
  /\ changes = 0
  /\ ctxDone = FALSE
  /\ mapped = {} /\ unbound = {}
  /\ pc = [w \in Workers |-> "start"]
  /\ \E m \in CPUToNodeMaps : onNode = NodeForCPU(m)
  /\ ws = [w \in Workers |-> NoWorkspace]
  /\ deferred = [w \in Workers |-> NoWorkspace]
  /\ last = [w \in Workers |-> {}]

MoveTo(w, to) == pc' = [pc EXCEPT ![w] = to]

-----------------------------------------------------------------------------
(* Allocating and freeing. *)

\* A mapping, with huge pages or without, and bound to the worker's node.
Mapping(w) == \E r \in Regions \ mapped :
  /\ mapped' = mapped \cup {r}
  /\ ws' = [ws EXCEPT ![w] = r]
  /\ UNCHANGED unbound

\* The mapping cannot be bound: the heap is used, and the mapping stays.
UnboundMapping(w) == \E r \in Regions \ mapped :
  /\ onNode[w]
  /\ mapped' = mapped \cup {r}
  /\ unbound' = unbound \cup {r}
  /\ ws' = [ws EXCEPT ![w] = Heap]

\* Mutant: the failure is handed on instead of a workspace in the heap.
NoFallback(w) ==
  /\ ws' = [ws EXCEPT ![w] = NoWorkspace]
  /\ UNCHANGED memVars

\* Neither kind of mapping can be had.
NoMapping(w) ==
  /\ ws' = [ws EXCEPT ![w] = Heap]
  /\ UNCHANGED memVars

\* The settings are not consulted.
NewWorkspaceOnNode(w) == Mapping(w) \/ UnboundMapping(w) \/ NoMapping(w)

\* Munmap refuses what is not in its table: the heap, and a region that is
\* free.  A region that was mapped again since is in it.
Free(workspace) ==
  /\ mapped' = mapped \ {workspace}
  /\ unbound' = unbound \ {workspace}

-----------------------------------------------------------------------------
(* A worker. *)

Start(w) ==
  /\ pc[w] = "start"
  /\ NewWorkspaceOnNode(w)
  /\ deferred' = IF caller = "RunMiner" THEN [deferred EXCEPT ![w] = ws'[w]] ELSE deferred
  /\ MoveTo(w, "numa")
  /\ UNCHANGED <<caller, calls, envVars, onNode, last>>

\* The two settings are read one after the other.
See(w, s) == last' = [last EXCEPT ![w] = (@ \ {s}) \cup (settings \cap {s})]

SeeNuma(w) ==
  /\ \/ pc[w] = "numa" /\ MoveTo(w, "huge")
     \/ pc[w] = "renuma" /\ MoveTo(w, "rehuge")
  /\ See(w, "numa")
  /\ UNCHANGED <<caller, calls, envVars, memVars, onNode, ws, deferred>>

SeeHuge(w) ==
  /\ \/ pc[w] = "huge" /\ MoveTo(w, "poll")
     \/ pc[w] = "rehuge" /\ MoveTo(w, "realloc")
  /\ See(w, "huge")
  /\ UNCHANGED <<caller, calls, envVars, memVars, onNode, ws, deferred>>

\* At a nonce that is no multiple of 1024, or with the settings as they were.
HashNext(w) ==
  /\ pc[w] = "poll"
  /\ MoveTo(w, "hash")
  /\ UNCHANGED <<caller, calls, envVars, memVars, wsVars>>

\* At a multiple of 1024.
SettingsChanged(w) ==
  /\ pc[w] = "poll"
  /\ last[w] # settings
  /\ MoveTo(w, "free")
  /\ UNCHANGED <<caller, calls, envVars, memVars, wsVars>>

\* RunMiner's workers leave after a cancellation, Mine's also at the end of
\* their nonces, when one of them wins and when the tip moves.
Leave(w) ==
  /\ pc[w] = "poll"
  /\ \/ caller = "RunMiner" /\ ctxDone /\ MoveTo(w, "return")
     \/ caller = "Mine" /\ MoveTo(w, "done")
  /\ UNCHANGED <<caller, calls, envVars, memVars, wsVars>>

Accessible(workspace) == workspace = Heap \/ workspace \in mapped

\* PoWHashMidstate fills and reads the whole scratchpad.
Hash(w) ==
  /\ pc[w] = "hash"
  /\ Accessible(ws[w])
  /\ MoveTo(w, "poll")
  /\ UNCHANGED <<caller, calls, envVars, memVars, wsVars>>

\* An access to memory that is not mapped ends the process.
Crash(w) ==
  /\ pc[w] = "hash"
  /\ ~Accessible(ws[w])
  /\ pc' = [v \in Workers |-> "dead"]
  /\ UNCHANGED <<caller, calls, envVars, memVars, wsVars>>

\* Mutant: the workspace is not freed before it is replaced.
KeepOld(w) ==
  /\ pc[w] = "free"
  /\ MoveTo(w, "renuma")
  /\ UNCHANGED <<caller, calls, envVars, memVars, wsVars>>

FreeOld(w) ==
  /\ pc[w] = "free"
  /\ Free(ws[w])
  /\ MoveTo(w, "renuma")
  /\ UNCHANGED <<caller, calls, envVars, wsVars>>

\* Mutant: the new workspace is assigned to a variable of the inner block.
ReallocateShadowed(w) ==
  /\ pc[w] = "realloc"
  /\ \E r \in Regions \ mapped : mapped' = mapped \cup {r}
  /\ MoveTo(w, "poll")
  /\ UNCHANGED <<caller, calls, envVars, unbound, wsVars>>

Reallocate(w) ==
  /\ pc[w] = "realloc"
  /\ NewWorkspaceOnNode(w)
  /\ MoveTo(w, "poll")
  /\ UNCHANGED <<caller, calls, envVars, onNode, deferred, last>>

\* Mutant: the deferred call is missing, as in Mine.
ReturnOnly(w) ==
  /\ pc[w] = "return"
  /\ MoveTo(w, "done")
  /\ UNCHANGED <<caller, calls, envVars, memVars, wsVars>>

\* defer ws.Free() has evaluated ws where it stands: before any replacement.
DeferredFree(w) ==
  /\ pc[w] = "return"
  /\ Free(deferred[w])
  /\ MoveTo(w, "done")
  /\ UNCHANGED <<caller, calls, envVars, wsVars>>

Worker(w) ==
  \/ Start(w) \/ SeeNuma(w) \/ SeeHuge(w)
  \/ HashNext(w) \/ Hash(w) \/ Crash(w)
  \/ SettingsChanged(w) \/ FreeOld(w) \/ Reallocate(w)
  \/ Leave(w) \/ DeferredFree(w)

AllDone == \A w \in Workers : pc[w] = "done"

-----------------------------------------------------------------------------
(* The rest of the program. *)

\* The hardware menu's hooks.
ChangeSetting(s) ==
  /\ changes < MaxChanges
  /\ changes' = changes + 1
  /\ settings' = IF s \in settings THEN settings \ {s} ELSE settings \cup {s}
  /\ UNCHANGED <<caller, calls, ctxDone, memVars, pc, wsVars>>

Cancel ==
  /\ caller = "RunMiner" /\ ~ctxDone
  /\ ctxDone' = TRUE
  /\ UNCHANGED <<caller, calls, settings, changes, memVars, pc, wsVars>>

\* Mine is called for the next template, with new workers.
NextCall ==
  /\ caller = "Mine" /\ AllDone
  /\ calls <= MaxCalls
  /\ calls' = calls + 1
  /\ pc' = [w \in Workers |-> "start"]
  /\ UNCHANGED <<caller, envVars, memVars, wsVars>>

Terminated ==
  /\ AllDone \/ \E w \in Workers : pc[w] = "dead"
  /\ UNCHANGED vars

Next ==
  \/ \E w \in Workers : Worker(w)
  \/ \E s \in Settings : ChangeSetting(s)
  \/ Cancel \/ NextCall \/ Terminated

Spec == Init /\ [][Next]_vars

-----------------------------------------------------------------------------
(* Properties. *)

\* Worker w has a workspace, and has not freed it.
HasWorkspace(w) == pc[w] \in {"numa", "huge", "poll", "hash", "free", "return"}

\* Its workspace is memory that it can access and that no other worker uses.
Owns(w) ==
  \/ ws[w] = Heap
  \/ /\ ws[w] \in mapped
     /\ \A v \in Workers \ {w} : HasWorkspace(v) => ws[v] # ws[w]

\* "Workspace holds per-goroutine pre-allocated memory" (sha256mem.go), "Each
\* worker gets its own" (pool.go): a worker hashes in memory that is mapped and
\* that is nobody else's.
OwnWorkspace == \A w \in Workers : pc[w] = "hash" => Owns(w)

\* No deferred call of Free has been made.
NoneReturned == caller = "Mine" \/ \A w \in Workers : pc[w] \notin {"done", "dead"}

\* That holds for Mine's workers always, and for RunMiner's until one of them
\* returns or as long as no setting changes: however replacements interleave and
\* addresses are used again, no worker is left without its scratchpad.
OwnUntilReturn == NoneReturned \/ changes = 0 => OwnWorkspace

\* When RunMiner's workers have returned and no setting has changed, only the
\* mappings that could not be bound are left.
FreedOnReturn ==
  caller = "RunMiner" /\ AllDone /\ changes = 0 => mapped = unbound

\* A replacement does not leak: but for the mappings that could not be bound,
\* RunMiner holds one per worker at most, and Mine one per worker and call.
MappingsBounded ==
  Cardinality(mapped \ unbound)
    <= Cardinality(Workers) * (IF caller = "Mine" THEN calls ELSE 1)
=============================================================================
