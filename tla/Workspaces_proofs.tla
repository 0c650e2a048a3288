-------------------------- MODULE Workspaces_proofs --------------------------
(***************************************************************************)
(* Proofs about Workspaces, for any number of workers and regions.         *)
(***************************************************************************)
EXTENDS Workspaces, FunctionTheorems, FiniteSetTheorems, TLAPS

\* Whoever has a workspace owns it, until a deferred call may free another's.
EachOwns == \A w \in Workers : HasWorkspace(w) => Owns(w)
AllOwn   == NoneReturned \/ changes = 0 => EachOwns

\* Only RunMiner's workers have a deferred call.
MineDefersNone == caller = "Mine" => \A w \in Workers : pc[w] # "return"

\* The settings a worker has seen are those the program began with.
SeenFirst(w) ==
  /\ pc[w] = "huge" => "numa" \in last[w]
  /\ pc[w] \in {"poll", "hash"} => last[w] = Settings

\* As long as no setting changes, no workspace is replaced, and the deferred
\* call frees the worker's own.
NothingReplaced ==
  changes = 0 =>
    /\ settings = Settings
    /\ \A w \in Workers :
         /\ pc[w] \notin {"free", "renuma", "rehuge", "realloc", "dead"}
         /\ SeenFirst(w)
         /\ caller = "RunMiner" /\ HasWorkspace(w) => deferred[w] = ws[w]

\* Every bound mapping is then the workspace of a worker that will free it.
AllUsed ==
  caller = "RunMiner" /\ changes = 0 =>
    \A r \in mapped \ unbound : \E w \in Workers : HasWorkspace(w) /\ ws[w] = r

IInv == TypeOK /\ MineDefersNone /\ AllOwn /\ NothingReplaced /\ AllUsed

LEMMA InitInv == Init => IInv
<1> SUFFICES ASSUME Init PROVE IInv
  OBVIOUS
<1>1. TypeOK
  <2>1. calls \in 1 .. (MaxCalls + 1) /\ changes \in 0 .. MaxChanges
    BY BoundsAssumption DEF Init
  <2>2. /\ pc \in [Workers -> Pcs]
        /\ ws \in [Workers -> Regions \cup {Heap, NoWorkspace}]
        /\ deferred \in [Workers -> Regions \cup {Heap, NoWorkspace}]
        /\ last \in [Workers -> SUBSET Settings]
    BY DEF Init, Pcs
  <2>3. onNode \in [Workers -> BOOLEAN]
    BY DEF Init, NodeForCPU
  <2>4. Allocated
    BY DEF Init, Allocated
  <2> QED
    BY <2>1, <2>2, <2>3, <2>4 DEF Init, TypeOK
<1>2. \A w \in Workers : pc[w] = "start"
  BY DEF Init
<1>3. AllOwn
  BY <1>2 DEF AllOwn, EachOwns, HasWorkspace
<1>4. NothingReplaced
  BY <1>2 DEF Init, NothingReplaced, SeenFirst, HasWorkspace
<1>5. AllUsed
  BY DEF Init, AllUsed
<1> QED
  BY <1>1, <1>2, <1>3, <1>4, <1>5 DEF IInv, MineDefersNone

-----------------------------------------------------------------------------
(* Type correctness. *)

LEMMA AllocationType ==
  ASSUME TypeOK, NEW w \in Workers, NewWorkspaceOnNode(w)
  PROVE  /\ mapped' \in SUBSET Regions
         /\ unbound' \in SUBSET mapped'
         /\ ws' \in [Workers -> Regions \cup {Heap, NoWorkspace}]
         /\ ws'[w] \in Regions \cup {Heap}
  BY DEF TypeOK, NewWorkspaceOnNode, Mapping, UnboundMapping, NoMapping, memVars

LEMMA MoveType ==
  ASSUME TypeOK, NEW w \in Workers, NEW to \in Pcs, MoveTo(w, to)
  PROVE  pc' \in [Workers -> Pcs]
  BY DEF TypeOK, MoveTo

LEMMA PcStep ==
  ASSUME TypeOK, NEW w \in Workers, NEW to, MoveTo(w, to)
  PROVE  pc'[w] = to /\ \A v \in Workers \ {w} : pc'[v] = pc[v]
  BY DEF TypeOK, MoveTo

\* A worker has a workspace from its first allocation on, whichever kind it is.
LEMMA AllocatedStep == TypeOK /\ [Next]_vars => Allocated'
<1> SUFFICES ASSUME TypeOK, [Next]_vars, NEW u \in Workers,
                    pc'[u] \notin {"start", "dead"}
             PROVE  ws'[u] # NoWorkspace
  BY DEF Allocated
<1>1. pc[u] \notin {"start", "dead"} => ws[u] # NoWorkspace
  BY DEF TypeOK, Allocated
<1>2. ASSUME NEW w \in Workers, Worker(w) PROVE ws'[u] # NoWorkspace
  <2>1. CASE Start(w) \/ Reallocate(w)
    <3>1. NewWorkspaceOnNode(w) /\ \E to \in {"numa", "poll"} : MoveTo(w, to)
      BY <2>1 DEF Start, Reallocate
    <3>2. CASE u = w
      BY <3>1, <3>2, AllocationType, RegionsAssumption
    <3>3. CASE u # w
      <4>1. pc'[u] = pc[u]
        BY <3>1, <3>3, PcStep
      <4>2. ws'[u] = ws[u]
        BY <3>1, <3>3 DEF TypeOK, NewWorkspaceOnNode, Mapping, UnboundMapping, NoMapping
      <4> QED
        BY <1>1, <4>1, <4>2
    <3> QED
      BY <3>2, <3>3
  <2>2. CASE Crash(w)
    BY <2>2 DEF Crash
  <2>3. CASE ~Start(w) /\ ~Reallocate(w) /\ ~Crash(w)
    <3>1. /\ ws' = ws /\ pc[w] \notin {"start", "dead"}
          /\ \E to \in Pcs : MoveTo(w, to)
      BY <1>2, <2>3 DEF Worker, SeeNuma, SeeHuge, HashNext, Hash, SettingsChanged,
         FreeOld, Leave, DeferredFree, wsVars, Pcs
    <3>2. pc[u] \notin {"start", "dead"}
      BY <3>1, PcStep
    <3> QED
      BY <1>1, <3>1, <3>2
  <2> QED
    BY <2>1, <2>2, <2>3
<1>3. CASE NextCall
  BY <1>3 DEF NextCall
<1>4. CASE (\E s \in Settings : ChangeSetting(s)) \/ Cancel \/ UNCHANGED vars
  BY <1>1, <1>4 DEF ChangeSetting, Cancel, vars, wsVars
<1> QED
  BY <1>2, <1>3, <1>4 DEF Next, Terminated

LEMMA TypeStep == TypeOK /\ [Next]_vars => TypeOK'
<1> SUFFICES ASSUME TypeOK, [Next]_vars PROVE TypeOK'
  OBVIOUS
<1> USE DEF Pcs
<1>0. Allocated'
  BY AllocatedStep
<1>1. ASSUME NEW w \in Workers, Worker(w) PROVE TypeOK'
  <2>1. CASE Start(w)
    BY <1>0, <2>1, AllocationType, MoveType DEF Start, TypeOK, envVars
  <2>2. CASE SeeNuma(w)
    BY <1>0, <2>2, MoveType DEF SeeNuma, See, TypeOK, Settings, envVars, memVars
  <2>3. CASE SeeHuge(w)
    BY <1>0, <2>3, MoveType DEF SeeHuge, See, TypeOK, Settings, envVars, memVars
  <2>4. CASE HashNext(w) \/ Hash(w) \/ SettingsChanged(w) \/ Leave(w)
    BY <1>0, <2>4, MoveType
    DEF HashNext, Hash, SettingsChanged, Leave, TypeOK, envVars, memVars, wsVars
  <2>5. CASE Crash(w)
    BY <1>0, <2>5 DEF Crash, TypeOK, envVars, memVars, wsVars
  <2>6. CASE FreeOld(w) \/ DeferredFree(w)
    BY <1>0, <2>6, MoveType DEF FreeOld, DeferredFree, Free, TypeOK, envVars, wsVars
  <2>7. CASE Reallocate(w)
    BY <1>0, <2>7, AllocationType, MoveType DEF Reallocate, TypeOK, envVars
  <2> QED
    BY <1>1, <2>1, <2>2, <2>3, <2>4, <2>5, <2>6, <2>7 DEF Worker
<1>2. ASSUME NEW s \in Settings, ChangeSetting(s) PROVE TypeOK'
  BY <1>0, <1>2, BoundsAssumption DEF ChangeSetting, TypeOK, memVars, wsVars
<1>3. CASE Cancel
  BY <1>0, <1>3 DEF Cancel, TypeOK, memVars, wsVars
<1>4. CASE NextCall
  BY <1>0, <1>4, BoundsAssumption DEF NextCall, TypeOK, envVars, memVars, wsVars
<1>5. CASE UNCHANGED vars
  BY <1>0, <1>5 DEF vars, TypeOK, envVars, memVars, wsVars
<1> QED
  BY <1>1, <1>2, <1>3, <1>4, <1>5 DEF Next, Terminated

-----------------------------------------------------------------------------
(* Ownership. *)

\* A new workspace is nobody else's.
LEMMA AllocationOwns ==
  ASSUME TypeOK, EachOwns, NEW w \in Workers, NewWorkspaceOnNode(w),
         \A v \in Workers \ {w} : HasWorkspace(v)' => HasWorkspace(v)
  PROVE  EachOwns'
<1> SUFFICES ASSUME NEW u \in Workers, HasWorkspace(u)' PROVE Owns(u)'
  BY DEF EachOwns
<1>1. \A v \in Workers \ {w} : ws'[v] = ws[v]
  BY DEF TypeOK, NewWorkspaceOnNode, Mapping, UnboundMapping, NoMapping
<1>2. mapped \subseteq mapped'
  BY DEF NewWorkspaceOnNode, Mapping, UnboundMapping, NoMapping, memVars
<1>3. ws'[w] = Heap \/ (ws'[w] \in mapped' /\ ws'[w] \in Regions \ mapped)
  BY DEF TypeOK, NewWorkspaceOnNode, Mapping, UnboundMapping, NoMapping
<1>4. \A v \in Workers \ {w} : HasWorkspace(v)' => ws[v] = Heap \/ ws[v] \in mapped
  BY DEF EachOwns, Owns
<1>5. CASE u = w
  BY <1>1, <1>3, <1>4, <1>5, RegionsAssumption DEF Owns
<1>6. CASE u # w
  <2>1. Owns(u)
    BY <1>6 DEF EachOwns
  <2>2. CASE ws[u] = Heap
    BY <1>1, <1>6, <2>2 DEF Owns
  <2>3. CASE ws[u] # Heap
    <3>1. ws'[u] = ws[u] /\ ws'[u] \in mapped /\ ws'[u] \in mapped'
      BY <1>1, <1>2, <1>6, <2>1, <2>3 DEF Owns
    <3>2. ASSUME NEW v \in Workers \ {u}, HasWorkspace(v)' PROVE ws'[v] # ws'[u]
      BY <1>1, <1>3, <1>6, <2>1, <2>3, <3>1, <3>2 DEF Owns
    <3> QED
      BY <3>1, <3>2 DEF Owns
  <2> QED
    BY <2>2, <2>3
<1> QED
  BY <1>5, <1>6

\* A worker that frees its own workspace takes nobody else's away.
LEMMA FreeOwns ==
  ASSUME EachOwns, NEW w \in Workers, HasWorkspace(w), Free(ws[w]), ws' = ws,
         \A v \in Workers : HasWorkspace(v)' => v # w /\ HasWorkspace(v)
  PROVE  EachOwns'
<1> SUFFICES ASSUME NEW u \in Workers, HasWorkspace(u)' PROVE Owns(u)'
  BY DEF EachOwns
<1>1. u # w /\ Owns(u)
  BY DEF EachOwns
<1> QED
  BY <1>1 DEF Owns, Free

LEMMA NothingMoves ==
  ASSUME EachOwns, mapped' = mapped, ws' = ws,
         \A v \in Workers : HasWorkspace(v)' => HasWorkspace(v)
  PROVE  EachOwns'
  BY DEF EachOwns, Owns

LEMMA DefersStep == TypeOK /\ MineDefersNone /\ [Next]_vars => MineDefersNone'
<1> SUFFICES ASSUME TypeOK, MineDefersNone, [Next]_vars,
                    caller' = "Mine", NEW u \in Workers
             PROVE  pc'[u] # "return"
  BY DEF MineDefersNone
<1>1. ASSUME NEW w \in Workers, Worker(w) PROVE pc'[u] # "return"
  <2>1. caller = "Mine" /\ pc[u] # "return"
    BY <1>1 DEF MineDefersNone, Worker, Start, SeeNuma, SeeHuge, HashNext, Hash, Crash,
       SettingsChanged, FreeOld, Reallocate, Leave, DeferredFree
  <2>2. CASE Crash(w)
    BY <2>2 DEF Crash
  <2>3. CASE ~Crash(w)
    <3>1. \E to \in Pcs \ {"return"} : MoveTo(w, to)
      BY <1>1, <2>1, <2>3 DEF Worker, Start, SeeNuma, SeeHuge, HashNext, Hash,
         SettingsChanged, FreeOld, Reallocate, Leave, DeferredFree, Pcs
    <3> QED
      BY <2>1, <3>1, PcStep
  <2> QED
    BY <2>2, <2>3
<1>2. CASE NextCall
  BY <1>2 DEF NextCall
<1>3. CASE (\E s \in Settings : ChangeSetting(s)) \/ Cancel \/ UNCHANGED vars
  BY <1>3 DEF ChangeSetting, Cancel, vars, MineDefersNone
<1> QED
  BY <1>1, <1>2, <1>3 DEF Next, Terminated

\* A deferred call is the last thing a worker of RunMiner does.
LEMMA ReturnsStay ==
  ASSUME TypeOK, [Next]_vars
  PROVE  /\ NoneReturned' => NoneReturned
         /\ changes' = 0 => changes = 0 /\ settings' = settings
         /\ caller' = caller
<1>1. ASSUME NEW w \in Workers, Worker(w)
      PROVE  /\ UNCHANGED <<caller, changes, settings>>
             /\ NoneReturned' => NoneReturned
  <2>1. UNCHANGED <<caller, changes, settings>>
    BY <1>1 DEF Worker, Start, SeeNuma, SeeHuge, HashNext, Hash, Crash, SettingsChanged,
       FreeOld, Reallocate, Leave, DeferredFree, envVars
  <2>2. CASE Crash(w)
    BY <2>1, <2>2 DEF Crash, NoneReturned
  <2>3. CASE ~Crash(w)
    <3>1. pc[w] \notin {"done", "dead"} /\ \E to \in Pcs : MoveTo(w, to)
      BY <1>1, <2>3 DEF Worker, Start, SeeNuma, SeeHuge, HashNext, Hash,
         SettingsChanged, FreeOld, Reallocate, Leave, DeferredFree, Pcs
    <3>2. \A v \in Workers \ {w} : pc'[v] = pc[v]
      BY <3>1, PcStep
    <3> QED
      BY <2>1, <3>1, <3>2 DEF NoneReturned
  <2> QED
    BY <2>1, <2>2, <2>3
<1>2. ASSUME NEW s \in Settings, ChangeSetting(s)
      PROVE  changes' # 0 /\ pc' = pc /\ caller' = caller
  BY <1>2, BoundsAssumption DEF ChangeSetting, TypeOK
<1>3. CASE Cancel \/ NextCall \/ UNCHANGED vars
  BY <1>3 DEF Cancel, NextCall, vars, envVars, NoneReturned
<1> QED
  BY <1>1, <1>2, <1>3 DEF Next, Terminated, NoneReturned

LEMMA OwnStep ==
  TypeOK /\ MineDefersNone /\ AllOwn /\ NothingReplaced /\ [Next]_vars => AllOwn'
<1> SUFFICES ASSUME TypeOK, MineDefersNone, AllOwn, NothingReplaced, [Next]_vars,
                    NoneReturned' \/ changes' = 0
             PROVE  EachOwns'
  BY DEF AllOwn
<1>1. EachOwns
  BY ReturnsStay DEF AllOwn
<1>2. ASSUME NEW w \in Workers, Worker(w) PROVE EachOwns'
  <2>1. CASE Start(w)
    <3>1. \A v \in Workers \ {w} : pc'[v] = pc[v]
      BY <2>1, PcStep DEF Start
    <3> QED
      BY <1>1, <2>1, <3>1, AllocationOwns DEF Start, HasWorkspace
  <2>2. CASE Reallocate(w)
    <3>1. \A v \in Workers \ {w} : pc'[v] = pc[v]
      BY <2>2, PcStep DEF Reallocate
    <3> QED
      BY <1>1, <2>2, <3>1, AllocationOwns DEF Reallocate, HasWorkspace
  <2>3. CASE FreeOld(w)
    <3>1. pc'[w] = "renuma" /\ \A v \in Workers \ {w} : pc'[v] = pc[v]
      BY <2>3, PcStep DEF FreeOld
    <3> QED
      BY <1>1, <2>3, <3>1, FreeOwns DEF FreeOld, HasWorkspace, wsVars
  <2>4. CASE DeferredFree(w)
    <3>1. pc'[w] = "done" /\ \A v \in Workers \ {w} : pc'[v] = pc[v]
      BY <2>4, PcStep DEF DeferredFree
    <3>2. caller = "RunMiner" /\ caller' = caller
      BY <2>4, ReturnsStay DEF DeferredFree, MineDefersNone, TypeOK, Callers
    <3>3. ~NoneReturned'
      BY <3>1, <3>2 DEF NoneReturned
    <3>4. changes = 0
      BY <3>3, ReturnsStay
    <3>5. HasWorkspace(w) /\ deferred[w] = ws[w]
      BY <2>4, <3>2, <3>4 DEF DeferredFree, HasWorkspace, NothingReplaced
    <3> QED
      BY <1>1, <2>4, <3>1, <3>5, FreeOwns DEF DeferredFree, HasWorkspace, wsVars
  <2>5. CASE Crash(w)
    BY <1>1, <2>5, NothingMoves DEF Crash, HasWorkspace, memVars, wsVars
  <2>6. CASE SeeNuma(w) \/ SeeHuge(w) \/ HashNext(w) \/ Hash(w) \/ SettingsChanged(w)
             \/ Leave(w)
    <3>1. mapped' = mapped /\ ws' = ws
      BY <2>6 DEF SeeNuma, SeeHuge, HashNext, Hash, SettingsChanged, Leave, memVars, wsVars
    <3>2. HasWorkspace(w)' => HasWorkspace(w)
      BY <2>6, PcStep
      DEF SeeNuma, SeeHuge, HashNext, Hash, SettingsChanged, Leave, HasWorkspace
    <3>3. \A v \in Workers \ {w} : pc'[v] = pc[v]
      BY <2>6, PcStep DEF SeeNuma, SeeHuge, HashNext, Hash, SettingsChanged, Leave
    <3> QED
      BY <1>1, <3>1, <3>2, <3>3, NothingMoves DEF HasWorkspace
  <2> QED
    BY <1>2, <2>1, <2>2, <2>3, <2>4, <2>5, <2>6 DEF Worker
<1>3. ASSUME NEW s \in Settings, ChangeSetting(s) PROVE EachOwns'
  BY <1>1, <1>3, NothingMoves DEF ChangeSetting, HasWorkspace, memVars, wsVars
<1>4. CASE Cancel \/ NextCall \/ UNCHANGED vars
  BY <1>1, <1>4, NothingMoves
  DEF Cancel, NextCall, vars, HasWorkspace, memVars, wsVars
<1> QED
  BY <1>2, <1>3, <1>4 DEF Next, Terminated

-----------------------------------------------------------------------------
(* Without a change of settings. *)

\* What a worker that hashes accesses is mapped, so the process does not crash.
LEMMA NoCrash ==
  ASSUME AllOwn, changes = 0, NEW w \in Workers PROVE ~Crash(w)
  BY DEF AllOwn, EachOwns, HasWorkspace, Owns, Crash, Accessible

LEMMA ReplacedStep ==
  TypeOK /\ MineDefersNone /\ AllOwn /\ NothingReplaced /\ [Next]_vars => NothingReplaced'
<1> SUFFICES ASSUME TypeOK, AllOwn, NothingReplaced, [Next]_vars, changes' = 0
             PROVE  NothingReplaced'
  BY DEF NothingReplaced
<1>1. changes = 0 /\ settings' = Settings /\ settings = Settings /\ caller' = caller
  BY ReturnsStay DEF NothingReplaced
<1> DEFINE Good(u) ==
      /\ pc[u] \notin {"free", "renuma", "rehuge", "realloc", "dead"}
      /\ SeenFirst(u)
      /\ caller = "RunMiner" /\ HasWorkspace(u) => deferred[u] = ws[u]
<1>2. \A u \in Workers : Good(u)
  BY <1>1 DEF NothingReplaced
<1>3. ASSUME NEW w \in Workers, Worker(w), NEW u \in Workers PROVE Good(u)'
  <2>1. CASE u # w
    <3>1. /\ pc'[u] = pc[u] /\ last'[u] = last[u]
          /\ ws'[u] = ws[u] /\ deferred'[u] = deferred[u]
      <4>1. ~Crash(w)
        BY <1>1, NoCrash
      <4>2. \E to \in Pcs : MoveTo(w, to)
        BY <1>3, <4>1 DEF Worker, Start, SeeNuma, SeeHuge, HashNext, Hash,
           SettingsChanged, FreeOld, Reallocate, Leave, DeferredFree, Pcs
      <4>3. pc'[u] = pc[u]
        BY <2>1, <4>2, PcStep
      <4>4. ws'[u] = ws[u]
        BY <1>3, <2>1, <4>1 DEF Worker, Start, SeeNuma, SeeHuge, HashNext, Hash,
           SettingsChanged, FreeOld, Reallocate, Leave, DeferredFree, wsVars,
           NewWorkspaceOnNode, Mapping, UnboundMapping, NoMapping, TypeOK
      <4>5. last'[u] = last[u] /\ deferred'[u] = deferred[u]
        BY <1>3, <2>1, <4>1 DEF Worker, Start, SeeNuma, SeeHuge, See, HashNext, Hash,
           SettingsChanged, FreeOld, Reallocate, Leave, DeferredFree, wsVars, TypeOK
      <4> QED
        BY <4>3, <4>4, <4>5
    <3> QED
      BY <1>1, <1>2, <3>1 DEF SeenFirst, HasWorkspace
  <2>2. CASE u = w /\ Start(w)
    BY <1>1, <1>2, <2>2, PcStep DEF Start, SeenFirst, HasWorkspace, TypeOK
  <2>3. CASE u = w /\ SeeNuma(w)
    <3>1. pc[w] = "numa" /\ MoveTo(w, "huge")
      BY <1>2, <2>3 DEF SeeNuma
    <3>2. "numa" \in last'[w]
      BY <1>1, <2>3 DEF SeeNuma, See, TypeOK, Settings
    <3> QED
      BY <1>1, <1>2, <2>3, <3>1, <3>2, PcStep DEF SeeNuma, SeenFirst, HasWorkspace
  <2>4. CASE u = w /\ SeeHuge(w)
    <3>1. pc[w] = "huge" /\ MoveTo(w, "poll") /\ "numa" \in last[w]
      BY <1>2, <2>4 DEF SeeHuge, SeenFirst
    <3>2. last'[w] = Settings
      BY <1>1, <2>4, <3>1 DEF SeeHuge, See, TypeOK, Settings
    <3> QED
      BY <1>1, <1>2, <2>4, <3>1, <3>2, PcStep DEF SeeHuge, SeenFirst, HasWorkspace
  <2>5. CASE u = w /\ (HashNext(w) \/ Hash(w) \/ Leave(w))
    BY <1>1, <1>2, <2>5, PcStep DEF HashNext, Hash, Leave, SeenFirst, HasWorkspace, wsVars
  <2>6. CASE u = w /\ DeferredFree(w)
    BY <1>1, <1>2, <2>6, PcStep DEF DeferredFree, SeenFirst, HasWorkspace, wsVars
  <2>7. ~SettingsChanged(w) /\ ~FreeOld(w) /\ ~Reallocate(w) /\ ~Crash(w)
    BY <1>1, <1>2, NoCrash DEF SettingsChanged, FreeOld, Reallocate, SeenFirst
  <2> QED
    BY <1>3, <2>1, <2>2, <2>3, <2>4, <2>5, <2>6, <2>7 DEF Worker
<1>4. ASSUME NextCall \/ Cancel \/ UNCHANGED vars, NEW u \in Workers PROVE Good(u)'
  BY <1>2, <1>4 DEF NextCall, Cancel, vars, wsVars, SeenFirst, HasWorkspace
<1>5. \A s \in Settings : ~ChangeSetting(s)
  BY <1>1 DEF ChangeSetting
<1>6. \A u \in Workers : Good(u)'
  BY <1>3, <1>4, <1>5 DEF Next, Terminated
<1> QED
  BY <1>1, <1>6 DEF NothingReplaced

LEMMA UsedStep ==
  TypeOK /\ AllOwn /\ NothingReplaced /\ AllUsed /\ [Next]_vars => AllUsed'
<1> SUFFICES ASSUME TypeOK, AllOwn, NothingReplaced, AllUsed, [Next]_vars,
                    caller' = "RunMiner", changes' = 0,
                    NEW r \in mapped' \ unbound'
             PROVE  \E v \in Workers : HasWorkspace(v)' /\ ws'[v] = r
  BY DEF AllUsed
<1>1. caller = "RunMiner" /\ changes = 0
  BY ReturnsStay
<1>2. \A q \in mapped \ unbound : \E v \in Workers : HasWorkspace(v) /\ ws[v] = q
  BY <1>1 DEF AllUsed
<1>3. ASSUME NEW w \in Workers, Worker(w)
      PROVE  \E v \in Workers : HasWorkspace(v)' /\ ws'[v] = r
  <2>1. CASE Start(w)
    <3>1. /\ pc'[w] = "numa" /\ ~HasWorkspace(w)
          /\ \A v \in Workers \ {w} : pc'[v] = pc[v] /\ ws'[v] = ws[v]
      BY <2>1, PcStep DEF Start, HasWorkspace, TypeOK,
         NewWorkspaceOnNode, Mapping, UnboundMapping, NoMapping
    <3>2. r \in mapped \ unbound \/ ws'[w] = r
      BY <2>1 DEF Start, TypeOK, NewWorkspaceOnNode, Mapping, UnboundMapping, NoMapping, memVars
    <3>3. CASE ws'[w] = r
      BY <3>1, <3>3 DEF HasWorkspace
    <3>4. CASE r \in mapped \ unbound
      <4>1. PICK v \in Workers : HasWorkspace(v) /\ ws[v] = r
        BY <1>2, <3>4
      <4> QED
        BY <3>1, <4>1 DEF HasWorkspace
    <3> QED
      BY <3>2, <3>3, <3>4
  <2>2. CASE DeferredFree(w)
    <3>1. deferred[w] = ws[w]
      BY <1>1, <2>2 DEF DeferredFree, NothingReplaced, HasWorkspace
    <3>2. r \in mapped \ unbound /\ r # ws[w]
      BY <2>2, <3>1 DEF DeferredFree, Free
    <3>3. PICK v \in Workers : HasWorkspace(v) /\ ws[v] = r
      BY <1>2, <3>2
    <3>4. v # w /\ pc'[v] = pc[v] /\ ws'[v] = ws[v]
      BY <2>2, <3>2, <3>3, PcStep DEF DeferredFree, wsVars
    <3> QED
      BY <3>3, <3>4 DEF HasWorkspace
  <2>3. CASE SeeNuma(w) \/ SeeHuge(w) \/ HashNext(w) \/ Hash(w) \/ Leave(w)
    <3>1. mapped' = mapped /\ unbound' = unbound /\ ws' = ws
      BY <2>3 DEF SeeNuma, SeeHuge, HashNext, Hash, Leave, memVars, wsVars
    <3>2. HasWorkspace(w) => HasWorkspace(w)'
      BY <1>1, <2>3, PcStep DEF SeeNuma, SeeHuge, HashNext, Hash, Leave, HasWorkspace
    <3>3. \A v \in Workers \ {w} : pc'[v] = pc[v]
      BY <2>3, PcStep DEF SeeNuma, SeeHuge, HashNext, Hash, Leave
    <3>4. PICK v \in Workers : HasWorkspace(v) /\ ws[v] = r
      BY <1>2, <3>1
    <3> QED
      BY <3>1, <3>2, <3>3, <3>4 DEF HasWorkspace
  <2>4. ~SettingsChanged(w) /\ ~FreeOld(w) /\ ~Reallocate(w) /\ ~Crash(w)
    BY <1>1, NoCrash DEF SettingsChanged, FreeOld, Reallocate, NothingReplaced, SeenFirst
  <2> QED
    BY <1>3, <2>1, <2>2, <2>3, <2>4 DEF Worker
<1>4. CASE Cancel \/ UNCHANGED vars
  BY <1>2, <1>4 DEF Cancel, vars, memVars, wsVars, HasWorkspace
<1>5. ~NextCall /\ \A s \in Settings : ~ChangeSetting(s)
  BY <1>1, BoundsAssumption DEF NextCall, ChangeSetting, TypeOK
<1> QED
  BY <1>3, <1>4, <1>5 DEF Next, Terminated

-----------------------------------------------------------------------------
(* What is mapped and never freed. *)

\* Worker w has not freed the workspace that ws[w] names, or has returned with it.
Keeps(w) == pc[w] \notin {"start", "renuma", "rehuge", "realloc"}

\* The bound mappings that no worker's variable names any more.
Leaked == {r \in mapped \ unbound : \A w \in Workers : Keeps(w) => ws[w] # r}

\* RunMiner leaks none, and Mine leaves those of its earlier calls behind.
LeaksBounded ==
  /\ IsFiniteSet(mapped)
  /\ Cardinality(Leaked)
       <= Cardinality(Workers) * (IF caller = "Mine" THEN calls - 1 ELSE 0)

\* No worker's step leaks a mapping.
LEMMA WorkerLeaksNone ==
  ASSUME TypeOK, NEW w \in Workers, Worker(w)
  PROVE  Leaked' \subseteq Leaked
<1>1. CASE Start(w) \/ Reallocate(w)
  <2>1. /\ ~Keeps(w) /\ NewWorkspaceOnNode(w)
        /\ \E to \in {"numa", "poll"} : MoveTo(w, to)
    BY <1>1 DEF Start, Reallocate, Keeps
  <2>2. Keeps(w)' /\ \A v \in Workers \ {w} : pc'[v] = pc[v] /\ ws'[v] = ws[v]
    BY <2>1, PcStep DEF TypeOK, Keeps, NewWorkspaceOnNode, Mapping, UnboundMapping, NoMapping
  <2>3. mapped' \ unbound' \subseteq (mapped \ unbound) \cup {ws'[w]}
    BY <2>1 DEF TypeOK, NewWorkspaceOnNode, Mapping, UnboundMapping, NoMapping, memVars
  <2>4. \A v \in Workers : Keeps(v) => v # w
    BY <2>1
  <2> QED
    BY <2>2, <2>3, <2>4 DEF Leaked, Keeps
<1>2. CASE FreeOld(w)
  <2>1. /\ pc[w] = "free" /\ pc'[w] = "renuma" /\ ws' = ws
        /\ \A v \in Workers \ {w} : pc'[v] = pc[v]
    BY <1>2, PcStep DEF FreeOld, wsVars
  <2>2. mapped' \ unbound' = (mapped \ unbound) \ {ws[w]}
    BY <1>2 DEF FreeOld, Free
  <2> QED
    BY <2>1, <2>2 DEF Leaked, Keeps
<1>3. CASE DeferredFree(w)
  <2>1. /\ pc[w] = "return" /\ pc'[w] = "done" /\ ws' = ws
        /\ \A v \in Workers \ {w} : pc'[v] = pc[v]
    BY <1>3, PcStep DEF DeferredFree, wsVars
  <2>2. mapped' \ unbound' \subseteq mapped \ unbound
    BY <1>3 DEF DeferredFree, Free
  <2> QED
    BY <2>1, <2>2 DEF Leaked, Keeps
<1>4. CASE Crash(w)
  BY <1>4 DEF Crash, Leaked, Keeps, memVars, wsVars
<1>5. CASE SeeNuma(w) \/ SeeHuge(w) \/ HashNext(w) \/ Hash(w) \/ SettingsChanged(w) \/ Leave(w)
  <2>1. mapped' = mapped /\ unbound' = unbound /\ ws' = ws
    BY <1>5 DEF SeeNuma, SeeHuge, HashNext, Hash, SettingsChanged, Leave, memVars, wsVars
  <2>2. \A v \in Workers \ {w} : pc'[v] = pc[v]
    BY <1>5, PcStep DEF SeeNuma, SeeHuge, HashNext, Hash, SettingsChanged, Leave
  <2>3. Keeps(w) <=> Keeps(w)'
    BY <1>5, PcStep DEF SeeNuma, SeeHuge, HashNext, Hash, SettingsChanged, Leave, Keeps
  <2> QED
    BY <2>1, <2>2, <2>3 DEF Leaked, Keeps
<1> QED
  BY <1>1, <1>2, <1>3, <1>4, <1>5 DEF Worker

\* A worker maps one region at a time.
LEMMA MappedFinite ==
  ASSUME TypeOK, [Next]_vars, IsFiniteSet(mapped)
  PROVE  IsFiniteSet(mapped')
<1>1. \E r : mapped' \subseteq mapped \cup {r}
  <2>1. ASSUME NEW w \in Workers, Worker(w) PROVE \E r : mapped' \subseteq mapped \cup {r}
    <3>1. CASE Start(w) \/ Reallocate(w)
      BY <3>1 DEF Start, Reallocate, NewWorkspaceOnNode, Mapping, UnboundMapping, NoMapping,
         memVars
    <3>2. CASE mapped' \subseteq mapped
      BY <3>2
    <3>3. Start(w) \/ Reallocate(w) \/ mapped' \subseteq mapped
      BY <2>1 DEF Worker, SeeNuma, SeeHuge, HashNext, Hash, Crash, SettingsChanged, FreeOld,
         Leave, DeferredFree, Free, memVars
    <3> QED
      BY <3>1, <3>2, <3>3
  <2>2. CASE \/ \E s \in Settings : ChangeSetting(s)
             \/ Cancel \/ NextCall \/ UNCHANGED vars
    <3>1. mapped' = mapped
      BY <2>2 DEF ChangeSetting, Cancel, NextCall, vars, memVars
    <3> QED
      BY <3>1
  <2> QED
    BY <2>1, <2>2 DEF Next, Terminated
<1>2. PICK r : mapped' \subseteq mapped \cup {r}
  BY <1>1
<1>3. IsFiniteSet(mapped \cup {r})
  BY FS_AddElement
<1> QED
  BY <1>2, <1>3, FS_Subset

\* All that is mapped and bound is a worker's workspace or leaked.
LEMMA BoundOrLeaked ==
  ASSUME IsFiniteSet(mapped)
  PROVE  /\ IsFiniteSet(mapped \ unbound) /\ IsFiniteSet(Leaked)
         /\ Cardinality(mapped \ unbound) \in Nat /\ Cardinality(Leaked) \in Nat
         /\ Cardinality(Workers) \in Nat
         /\ Cardinality(mapped \ unbound) <= Cardinality(Leaked) + Cardinality(Workers)
<1> DEFINE bound == mapped \ unbound
           named == {ws[w] : w \in Workers}
<1>1. IsFiniteSet(bound) /\ IsFiniteSet(Leaked)
  <2>1. bound \in SUBSET mapped /\ Leaked \in SUBSET mapped
    BY DEF Leaked
  <2> QED
    BY <2>1, FS_Subset
<1>2. IsFiniteSet(named) /\ Cardinality(named) <= Cardinality(Workers)
  <2> DEFINE f == [w \in Workers |-> ws[w]]
  <2>1. f \in Surjection(Workers, named)
    <3>1. f \in [Workers -> named] /\ \A r \in named : \E w \in Workers : f[w] = r
      OBVIOUS
    <3> HIDE DEF f, named
    <3> QED
      BY <3>1, Fun_IsSurj
  <2> HIDE DEF f, named
  <2> QED
    BY <2>1, WorkersAssumption, FS_Surjection
<1>3. bound \in SUBSET (Leaked \cup named)
  BY DEF Leaked
<1>4. /\ Cardinality(Leaked) \in Nat /\ Cardinality(named) \in Nat
      /\ Cardinality(Workers) \in Nat /\ Cardinality(bound) \in Nat
      /\ Cardinality(Leaked \cap named) \in Nat
  <2>1. IsFiniteSet(Leaked \cap named)
    BY <1>1, FS_Intersection
  <2> QED
    BY <1>1, <1>2, <2>1, WorkersAssumption, FS_CardinalityType
<1>5. /\ IsFiniteSet(Leaked \cup named)
      /\ Cardinality(Leaked \cup named)
           = Cardinality(Leaked) + Cardinality(named) - Cardinality(Leaked \cap named)
  BY <1>1, <1>2, FS_Union
<1>6. Cardinality(bound) <= Cardinality(Leaked \cup named)
  BY <1>3, <1>5, FS_Subset
<1> HIDE DEF bound, named
<1>7. Cardinality(bound) <= Cardinality(Leaked) + Cardinality(Workers)
  BY <1>2, <1>4, <1>5, <1>6
<1> QED
  BY <1>1, <1>4, <1>7 DEF bound

\* One more call leaves at most one more workspace per worker behind.
LEMMA LeaksStep == TypeOK /\ LeaksBounded /\ [Next]_vars => LeaksBounded'
<1> SUFFICES ASSUME TypeOK, LeaksBounded, [Next]_vars PROVE LeaksBounded'
  OBVIOUS
<1> DEFINE n == Cardinality(Workers)
<1>1. IsFiniteSet(mapped') /\ IsFiniteSet(mapped)
  BY MappedFinite DEF LeaksBounded
<1>2. caller' = caller
  BY ReturnsStay
<1>3. CASE NextCall
  <2>1. /\ caller = "Mine" /\ calls' = calls + 1 /\ calls \in Nat
        /\ mapped' = mapped /\ unbound' = unbound
    BY <1>3, BoundsAssumption DEF NextCall, memVars, TypeOK
  <2>2. Leaked' \in SUBSET (mapped \ unbound)
    BY <2>1 DEF Leaked
  <2>3. IsFiniteSet(mapped \ unbound) /\ Cardinality(Leaked) \in Nat /\ n \in Nat
        /\ Cardinality(mapped \ unbound) <= Cardinality(Leaked) + n
        /\ Cardinality(mapped \ unbound) \in Nat
    BY <1>1, BoundOrLeaked
  <2>4. Cardinality(Leaked') <= Cardinality(mapped \ unbound) /\ Cardinality(Leaked') \in Nat
    BY <2>2, <2>3, FS_Subset, FS_CardinalityType
  <2>5. Cardinality(Leaked) <= n * (calls - 1)
    BY <2>1 DEF LeaksBounded
  <2> HIDE DEF n
  <2>6. n * (calls - 1) \in Int /\ n * (calls - 1) + n = n * (calls' - 1)
    BY <2>1, <2>3, Z3
  <2>7. Cardinality(Leaked') <= n * (calls' - 1)
    BY <2>3, <2>4, <2>5, <2>6
  <2> QED
    BY <1>1, <1>2, <2>1, <2>7 DEF LeaksBounded, n
<1>4. CASE ~NextCall
  <2>1. Leaked' \subseteq Leaked /\ calls' = calls
    <3>1. ASSUME NEW w \in Workers, Worker(w) PROVE Leaked' \subseteq Leaked /\ calls' = calls
      <4>1. calls' = calls
        BY <3>1 DEF Worker, Start, SeeNuma, SeeHuge, HashNext, Hash, Crash, SettingsChanged,
           FreeOld, Reallocate, Leave, DeferredFree
      <4> QED
        BY <3>1, <4>1, WorkerLeaksNone
    <3>2. CASE (\E s \in Settings : ChangeSetting(s)) \/ Cancel \/ UNCHANGED vars
      BY <3>2 DEF ChangeSetting, Cancel, vars, memVars, wsVars, Leaked, Keeps
    <3> QED
      BY <1>4, <3>1, <3>2 DEF Next, Terminated
  <2>2. IsFiniteSet(Leaked) /\ Cardinality(Leaked) \in Nat
    BY <1>1, BoundOrLeaked
  <2>3. Cardinality(Leaked') <= Cardinality(Leaked) /\ Cardinality(Leaked') \in Nat
    BY <2>1, <2>2, FS_Subset, FS_CardinalityType
  <2> DEFINE most == Cardinality(Workers) * (IF caller = "Mine" THEN calls - 1 ELSE 0)
  <2>4. most \in Int
    <3>1. Cardinality(Workers) \in Nat /\ calls \in Nat
      BY <1>1, BoundOrLeaked, BoundsAssumption DEF TypeOK
    <3> QED
      BY <3>1, Z3
  <2>5. most' = most /\ Cardinality(Leaked) <= most
    BY <1>2, <2>1 DEF LeaksBounded
  <2> HIDE DEF most
  <2>6. Cardinality(Leaked') <= most'
    BY <2>2, <2>3, <2>4, <2>5
  <2> QED
    BY <1>1, <2>6 DEF LeaksBounded, most
<1> QED
  BY <1>3, <1>4

-----------------------------------------------------------------------------
(* The invariant, and what follows from it. *)

LEMMA Invariance == Spec => []IInv
<1>1. Init => IInv
  BY InitInv
<1>2. IInv /\ [Next]_vars => IInv'
  BY TypeStep, DefersStep, OwnStep, ReplacedStep, UsedStep DEF IInv
<1> QED
  BY <1>1, <1>2, PTL DEF Spec

\* Every variable keeps its type.
THEOREM TypeCorrect == Spec => []TypeOK
<1>1. IInv => TypeOK
  BY DEF IInv
<1> QED
  BY <1>1, Invariance, PTL

\* Mine's workers always, and RunMiner's until one of them returns or as long as
\* no setting changes, hash in mapped memory that no other worker uses.
THEOREM ScratchpadsAreOwn == Spec => []OwnUntilReturn
<1>1. IInv => OwnUntilReturn
  BY DEF IInv, AllOwn, EachOwns, OwnUntilReturn, OwnWorkspace, HasWorkspace
<1> QED
  BY <1>1, Invariance, PTL

\* Without a change of settings RunMiner's workers free all that was bound.
THEOREM WorkersFreeTheirs == Spec => []FreedOnReturn
<1>1. IInv => FreedOnReturn
  BY DEF IInv, TypeOK, AllUsed, HasWorkspace, AllDone, FreedOnReturn
<1> QED
  BY <1>1, Invariance, PTL

\* Whatever is replaced, reused or left behind, RunMiner holds no more bound
\* mappings than it has workers, and Mine no more than a call's workers each call:
\* a replacement leaks nothing (stratum.go, pool.go: ws.Free before NewWorkspace).
THEOREM ReplacementsLeakNothing == Spec => []MappingsBounded
<1>1. Init => LeaksBounded
  <2> SUFFICES ASSUME Init PROVE LeaksBounded
    OBVIOUS
  <2>1. mapped = {} /\ Leaked = {} /\ calls = 1
    BY DEF Init, Leaked
  <2>2. Cardinality(Workers) \in Nat
    BY WorkersAssumption, FS_CardinalityType
  <2> QED
    BY <2>1, <2>2, FS_EmptySet, Z3 DEF LeaksBounded
<1>2. TypeOK /\ LeaksBounded => MappingsBounded
  <2> SUFFICES ASSUME TypeOK, LeaksBounded PROVE MappingsBounded
    OBVIOUS
  <2> DEFINE n == Cardinality(Workers)
  <2>1. /\ Cardinality(mapped \ unbound) \in Nat /\ Cardinality(Leaked) \in Nat /\ n \in Nat
        /\ Cardinality(mapped \ unbound) <= Cardinality(Leaked) + n
    BY BoundOrLeaked DEF LeaksBounded
  <2>2. calls \in Nat
    BY BoundsAssumption DEF TypeOK
  <2>3. Cardinality(Leaked) <= n * (IF caller = "Mine" THEN calls - 1 ELSE 0)
    BY DEF LeaksBounded
  <2> HIDE DEF n
  <2>4. CASE caller = "Mine"
    <3>1. n * (calls - 1) \in Int /\ n * (calls - 1) + n = n * calls
      BY <2>1, <2>2, Z3
    <3> QED
      BY <2>1, <2>3, <2>4, <3>1 DEF MappingsBounded, n
  <2>5. CASE caller # "Mine"
    <3>1. n * 0 = 0 /\ n * 1 = n
      BY <2>1, Z3
    <3> QED
      BY <2>1, <2>3, <2>5, <3>1 DEF MappingsBounded, n
  <2> QED
    BY <2>4, <2>5
<1> QED
  BY <1>1, <1>2, LeaksStep, TypeCorrect, PTL DEF Spec
=============================================================================
