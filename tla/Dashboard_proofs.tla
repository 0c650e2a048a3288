--------------------------- MODULE Dashboard_proofs ---------------------------
(***************************************************************************)
(* The safety properties of the dashboard, for any number of inputs and    *)
(* events and any range and step of the power limit.  Type correctness     *)
(* comes first; each property then has an inductive invariant of its own,  *)
(* relative to it.                                                         *)
(***************************************************************************)
EXTENDS Dashboard, TLAPS

\* saveConfig writes credentials from credentials.
LEMMA RowType ==
  ASSUME NEW c \in Credentials, NEW in \in [Inputs -> Text]
  PROVE  Row(c, in) \in Credentials
<1>1. Addr \in Inputs /\ User \in Inputs
  BY NumInputsAssumption DEF Inputs, Addr, User
<1>2. in[Addr] \in Text /\ in[User] \in Text
  BY <1>1
<1>3. c.addr \in Text
  BY DEF Credentials
<1> QED
  BY <1>2, <1>3 DEF Row, Credentials

\* The backend's limit is a limit.
LEMMA ClampRange ==
  ASSUME NEW p \in Nat
  PROVE  Clamp(p) \in 1 .. MaxPower
BY MaxPowerAssumption, PowerStepAssumption DEF Clamp

\* What the statistics do to the power limit keeps it a natural number.
LEMMA StatsPower ==
  ASSUME power \in Nat, NEW t
  PROVE  AfterProtection(t) \in Nat
<1>1. AfterTurbo(t) \in Nat
  BY PowerStepAssumption DEF AfterTurbo
<1> QED
  BY <1>1, PowerStepAssumption DEF AfterProtection

\* The initial states have the right types.
LEMMA InitType == Init => TypeOK
<1> SUFFICES ASSUME Init PROVE TypeOK
  OBVIOUS
<1>1. /\ cfg = [addr |-> "pool", user |-> "me"]
      /\ stored = cfg /\ cfg \in Credentials
  BY DEF Init, Credentials, Text
<1>2. input \in [Inputs -> Text]
  <2>1. cfg.addr \in Text /\ cfg.user \in Text
    BY <1>1 DEF Text
  <2>2. "" \in Text
    BY DEF Text
  <2> QED
    BY <2>1, <2>2 DEF Init
<1>3. inflight \in [Commands -> Nat]
  BY DEF Init
<1>4. power \in Nat /\ limit \in Nat
  <2>1. power \in 1 .. MaxPower /\ limit = power
    BY DEF Init
  <2> QED
    BY <2>1, MaxPowerAssumption
<1>5. focus \in 0 .. NumInputs /\ target \in Text
  <2>1. focus = 0 /\ target = ""
    BY DEF Init
  <2>2. 0 \in 0 .. NumInputs
    BY NumInputsAssumption
  <2>3. "" \in Text
    BY DEF Text
  <2> QED
    BY <2>1, <2>2, <2>3
<1> QED
  BY <1>1, <1>2, <1>3, <1>4, <1>5 DEF Init, TypeOK

\* A message swallowed by an overlay changes the stored row at most.
LEMMA SwallowType ==
  ASSUME TypeOK, Swallow
  PROVE  /\ stored' \in Credentials
         /\ UNCHANGED <<open, hardwareVars, backendVars, formVars, configVars,
                        saved, loopVars>>
BY RowType DEF TypeOK, Swallow

\* So it keeps the types, with the command's message counted off.
LEMMA SwallowKeepsType ==
  ASSUME TypeOK, Swallow, inflight' \in [Commands -> Nat], events' \in Nat
  PROVE  TypeOK'
<1>1. stored' \in Credentials
  BY SwallowType
<1>2. UNCHANGED <<open, hardwareVars, backendVars, formVars, configVars, saved,
                  loopVars>>
  BY SwallowType
<1> QED
  BY <1>1, <1>2 DEF TypeOK, hardwareVars, backendVars, formVars, configVars, loopVars

\* Every step keeps the types.
LEMMA NextType == TypeOK /\ [Next]_vars => TypeOK'
<1> SUFFICES ASSUME TypeOK, [Next]_vars PROVE TypeOK'
  OBVIOUS
<1> USE DEF TypeOK, Event, hardwareVars, backendVars, formVars, configVars,
            storeVars, loopVars
<1>1. Row(cfg, input) \in Credentials
  BY RowType
<1>2. \A c \in Commands : [inflight EXCEPT ![c] = @ + 1] \in [Commands -> Nat]
  OBVIOUS
<1>3. \A c \in Commands : inflight[c] > 0 =>
        [inflight EXCEPT ![c] = @ - 1] \in [Commands -> Nat]
  OBVIOUS
<1>4. ASSUME Event PROVE events' \in Nat
  BY <1>4
<1>5. CASE OpenMenu
  BY <1>5 DEF OpenMenu, OpenOverlay, Overlays
<1>6. CASE OpenForm
  <2>1. input' \in [Inputs -> Text]
    BY <1>6, NumInputsAssumption DEF OpenForm, FilledIn, Credentials
  <2>2. focus' \in 0 .. NumInputs /\ focused' \subseteq Inputs
    BY <1>6, NumInputsAssumption DEF OpenForm, Inputs
  <2> QED
    BY <1>6, <2>1, <2>2 DEF OpenForm, Overlays
<1>7. CASE Quit
  BY <1>7, <1>1, <1>2 DEF Quit, Send, Commands
<1>8. CASE CloseHardware
  BY <1>8, <1>1 DEF CloseHardware, MenuKey
<1>9. CASE ToggleSwitch
  <2>1. switch' \in BOOLEAN
    BY <1>9 DEF ToggleSwitch
  <2> QED
    BY <1>9, <2>1, <1>1, <1>2 DEF ToggleSwitch, MenuKey, Send, Commands
<1>10. CASE ToggleTurbo
  <2>1. turbo' \in BOOLEAN
    BY <1>10 DEF ToggleTurbo
  <2> QED
    BY <1>10, <2>1, <1>1, <1>2 DEF ToggleTurbo, MenuKey, Send, Commands
<1>11. CASE PowerUp
  BY <1>11, <1>1, <1>2, PowerStepAssumption DEF PowerUp, MenuKey, Send, Commands
<1>12. CASE PowerDown
  BY <1>12, <1>1, <1>2, PowerStepAssumption DEF PowerDown, MenuKey, Send, Commands
<1>13. CASE CloseSecurity
  BY <1>13 DEF CloseSecurity
<1>14. CASE ConfirmPanic
  BY <1>14, <1>2 DEF ConfirmPanic, Send, Commands
<1>15. CASE DeclinePanic
  BY <1>15 DEF DeclinePanic
<1>16. CASE NextField \/ PreviousField \/ EnterField
  <2>1. focus' \in 0 .. NumInputs /\ focused' \subseteq Inputs
    BY <1>16, NumInputsAssumption DEF NextField, PreviousField, EnterField, Refocus
  <2> QED
    BY <1>16, <2>1 DEF NextField, PreviousField, EnterField, FormKey
<1>17. ASSUME NEW t \in {"typed", "rpc"}, Type(t) PROVE TypeOK'
  <2>1. input' \in [Inputs -> Text]
    BY <1>17 DEF Type, Text
  <2> QED
    BY <1>17, <2>1 DEF Type, FormKey
<1>18. CASE CancelForm
  BY <1>18 DEF CancelForm, FormKey, CloseForm
<1>19. CASE SaveForm
  <2>1. Typed \in Credentials
    BY NumInputsAssumption DEF Typed, Credentials, Inputs, Addr, User
  <2> QED
    BY <1>19, <2>1 DEF SaveForm, FormKey, CloseForm
<1>20. ASSUME NEW t \in Temperatures, WorkerStats(t) PROVE TypeOK'
  <2>1. CASE Swallow
    BY <1>20, <2>1, SwallowKeepsType DEF WorkerStats
  <2>2. CASE ~Swallow
    <3>1. power' \in Nat
      BY <1>20, <2>2, StatsPower DEF WorkerStats
    <3>2. Clamp(power') \in Nat
      BY <3>1, ClampRange, MaxPowerAssumption
    <3>3. limit' \in Nat
      BY <1>20, <2>2, <3>2 DEF WorkerStats
    <3>4. UNCHANGED <<open, turbo, switch, applied, formVars, configVars,
                      storeVars, loopVars, inflight>>
      BY <1>20, <2>2, Zenon DEF WorkerStats
    <3>5. events' \in Nat
      BY <1>4, <1>20, Zenon DEF WorkerStats
    <3> QED
      BY <3>1, <3>3, <3>4, <3>5
  <2> QED
    BY <2>1, <2>2
<1>21. ASSUME NEW t \in {"pool", "rpc"}, Network(t) PROVE TypeOK'
  <2>1. CASE Swallow
    BY <1>21, <2>1, SwallowKeepsType DEF Network
  <2>2. CASE ~Swallow
    <3>1. target' \in Text
      BY <1>21, <2>2 DEF Network, Text
    <3>2. UNCHANGED <<open, hardwareVars, backendVars, formVars, cfg, storeVars,
                      loopVars, inflight>>
      BY <1>21, <2>2, Zenon DEF Network
    <3>3. events' \in Nat
      BY <1>4, <1>21, Zenon DEF Network
    <3> QED
      BY <3>1, <3>2, <3>3
  <2> QED
    BY <2>1, <2>2
<1>22. ASSUME NEW c \in {"switch", "power", "other"}, HardwareHook(c) PROVE TypeOK'
  <2>1. inflight' \in [Commands -> Nat]
    BY <1>22, <1>3 DEF HardwareHook, Received, Commands
  <2>2. CASE Swallow
    BY <1>22, <2>1, <2>2, SwallowKeepsType DEF HardwareHook, Received
  <2>3. CASE ~Swallow
    <3>1. limit' \in Nat
      <4>1. Clamp(power) \in Nat
        BY ClampRange, MaxPowerAssumption
      <4> QED
        BY <1>22, <2>3, <4>1 DEF HardwareHook
    <3>2. applied' \in BOOLEAN
      BY <1>22, <2>3 DEF HardwareHook
    <3> QED
      BY <1>22, <2>1, <2>3, <3>1, <3>2 DEF HardwareHook, Received
  <2> QED
    BY <2>2, <2>3
<1>23. CASE Panic
  <2>1. inflight["panic"] \in Nat /\ inflight["panic"] > 0
    BY <1>23 DEF Panic, Received, Commands
  <2>2. \/ inflight' = [inflight EXCEPT !["panic"] = @ - 1]
        \/ inflight' = [inflight EXCEPT !["panic"] = @ - 1, !["quit"] = @ + 1]
    BY <1>23 DEF Panic
  <2>3. inflight' \in [Commands -> Nat]
    BY <2>1, <2>2 DEF Commands
  <2>4. CASE Swallow
    BY <1>23, <2>3, <2>4, SwallowKeepsType DEF Panic, Received
  <2>5. CASE ~Swallow
    <3>1. cfg' \in Credentials
      <4>1. cfg' = ClearedConfig
        BY <1>23, <2>5 DEF Panic
      <4>2. ClearedConfig \in Credentials
        BY DEF ClearedConfig, Credentials, Text
      <4> QED
        BY <4>1, <4>2
    <3>2. input' \in [Inputs -> Text] /\ target' \in Text
      BY <1>23, <2>5 DEF Panic, Text
    <3> QED
      BY <1>23, <2>3, <2>5, <3>1, <3>2 DEF Panic, Received
  <2> QED
    BY <2>4, <2>5
<1>24. CASE Stop
  BY <1>24, <1>1, <1>3 DEF Stop, Received, Commands
<1>25. CASE UNCHANGED vars
  BY <1>25 DEF vars
<1> QED
  BY <1>5, <1>6, <1>7, <1>8, <1>9, <1>10, <1>11, <1>12, <1>13, <1>14, <1>15, <1>16,
     <1>17, <1>18, <1>19, <1>20, <1>21, <1>22, <1>23, <1>24, <1>25
  DEF Next, HardwareKey, Form, Messages, CommandReturns

\* Type correctness of the dashboard.
THEOREM TypeCorrect == Spec => []TypeOK
<1>1. Init => TypeOK
  BY InitType
<1>2. TypeOK /\ [Next]_vars => TypeOK'
  BY NextType
<1> QED
  BY <1>1, <1>2, PTL DEF Spec

-----------------------------------------------------------------------------
(* The power limit. *)

\* From a limit in range, the statistics lead to one: turbo mode stops at the
\* maximum and at one step, the protection takes a step from more than two.
LEMMA StatsInRange ==
  ASSUME power \in 1 .. MaxPower + PowerStep - 1, NEW t
  PROVE  AfterProtection(t) \in 1 .. MaxPower + PowerStep - 1
<1>1. AfterTurbo(t) \in 1 .. MaxPower + PowerStep - 1
  BY MaxPowerAssumption, PowerStepAssumption DEF AfterTurbo
<1> QED
  BY <1>1, MaxPowerAssumption, PowerStepAssumption DEF AfterProtection

\* Every step keeps the power limit in range.
LEMMA NextPower == TypeOK /\ PowerInRange /\ [Next]_vars => PowerInRange'
<1> SUFFICES ASSUME TypeOK, PowerInRange, [Next]_vars PROVE PowerInRange'
  OBVIOUS
<1> USE DEF PowerInRange, hardwareVars, backendVars
<1>1. power \in Nat
  BY DEF TypeOK
<1>2. CASE PowerUp
  BY <1>2, MaxPowerAssumption, PowerStepAssumption DEF PowerUp, MenuKey
<1>3. CASE PowerDown
  BY <1>3, MaxPowerAssumption, PowerStepAssumption DEF PowerDown, MenuKey
<1>4. ASSUME NEW t \in Temperatures, WorkerStats(t) PROVE PowerInRange'
  <2>1. CASE Swallow
    BY <2>1 DEF Swallow
  <2>2. CASE ~Swallow
    <3>1. power' \in 1 .. MaxPower + PowerStep - 1
      BY <1>4, <2>2, StatsInRange DEF WorkerStats
    <3>2. power' \in Nat
      BY <3>1, MaxPowerAssumption, PowerStepAssumption
    <3>3. limit' \in 1 .. MaxPower
      BY <1>4, <2>2, <3>2, ClampRange DEF WorkerStats
    <3> QED
      BY <3>1, <3>3
  <2> QED
    BY <2>1, <2>2
<1>5. ASSUME NEW c \in {"switch", "power", "other"}, HardwareHook(c)
      PROVE  PowerInRange'
  BY <1>1, <1>5, ClampRange DEF HardwareHook, Swallow
<1>6. CASE UNCHANGED <<power, limit>>
  BY <1>6
<1> QED
  BY <1>2, <1>3, <1>4, <1>5, <1>6
  DEF Next, HardwareKey, Form, Messages, CommandReturns, OpenMenu, OpenOverlay,
      OpenForm, Quit, CloseHardware, ToggleSwitch, ToggleTurbo, MenuKey,
      CloseSecurity, ConfirmPanic, DeclinePanic, NextField, PreviousField,
      EnterField, Type, CancelForm, SaveForm, FormKey, Network, Swallow, Panic,
      Stop, vars

\* However keys, turbo mode and thermal protection follow each other, the power
\* limit stays above 0 and less than a step above its maximum, and the backend's
\* within 1 .. MaxPower.
THEOREM PowerStaysInRange == Spec => []PowerInRange
<1>1. Init => PowerInRange
  <2>1. Init => power \in 1 .. MaxPower /\ limit = power
    BY DEF Init
  <2> QED
    BY <2>1, MaxPowerAssumption, PowerStepAssumption DEF PowerInRange
<1>2. TypeOK /\ PowerInRange /\ [Next]_vars => PowerInRange'
  BY NextPower
<1> QED
  BY <1>1, <1>2, TypeCorrect, PTL DEF Spec

-----------------------------------------------------------------------------
(* The form's focus. *)

\* Every step keeps the field at the form's index focused.
LEMMA NextFocus == TypeOK /\ FocusShown /\ [Next]_vars => FocusShown'
<1> SUFFICES ASSUME TypeOK, FocusShown, [Next]_vars PROVE FocusShown'
  OBVIOUS
<1> USE DEF FocusShown, formVars
<1>1. focus \in 0 .. NumInputs /\ NumInputs \in Nat
  BY NumInputsAssumption DEF TypeOK
<1>2. ASSUME NEW f \in 0 .. NumInputs, Refocus(f) PROVE FocusShown'
  BY <1>1, <1>2 DEF Refocus, Inputs
<1>3. CASE NextField \/ PreviousField \/ EnterField
  BY <1>1, <1>2, <1>3 DEF NextField, PreviousField, EnterField
<1>4. CASE OpenForm
  BY <1>4 DEF OpenForm
<1>5. CASE OpenMenu
  BY <1>5 DEF OpenMenu, OpenOverlay
<1>6. CASE open' \subseteq open /\ UNCHANGED <<focus, focused>>
  BY <1>6
<1> QED
  BY <1>3, <1>4, <1>5, <1>6
  DEF Next, HardwareKey, Form, Messages, CommandReturns, Quit, CloseHardware,
      ToggleSwitch, ToggleTurbo, PowerUp, PowerDown, MenuKey, CloseSecurity,
      ConfirmPanic, DeclinePanic, Type, CancelForm, CloseForm, SaveForm, FormKey,
      WorkerStats, Network, Swallow, HardwareHook, Panic, Stop, vars

\* While the form is open, the field its index stands on takes what is typed.
THEOREM FocusIsShown == Spec => []FocusShown
<1>1. Init => FocusShown
  BY DEF Init, FocusShown
<1>2. TypeOK /\ FocusShown /\ [Next]_vars => FocusShown'
  BY NextFocus
<1> QED
  BY <1>1, <1>2, TypeCorrect, PTL DEF Spec

-----------------------------------------------------------------------------
(* The stored configuration. *)

\* initialConfig holds no node's address either, and saveConfig falls back on it.
NoRpcKept == ~IsRpc(cfg.addr) /\ NoRpcStored

\* saveConfig stores no node's address if initialConfig holds none.
LEMMA RowNotRpc ==
  ASSUME NEW c \in Credentials, ~IsRpc(c.addr), NEW in
  PROVE  ~IsRpc(Row(c, in).addr)
BY DEF Row, IsRpc

\* Every step keeps nodes' addresses out of initialConfig and the store.
LEMMA NextNoRpc == TypeOK /\ NoRpcKept /\ [Next]_vars => NoRpcKept'
<1> SUFFICES ASSUME TypeOK, NoRpcKept, [Next]_vars PROVE NoRpcKept'
  OBVIOUS
<1> USE DEF NoRpcKept, NoRpcStored, configVars, storeVars
<1>1. cfg \in Credentials
  BY DEF TypeOK
<1>2. ~IsRpc(Row(cfg, input).addr)
  BY <1>1, RowNotRpc
<1>3. CASE cfg' = cfg /\ stored' \in {stored, Row(cfg, input)}
  BY <1>2, <1>3
<1>4. CASE SaveForm
  <2>1. ~IsRpc(Typed.addr) \/ IsRpc(input[Addr])
    BY DEF Typed
  <2>2. cfg' \in {cfg, Typed} /\ (IsRpc(input[Addr]) => cfg' = cfg)
    BY <1>4 DEF SaveForm
  <2>3. stored' = cfg'
    BY <1>4 DEF SaveForm
  <2> QED
    BY <2>1, <2>2, <2>3
<1>5. CASE Panic
  <2>1. CASE Swallow
    BY <1>3, <2>1 DEF Swallow
  <2>2. CASE ~Swallow
    <3>1. cfg' = ClearedConfig /\ stored' = stored
      BY <1>5, <2>2 DEF Panic
    <3> QED
      BY <3>1 DEF ClearedConfig, IsRpc
  <2> QED
    BY <2>1, <2>2
<1> QED
  BY <1>3, <1>4, <1>5
  DEF Next, HardwareKey, Form, Messages, CommandReturns, OpenMenu, OpenOverlay,
      OpenForm, Quit, CloseHardware, ToggleSwitch, ToggleTurbo, PowerUp, PowerDown,
      MenuKey, CloseSecurity, ConfirmPanic, DeclinePanic, NextField, PreviousField,
      EnterField, Type, CancelForm, FormKey, WorkerStats, Network, Swallow,
      HardwareHook, Stop, vars

\* No sequence of form, menus, saves and panic stores a node's address in place
\* of the pool's.
THEOREM RpcNeverStored == Spec => []NoRpcStored
<1>1. Init => NoRpcKept
  <2>1. Init => cfg = [addr |-> "pool", user |-> "me"] /\ stored = cfg
    BY DEF Init
  <2> QED
    BY <2>1 DEF NoRpcKept, NoRpcStored, IsRpc
<1>2. TypeOK /\ NoRpcKept /\ [Next]_vars => NoRpcKept'
  BY NextNoRpc
<1>3. NoRpcKept => NoRpcStored
  BY DEF NoRpcKept
<1> QED
  BY <1>1, <1>2, <1>3, TypeCorrect, PTL DEF Spec

-----------------------------------------------------------------------------
(* What the form saved. *)

\* What makes later saves repeat the row of the form: it is closed, and its
\* inputs still are that row.
FormKept ==
  /\ SavedFormSticks
  /\ saved # {} => /\ "form" \notin open
                   /\ ~IsRpc(input[Addr])
                   /\ saved \subseteq {Typed}

\* Every step keeps what the form saved, or forgets that it did.
LEMMA NextFormKept == TypeOK /\ FormKept /\ [Next]_vars => FormKept'
<1> SUFFICES ASSUME TypeOK, FormKept, [Next]_vars PROVE FormKept'
  OBVIOUS
<1> USE DEF FormKept, SavedFormSticks, formVars, storeVars
<1>1. ~IsRpc(input[Addr]) => Row(cfg, input) = Typed
  BY DEF Row, Typed
<1>2. CASE /\ open' \subseteq open \union {"hardware", "security", "confirm"}
           /\ input' = input /\ saved' = saved
           /\ stored' \in {stored, Row(cfg, input)}
  <2>1. Typed' = Typed
    BY <1>2 DEF Typed
  <2>2. saved # {} => Row(cfg, input) = Typed
    BY <1>1
  <2>3. saved' \subseteq {stored'}
    BY <1>2, <2>2
  <2> QED
    BY <1>2, <2>1, <2>3
<1>3. CASE saved' = {}
  BY <1>3
<1>4. ASSUME NEW t \in {"typed", "rpc"}, Type(t) PROVE FormKept'
  BY <1>4 DEF Type, FormKey
<1>5. CASE SaveForm
  <2>1. Typed' = Typed /\ input' = input
    BY <1>5 DEF SaveForm, Typed
  <2>2. CASE IsRpc(input[Addr])
    BY <1>3, <1>5, <2>2 DEF SaveForm
  <2>3. CASE ~IsRpc(input[Addr])
    <3>1. saved' = {Typed} /\ stored' = Typed
      BY <1>5, <2>3 DEF SaveForm
    <3>2. "form" \notin open'
      BY <1>5 DEF SaveForm, CloseForm
    <3> QED
      BY <2>1, <2>3, <3>1, <3>2
  <2> QED
    BY <2>2, <2>3
<1>6. CASE Panic
  BY <1>2, <1>3, <1>6 DEF Panic, Swallow
<1> QED
  BY <1>2, <1>3, <1>4, <1>5, <1>6
  DEF Next, HardwareKey, Form, Messages, CommandReturns, OpenMenu, OpenOverlay,
      OpenForm, Quit, CloseHardware, ToggleSwitch, ToggleTurbo, PowerUp, PowerDown,
      MenuKey, CloseSecurity, ConfirmPanic, DeclinePanic, NextField, PreviousField,
      EnterField, CancelForm, CloseForm, FormKey, WorkerStats, Network, Swallow,
      HardwareHook, Stop, vars

\* Once the form has saved a pool's address and user, every later save stores
\* them again, until the form is opened or the panic clears it.
THEOREM SavedFormIsKept == Spec => []SavedFormSticks
<1>1. Init => FormKept
  <2>1. Init => saved = {}
    BY DEF Init
  <2> QED
    BY <2>1 DEF FormKept, SavedFormSticks
<1>2. TypeOK /\ FormKept /\ [Next]_vars => FormKept'
  BY NextFormKept
<1>3. FormKept => SavedFormSticks
  BY DEF FormKept
<1> QED
  BY <1>1, <1>2, <1>3, TypeCorrect, PTL DEF Spec

=============================================================================
