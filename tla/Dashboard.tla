------------------------------ MODULE Dashboard ------------------------------
(***************************************************************************)
(* The terminal dashboard (dashboard.go, hardware_menu.go,                 *)
(* security_menu.go): one event loop that hands every key press and every  *)
(* message of another goroutine to Update, which gives it to the overlay   *)
(* in front, if there is one, and handles it itself otherwise.  A command  *)
(* that Update returns runs in a goroutine of its own, and its message     *)
(* comes back to Update later, in any order and behind any overlay.        *)
(*                                                                         *)
(* The settings with a hook in the backend and no arithmetic (NUMA, huge   *)
(* pages, affinity) are one switch.  A temperature is its position towards *)
(* the thermal limit.  The cursor of the menu, the views that differ only  *)
(* in what they draw, the logs and the statistics are left out; of the row *)
(* in the configuration store only the credentials are kept.               *)
(***************************************************************************)
EXTENDS Naturals

CONSTANTS MaxPower,   \* 100, the largest power limit
          PowerStep,  \* 5, what a key or the thermal protection changes
          NumInputs,  \* the fields of the configuration form, 8
          MaxEvents   \* bound: key presses and messages from outside

ASSUME MaxPowerAssumption  == MaxPower \in Nat
ASSUME PowerStepAssumption == PowerStep \in Nat \ {0} /\ PowerStep <= MaxPower
ASSUME NumInputsAssumption == NumInputs \in Nat /\ NumInputs >= 2
ASSUME MaxEventsAssumption == MaxEvents \in Nat

\* The fields that matter here: the address of the pool or node and the user.
Inputs == 0 .. NumInputs - 1
Addr   == 0
User   == 1

\* An address or a user, told apart by where it comes from: the configuration
\* ("pool", "me"), the node of a solo miner ("rpc"), or the keyboard.
Text     == {"", "pool", "rpc", "me", "typed", "[CLEARED]", "DISCONNECTED"}
IsRpc(t) == t = "rpc"

Credentials == [addr : Text, user : Text]

Overlays == {"hardware", "security", "confirm", "form"}
Commands == {"switch", "power", "other", "panic", "quit"}
Temperatures == {"none", "cold", "in range", "warm", "hot"}

VARIABLES
  open,      \* showHardwareMenu, showSecurityMenu, showPanicConfirm, ViewConfig
  power,     \* hwState.PowerLimit
  turbo,     \* hwState.TurboModeEnabled
  switch,    \* hwState.NumaEnabled, HugepagesEnabled, AffinityEnabled
  limit,     \* the backend's globalPowerLimit
  applied,   \* the backend's side of switch
  focus,     \* focusIndex; NumInputs is the button "Save & Exit"
  focused,   \* the inputs that have the focus and take what is typed
  input,     \* the inputs' values
  target,    \* target
  cfg,       \* initialConfig
  stored,    \* the row in the configuration store
  panicMode, \* panicMode
  inflight,  \* commands whose message has not come back yet
  running,   \* the event loop runs
  saved,     \* history: the row the form saved, {} once the form opens again
  events     \* events from outside so far

hardwareVars == <<power, turbo, switch>>
backendVars  == <<limit, applied>>
formVars     == <<focus, focused, input>>
configVars   == <<target, cfg>>
storeVars    == <<stored, saved>>
loopVars     == <<panicMode, running>>
vars == <<open, hardwareVars, backendVars, formVars, configVars, storeVars,
          loopVars, inflight, events>>

TypeOK ==
  /\ open \subseteq Overlays
  /\ power \in Nat
  /\ turbo \in BOOLEAN /\ switch \in BOOLEAN
  /\ limit \in Nat
  /\ applied \in BOOLEAN
  /\ focus \in 0 .. NumInputs
  /\ focused \subseteq Inputs
  /\ input \in [Inputs -> Text]
  /\ target \in Text
  /\ cfg \in Credentials
  /\ stored \in Credentials
  /\ panicMode \in BOOLEAN
  /\ inflight \in [Commands -> Nat]
  /\ running \in BOOLEAN
  /\ saved \subseteq Credentials
  /\ events \in Nat

Init ==
  /\ open = {}
  /\ power \in 1 .. MaxPower /\ limit = power
  /\ turbo \in BOOLEAN
  /\ switch \in BOOLEAN /\ applied = switch
  /\ focus = 0 /\ focused = {}
  /\ cfg = [addr |-> "pool", user |-> "me"]
  /\ input = [i \in Inputs |-> IF i = Addr THEN cfg.addr
                               ELSE IF i = User THEN cfg.user ELSE ""]
  /\ target = ""
  /\ stored = cfg
  /\ panicMode = FALSE
  /\ inflight = [c \in Commands |-> 0]
  /\ running = TRUE
  /\ saved = {}
  /\ events = 0

-----------------------------------------------------------------------------

\* SetGlobalPowerLimit keeps the backend's limit within 1 .. MaxPower.
Clamp(p) == IF p < 1 THEN 1 ELSE IF p > MaxPower THEN MaxPower ELSE p

\* The row saveConfig writes, from the inputs and not from what was confirmed:
\* the address of a node is not stored in place of the pool's.
Row(c, in) == [addr |-> IF IsRpc(in[Addr]) THEN c.addr ELSE in[Addr],
               user |-> in[User]]

Send(c) == inflight' = [inflight EXCEPT ![c] = @ + 1]

\* Something happens outside: a key press, or a message of another goroutine.
Event == running /\ events < MaxEvents /\ events' = events + 1

\* A message that Update gives to an overlay without a use for it; behind the
\* hardware menu the settings are saved all the same.
Swallow ==
  /\ open # {}
  /\ stored' = IF "hardware" \in open THEN Row(cfg, input) ELSE stored
  /\ UNCHANGED <<open, hardwareVars, backendVars, formVars, configVars, saved,
                 loopVars>>

-----------------------------------------------------------------------------
(* Keys while no overlay is open. *)

OpenOverlay(o) ==
  /\ Event /\ open = {}
  /\ open' = {o}
  /\ UNCHANGED <<hardwareVars, backendVars, formVars, configVars, storeVars,
                 loopVars, inflight>>

\* "m", "ctrl+s" and "P"
OpenMenu == \E o \in {"hardware", "security", "confirm"} : OpenOverlay(o)

FilledIn == [input EXCEPT ![Addr] = target, ![User] = cfg.user]

\* "c": the address is the target shown, not the configured one; the field that
\* had the focus keeps it.
OpenForm ==
  /\ Event /\ open = {}
  /\ open' = {"form"}
  /\ focus' = 0 /\ focused' = focused \union {0}
  /\ input' = FilledIn
  /\ saved' = {}
  /\ UNCHANGED <<hardwareVars, backendVars, configVars, stored, loopVars, inflight>>

\* "q"
Quit ==
  /\ Event /\ open = {}
  /\ stored' = Row(cfg, input)
  /\ Send("quit")
  /\ UNCHANGED <<open, hardwareVars, backendVars, formVars, configVars, saved,
                 loopVars>>

-----------------------------------------------------------------------------
(* The menus.  Every key in the hardware menu also saves the settings. *)

MenuKey ==
  /\ Event /\ "hardware" \in open
  /\ stored' = Row(cfg, input)
  /\ UNCHANGED <<backendVars, formVars, configVars, saved, loopVars>>

CloseHardware ==
  /\ MenuKey
  /\ open' = open \ {"hardware"}
  /\ UNCHANGED <<hardwareVars, inflight>>

ToggleSwitch ==
  /\ MenuKey
  /\ switch' = ~switch
  /\ Send("switch")
  /\ UNCHANGED <<open, power, turbo>>

\* Turbo mode, and with it every setting whose message has no hook.
ToggleTurbo ==
  /\ MenuKey
  /\ turbo' = ~turbo
  /\ Send("other")
  /\ UNCHANGED <<open, power, switch>>

\* Mutant: the limit is not looked at.
PowerUpUnbounded ==
  /\ MenuKey
  /\ power' = power + PowerStep
  /\ Send("power")
  /\ UNCHANGED <<open, turbo, switch>>

PowerUp ==
  /\ MenuKey
  /\ power < MaxPower
  /\ power' = power + PowerStep
  /\ Send("power")
  /\ UNCHANGED <<open, turbo, switch>>

PowerDown ==
  /\ MenuKey
  /\ power > PowerStep
  /\ power' = power - PowerStep
  /\ Send("power")
  /\ UNCHANGED <<open, turbo, switch>>

HardwareKey == CloseHardware \/ ToggleSwitch \/ ToggleTurbo \/ PowerUp \/ PowerDown

\* "ctrl+s" and "esc"
CloseSecurity ==
  /\ Event /\ "security" \in open
  /\ open' = open \ {"security"}
  /\ UNCHANGED <<hardwareVars, backendVars, formVars, configVars, storeVars,
                 loopVars, inflight>>

\* "y": the panic is a command, and the question stays open.
ConfirmPanic ==
  /\ Event /\ "confirm" \in open
  /\ Send("panic")
  /\ UNCHANGED <<open, hardwareVars, backendVars, formVars, configVars, storeVars,
                 loopVars>>

\* "n" and "esc"
DeclinePanic ==
  /\ Event /\ "confirm" \in open
  /\ open' = open \ {"confirm"}
  /\ UNCHANGED <<hardwareVars, backendVars, formVars, configVars, storeVars,
                 loopVars, inflight>>

-----------------------------------------------------------------------------
(* The configuration form. *)

FormKey ==
  /\ Event /\ "form" \in open
  /\ UNCHANGED <<hardwareVars, backendVars, target, loopVars, inflight>>

CloseForm == open' = open \ {"form"}

\* Focus() for the field in question and Blur() for all the others.
Refocus(f) == focus' = f /\ focused' = {f} \intersect Inputs

\* Mutant: the index is not wrapped at the button.
NextFieldUnwrapped ==
  /\ FormKey
  /\ Refocus(focus + 1)
  /\ UNCHANGED <<open, input, cfg, storeVars>>

\* "tab" and "down"
NextField ==
  /\ FormKey
  /\ Refocus(IF focus = NumInputs THEN 0 ELSE focus + 1)
  /\ UNCHANGED <<open, input, cfg, storeVars>>

\* "shift+tab" and "up"
PreviousField ==
  /\ FormKey
  /\ Refocus(IF focus = 0 THEN NumInputs ELSE focus - 1)
  /\ UNCHANGED <<open, input, cfg, storeVars>>

\* "enter" in a field
EnterField ==
  /\ FormKey
  /\ focus < NumInputs
  /\ Refocus(focus + 1)
  /\ UNCHANGED <<open, input, cfg, storeVars>>

\* A text goes to every field that has the focus.
Type(t) ==
  /\ FormKey
  /\ input' = [i \in Inputs |-> IF i \in focused THEN t ELSE input[i]]
  /\ UNCHANGED <<open, focus, focused, cfg, storeVars>>

\* "esc": the inputs keep what was typed.
CancelForm ==
  /\ FormKey
  /\ CloseForm
  /\ UNCHANGED <<formVars, cfg, storeVars>>

Typed == [addr |-> input[Addr], user |-> input[User]]

\* Mutant: the address of a node is taken over like that of a pool.
SaveFormAnyAddress ==
  /\ FormKey
  /\ focus = NumInputs
  /\ CloseForm
  /\ cfg' = Typed
  /\ stored' = cfg'
  /\ saved' = IF IsRpc(input[Addr]) THEN {} ELSE {Typed}
  /\ UNCHANGED formVars

\* Mutant: the configuration is stored before it takes the form over.
SaveFormEarly ==
  /\ FormKey
  /\ focus = NumInputs
  /\ CloseForm
  /\ cfg' = IF IsRpc(input[Addr]) THEN cfg ELSE Typed
  /\ stored' = cfg
  /\ saved' = IF IsRpc(input[Addr]) THEN {} ELSE {Typed}
  /\ UNCHANGED formVars

\* "enter" on the button: the form goes into initialConfig, which is stored.
SaveForm ==
  /\ FormKey
  /\ focus = NumInputs
  /\ CloseForm
  /\ cfg' = IF IsRpc(input[Addr]) THEN cfg ELSE Typed
  /\ stored' = cfg'
  /\ saved' = IF IsRpc(input[Addr]) THEN {} ELSE {Typed}
  /\ UNCHANGED formVars

Form ==
  \/ NextField \/ PreviousField \/ EnterField
  \/ \E t \in {"typed", "rpc"} : Type(t)
  \/ CancelForm \/ SaveForm

-----------------------------------------------------------------------------
(* Messages of other goroutines, and of the commands. *)

\* Turbo mode moves the limit by one, towards a temperature just below the limit.
AfterTurbo(t) ==
  IF turbo /\ t = "cold" /\ power < MaxPower THEN power + 1
  ELSE IF turbo /\ t \in {"warm", "hot"} /\ power > PowerStep THEN power - 1
  ELSE power

\* Above the limit the thermal protection takes a whole step more.
AfterProtection(t) ==
  LET p == AfterTurbo(t)
  IN  IF t = "hot" /\ p > 2 * PowerStep THEN p - PowerStep ELSE p

WorkerStats(t) ==
  /\ Event
  /\ UNCHANGED inflight
  /\ \/ /\ open = {}
        /\ power' = AfterProtection(t)
        /\ limit' = IF power' = power THEN limit ELSE Clamp(power')
        /\ UNCHANGED <<open, turbo, switch, applied, formVars, configVars,
                       storeVars, loopVars>>
     \/ Swallow

\* NetworkMsg: a pool or, for a solo miner, a node.
Network(t) ==
  /\ Event
  /\ UNCHANGED inflight
  /\ \/ /\ open = {}
        /\ target' = t
        /\ UNCHANGED <<open, hardwareVars, backendVars, formVars, cfg, storeVars,
                       loopVars>>
     \/ Swallow

\* The message of command c comes back.
Received(c) ==
  /\ running
  /\ inflight[c] > 0
  /\ UNCHANGED events

\* ToggleHardwareMsg: a hook sets the backend to what the model says by now.
HardwareHook(c) ==
  /\ Received(c)
  /\ inflight' = [inflight EXCEPT ![c] = @ - 1]
  /\ \/ /\ open = {}
        /\ limit' = IF c = "power" THEN Clamp(power) ELSE limit
        /\ applied' = IF c = "switch" THEN switch ELSE applied
        /\ UNCHANGED <<open, hardwareVars, formVars, configVars, storeVars, loopVars>>
     \/ Swallow

ClearedConfig == [addr |-> "[CLEARED]", user |-> "[CLEARED]"]

\* PanicMsg: initialConfig and the inputs are cleared and the program quits, if
\* no overlay is in front; the question itself is one until it is declined.
Panic ==
  /\ Received("panic")
  /\ \/ /\ open = {}
        /\ panicMode' = TRUE
        /\ target' = "DISCONNECTED"
        /\ cfg' = ClearedConfig
        /\ input' = [i \in Inputs |-> ""]
        /\ saved' = {}
        /\ inflight' = [inflight EXCEPT !["panic"] = @ - 1, !["quit"] = @ + 1]
        /\ UNCHANGED <<open, hardwareVars, backendVars, focus, focused, stored,
                       running>>
     \/ /\ inflight' = [inflight EXCEPT !["panic"] = @ - 1]
        /\ Swallow

\* Mutant: Update gets the message that ends the loop, and an overlay swallows it.
StopInUpdate ==
  /\ Received("quit")
  /\ inflight' = [inflight EXCEPT !["quit"] = @ - 1]
  /\ \/ /\ open = {}
        /\ running' = FALSE
        /\ stored' = Row(cfg, input)
        /\ UNCHANGED <<open, hardwareVars, backendVars, formVars, configVars, saved,
                       panicMode>>
     \/ Swallow

\* The message of tea.Quit ends the loop before Update sees it, and App.Run
\* saves the final model.
Stop ==
  /\ Received("quit")
  /\ inflight' = [inflight EXCEPT !["quit"] = @ - 1]
  /\ running' = FALSE
  /\ stored' = Row(cfg, input)
  /\ UNCHANGED <<open, hardwareVars, backendVars, formVars, configVars, saved,
                 panicMode>>

Messages ==
  \/ \E t \in Temperatures : WorkerStats(t)
  \/ \E t \in {"pool", "rpc"} : Network(t)

\* A command has run and its message is handled.
CommandReturns ==
  \/ \E c \in {"switch", "power", "other"} : HardwareHook(c)
  \/ Panic
  \/ Stop

Next ==
  \/ OpenMenu \/ OpenForm \/ Quit
  \/ HardwareKey \/ CloseSecurity \/ ConfirmPanic \/ DeclinePanic
  \/ Form
  \/ Messages
  \/ CommandReturns

\* Every command's goroutine runs and its message is handled at last, since the
\* loop takes messages as they come.  The user and the miner owe nothing.
Spec == /\ Init /\ [][Next]_vars
        /\ \A c \in {"switch", "power", "other"} : WF_vars(HardwareHook(c))
        /\ WF_vars(Panic) /\ WF_vars(Stop)

-----------------------------------------------------------------------------
(* Safety. *)

\* The keys, turbo mode and the thermal protection move the power limit by
\* different steps from wherever the others left it: it never reaches 0, and
\* exceeds its maximum by less than one step, which the backend cuts off.
PowerInRange ==
  /\ power \in 1 .. MaxPower + PowerStep - 1
  /\ limit \in 1 .. MaxPower

\* While the form is open, what is typed reaches the field the form's index
\* stands on, however the user got there.
FocusShown == "form" \in open /\ focus < NumInputs => focus \in focused

\* "Never save HTTP RPC addresses into Stratum config field" (saveConfig): over
\* the form, initialConfig, the inputs and every save, the address of a node
\* never gets into the stored configuration.
NoRpcStored == ~IsRpc(stored.addr)

\* What the form saved is what the store holds until the form is opened again or
\* the panic clears it, although later saves take the inputs instead.
SavedFormSticks == saved \subseteq {stored}

\* "Trigger backend hooks based on TUI actions" (Update): when no hook is still
\* to come, the backend does what the menu shows.
HooksFollowMenu ==
  inflight["switch"] = 0 /\ inflight["power"] = 0
    => applied = switch /\ limit = Clamp(power)

-----------------------------------------------------------------------------
(* Liveness. *)

\* Once the user has quit, the program ends, whatever overlay was opened since.
QuitEnds == (inflight["quit"] > 0) ~> ~running
=============================================================================
