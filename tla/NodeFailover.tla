---------------------------- MODULE NodeFailover ----------------------------
(***************************************************************************)
(* The module-level state machine of network/nodeFailover.ts: which node   *)
(* the client talks to, the interval that probes the primary while the     *)
(* client is on the fallback, and the withFailover calls and health        *)
(* probes that are in flight when that state changes.                      *)
(*                                                                         *)
(* JavaScript runs one callback at a time, so an action is the code        *)
(* between two awaits.  What a callback captured before an await (the URLs *)
(* withFailover reads at entry, the host a probe was sent to) is kept in   *)
(* the record of the call or probe; everything else is re-read from the    *)
(* module's variables when the callback resumes, exactly where the code    *)
(* re-reads it.                                                            *)
(***************************************************************************)
EXTENDS Naturals

CONSTANTS
  Node1, Node2,    \* NODE1_HOST and NODE2_HOST, the two preset nodes
  CustomOrigins,   \* origins of the acceptable custom URLs a user may enter
  BadUrls,         \* custom URLs that are missing, unparseable or not https
  GasLimits,       \* values customNodeGasLimit may take
  DefaultGasLimit, \* DEFAULT_GAS_LIMIT
  PresetGasLimit,  \* the entry of NODE_GAS_LIMITS, the same for both presets
  Calls,           \* withFailover invocations that may be in flight together
  Boots,           \* initNodeFailover invocations that may be in flight together
  Timers,          \* handles setInterval may return
  NoTimer,         \* null
  NoHost,          \* no health probe is in flight
  MaxConfig        \* bound on successful reconfigurations

Hosts == {Node1, Node2} \cup CustomOrigins

ASSUME HostAssumption == Node1 # Node2 /\ NoHost \notin Hosts
ASSUME TimerAssumption == Timers # {} /\ NoTimer \notin Timers
ASSUME GasAssumption == GasLimits \subseteq Nat /\ DefaultGasLimit \in GasLimits
ASSUME BoundAssumption == MaxConfig \in Nat

VARIABLES
  primaryHost,     \* PRIMARY_HOST
  fallbackHost,    \* FALLBACK_HOST
  customGasLimit,  \* customGasLimit
  currentHost,     \* currentHost
  retryTimer,      \* retryTimer: a handle or null
  intervals,       \* the handles whose interval is live in the event loop
  calls,           \* withFailover invocations, by caller
  tick,            \* the host the retry loop's isHealthy is waiting for
  boots,           \* the hosts the start-up checks' isHealthy are waiting for
  selected,        \* history: the last accepted `selected` argument
  epoch,           \* history: number of accepted reconfigurations
  rejected         \* history: a setNodeConfig threw in this epoch

configVars == <<primaryHost, fallbackHost, customGasLimit, selected, epoch>>
switchVars == <<currentHost, retryTimer, intervals>>
probeVars == <<tick, boots>>
vars == <<configVars, switchVars, calls, probeVars, rejected>>

-----------------------------------------------------------------------------
(* A call in flight.  Its last field is history: the configuration it was  *)
(* entered under.                                                          *)

NoCall  == [phase |-> "idle", attempted |-> Node2, attemptedPrimary |-> Node2,
            target |-> Node2, epoch |-> 0]

CallRecords == [phase : {"idle", "first", "retry"}, attempted : Hosts,
                attemptedPrimary : Hosts, target : Hosts,
                epoch : 0..MaxConfig]

(* How the caller's fn settles: resolved, rejected with one of the errors  *)
(* withFailover recognises as a network error, rejected with another one.  *)
Outcomes == {"ok", "network", "other"}

InFlight(c) == calls[c].phase # "idle"

(* getActiveGasLimit *)
ActiveGasLimit ==
  IF currentHost \in {Node1, Node2} THEN PresetGasLimit ELSE customGasLimit

Init ==
  /\ primaryHost = Node2
  /\ fallbackHost = Node1
  /\ customGasLimit = DefaultGasLimit
  /\ currentHost = Node2
  /\ retryTimer = NoTimer
  /\ intervals = {}
  /\ calls = [c \in Calls |-> NoCall]
  /\ tick = NoHost
  /\ boots = [b \in Boots |-> NoHost]
  /\ selected = "node2"
  /\ epoch = 0
  /\ rejected = FALSE

-----------------------------------------------------------------------------
(* The retry loop and the two switches; each is called synchronously from  *)
(* an action below and says what becomes of switchVars.                    *)

(* Variants named ...Bug are what a plausible mistake would turn the       *)
(* definition after them into; no specification uses them.                 *)
StopRetryLoopBug ==   \* clearInterval is forgotten
  /\ retryTimer' = NoTimer
  /\ intervals' = intervals

StopRetryLoop ==
  /\ retryTimer' = NoTimer
  /\ intervals' = intervals \ {retryTimer}

StartRetryLoop ==
  \/ /\ retryTimer # NoTimer
     /\ UNCHANGED <<retryTimer, intervals>>
  \/ /\ retryTimer = NoTimer
     /\ \E t \in Timers \ intervals :
          /\ retryTimer' = t
          /\ intervals' = intervals \cup {t}

SwitchToFallbackBug ==   \* the retry loop is not started
  /\ currentHost' = fallbackHost
  /\ UNCHANGED <<retryTimer, intervals>>

SwitchToFallback ==
  \/ /\ currentHost = fallbackHost
     /\ UNCHANGED switchVars
  \/ /\ currentHost # fallbackHost
     /\ currentHost' = fallbackHost
     /\ StartRetryLoop

SwitchToPrimaryBug ==   \* the retry loop is not stopped
  /\ currentHost' = primaryHost
  /\ UNCHANGED <<retryTimer, intervals>>

SwitchToPrimary ==
  \/ /\ currentHost = primaryHost
     /\ UNCHANGED switchVars
  \/ /\ currentHost # primaryHost
     /\ currentHost' = primaryHost
     /\ StopRetryLoop

-----------------------------------------------------------------------------
(* withFailover *)

(* Entry: both URLs are captured and fn is called on the active node. *)
BeginCall(c) ==
  /\ ~InFlight(c)
  /\ calls' = [calls EXCEPT ![c] =
       [phase |-> "first", attempted |-> currentHost,
        attemptedPrimary |-> primaryHost, target |-> currentHost,
        epoch |-> epoch]]
  /\ UNCHANGED <<configVars, switchVars, probeVars, rejected>>

RetryableBug(c) == calls[c].phase = "first"   \* wherever the call was made

(* The catch block retries: a network error, on what was the primary when  *)
(* the call was entered.                                                   *)
Retryable(c) ==
  /\ calls[c].phase = "first"
  /\ calls[c].attempted = calls[c].attemptedPrimary

(* The catch block's recovery path: switch, then fn again on whatever node *)
(* is active after the switch.                                             *)
RetryCall(c) ==
  /\ Retryable(c)
  /\ SwitchToFallback
  /\ calls' = [calls EXCEPT ![c].phase = "retry", ![c].target = currentHost']
  /\ UNCHANGED <<configVars, probeVars, rejected>>

(* Every other way a call ends: fn resolved, or its error is rethrown. *)
SettleCall(c, outcome) ==
  /\ InFlight(c)
  /\ ~(outcome = "network" /\ Retryable(c))
  /\ calls' = [calls EXCEPT ![c] = NoCall]
  /\ UNCHANGED <<configVars, switchVars, probeVars, rejected>>

-----------------------------------------------------------------------------
(* isHealthy and its two callers.  A probe is sent to the primary of the   *)
(* moment; by the time it is answered another node may be the primary, and *)
(* the interval that sent it may have been cleared.                        *)

TickFiresBug ==   \* the active node is probed instead of the primary
  /\ intervals # {}
  /\ tick = NoHost
  /\ tick' = currentHost
  /\ UNCHANGED <<configVars, switchVars, calls, boots, rejected>>

TickSkippedBug ==   \* no probe while a call is in flight
  /\ intervals # {}
  /\ tick = NoHost
  /\ \A c \in Calls : ~InFlight(c)
  /\ tick' = primaryHost
  /\ UNCHANGED <<configVars, switchVars, calls, boots, rejected>>

(* An interval fires.  Its period (30 s) is ten times the time isHealthy   *)
(* takes at most (3 s), and a new interval first fires a period after it   *)
(* was armed, so the probe of the previous tick is always answered first.  *)
TickFires ==
  /\ intervals # {}
  /\ tick = NoHost
  /\ tick' = primaryHost
  /\ UNCHANGED <<configVars, switchVars, calls, boots, rejected>>

TickHealthy ==
  /\ tick # NoHost
  /\ tick' = NoHost
  /\ SwitchToPrimary
  /\ UNCHANGED <<configVars, calls, boots, rejected>>

(* An error status, a failed fetch, or one aborted at its timeout. *)
TickUnhealthy ==
  /\ tick # NoHost
  /\ tick' = NoHost
  /\ UNCHANGED <<configVars, switchVars, calls, boots, rejected>>

InitNodeFailover(b) ==
  /\ boots[b] = NoHost
  /\ boots' = [boots EXCEPT ![b] = primaryHost]
  /\ UNCHANGED <<configVars, switchVars, calls, tick, rejected>>

BootHealthy(b) ==
  /\ boots[b] # NoHost
  /\ boots' = [boots EXCEPT ![b] = NoHost]
  /\ UNCHANGED <<configVars, switchVars, calls, tick, rejected>>

BootUnhealthy(b) ==
  /\ boots[b] # NoHost
  /\ boots' = [boots EXCEPT ![b] = NoHost]
  /\ SwitchToFallback
  /\ UNCHANGED <<configVars, calls, tick, rejected>>

-----------------------------------------------------------------------------
(* setNodeConfig and resetNodeFailover *)

AssignConfig(kind, primary, fallback, gas) ==
  /\ primaryHost' = primary
  /\ fallbackHost' = fallback
  /\ customGasLimit' = gas
  /\ currentHost' = primary
  /\ selected' = kind
  /\ rejected' = FALSE

SetNodeConfigBug ==   \* a custom node falls back to node2
  /\ epoch < MaxConfig
  /\ epoch' = epoch + 1
  /\ StopRetryLoop
  /\ \E gas \in GasLimits :
       \/ AssignConfig("node1", Node1, Node2, gas)
       \/ AssignConfig("node2", Node2, Node1, gas)
       \/ \E origin \in CustomOrigins : AssignConfig("custom", origin, Node2, gas)
  /\ UNCHANGED <<calls, probeVars>>

(* The accepted arguments.  A custom node is its own fallback. *)
SetNodeConfig ==
  /\ epoch < MaxConfig
  /\ epoch' = epoch + 1
  /\ StopRetryLoop
  /\ \E gas \in GasLimits :
       \/ AssignConfig("node1", Node1, Node2, gas)
       \/ AssignConfig("node2", Node2, Node1, gas)
       \/ \E origin \in CustomOrigins : AssignConfig("custom", origin, origin, gas)
  /\ UNCHANGED <<calls, probeVars>>

RejectNodeConfigBug ==   \* any string is assigned unvalidated
  /\ epoch < MaxConfig
  /\ epoch' = epoch + 1
  /\ StopRetryLoop
  /\ \E url \in BadUrls : AssignConfig("custom", url, url, DefaultGasLimit)
  /\ UNCHANGED <<calls, probeVars>>

(* A custom URL that does not validate: the retry loop is stopped before   *)
(* the TypeError is thrown, and nothing else is assigned.                  *)
RejectNodeConfig ==
  /\ \E url \in BadUrls : StopRetryLoop
  /\ rejected' = TRUE
  /\ UNCHANGED <<configVars, currentHost, calls, probeVars>>

ResetNodeFailover ==
  /\ epoch < MaxConfig
  /\ epoch' = epoch + 1
  /\ StopRetryLoop
  /\ AssignConfig("node2", Node2, Node1, DefaultGasLimit)
  /\ UNCHANGED <<calls, probeVars>>

-----------------------------------------------------------------------------
(* What happens beside the calls: the retry loop, start-up checks, and the *)
(* consumer's settings.                                                    *)
Background ==
  \/ TickFires \/ TickHealthy \/ TickUnhealthy
  \/ \E b \in Boots : InitNodeFailover(b) \/ BootHealthy(b) \/ BootUnhealthy(b)
  \/ SetNodeConfig
  \/ RejectNodeConfig
  \/ ResetNodeFailover

Next ==
  \/ \E c \in Calls : BeginCall(c) \/ RetryCall(c)
  \/ \E c \in Calls, outcome \in Outcomes : SettleCall(c, outcome)
  \/ Background

Spec == Init /\ [][Next]_vars

(* The event loop runs: a live interval keeps firing, and isHealthy always *)
(* resolves, because its fetch is aborted after HEALTH_TIMEOUT_MS.         *)
Fairness == WF_vars(TickFires) /\ WF_vars(TickHealthy \/ TickUnhealthy)

FairSpec == Spec /\ Fairness

-----------------------------------------------------------------------------
(* Properties *)

(* Every variable holds a value the code can put there. *)
TypeOK ==
  /\ primaryHost \in Hosts
  /\ fallbackHost \in Hosts
  /\ customGasLimit \in GasLimits
  /\ currentHost \in Hosts
  /\ retryTimer \in Timers \cup {NoTimer}
  /\ intervals \subseteq Timers
  /\ calls \in [Calls -> CallRecords]
  /\ tick \in Hosts \cup {NoHost}
  /\ boots \in [Boots -> Hosts \cup {NoHost}]
  /\ selected \in {"node1", "node2", "custom"}
  /\ epoch \in 0..MaxConfig
  /\ rejected \in BOOLEAN

(* The active node is one of the two configured ones: no callback that was *)
(* suspended across a setNodeConfig leaves the client on a node of the     *)
(* configuration the user replaced.                                        *)
ActiveIsConfigured == currentHost \in {primaryHost, fallbackHost}

(* No interval is leaked: the only live one is the one retryTimer holds, so *)
(* stopRetryLoop can always stop the probing, whatever switches, stale     *)
(* probe answers and reconfigurations came before.                         *)
NoLeakedInterval == intervals = {retryTimer} \ {NoTimer}

(* The primary is probed only while the client is away from it: never on   *)
(* the primary, and never under a custom configuration.                    *)
ProbesOnlyOnFallback ==
  retryTimer # NoTimer => currentHost = fallbackHost /\ currentHost # primaryHost

(* Away from the primary the retry loop is armed, unless a setNodeConfig   *)
(* call threw since the configuration was set (see RetriesOnFallback).     *)
StrandedOnlyByRejection ==
  currentHost # primaryHost => retryTimer # NoTimer \/ rejected

(* The discipline of the one retry loop, whatever calls, probes, start-up  *)
(* checks and settings come in between: its interval can always be         *)
(* stopped, it runs only away from the primary, and there it does run      *)
(* unless a setNodeConfig threw (nodeFailover.ts:71-87).                   *)
RetryLoopDiscipline ==
  NoLeakedInterval /\ ProbesOnlyOnFallback /\ StrandedOnlyByRejection

(* "Retry primary every 30s when on fallback" (nodeFailover.ts:8), for     *)
(* every call of the exported functions.                                   *)
RetriesOnFallback == currentHost # primaryHost => retryTimer # NoTimer

(* A custom node is its own fallback: under it the client never moves, no  *)
(* loop runs, and no call entered under it is sent anywhere else.          *)
CustomStaysHome ==
  selected = "custom" =>
    /\ currentHost = primaryHost
    /\ retryTimer = NoTimer
    /\ \A c \in Calls : InFlight(c) /\ calls[c].epoch = epoch
                         => calls[c].target = primaryHost

(* A retry under the configuration the call was entered under follows a    *)
(* failure of the primary and is made on the fallback.                     *)
RetryGoesToFallback ==
  \A c \in Calls :
    calls[c].phase = "retry" /\ calls[c].epoch = epoch
      => calls[c].attempted = primaryHost /\ calls[c].target = fallbackHost

(* What the safety properties above rest on: a custom configuration has    *)
(* one node, and a call entered under the configuration in force captured  *)
(* that configuration's primary.                                           *)
CustomIsOwnFallback == selected = "custom" => fallbackHost = primaryHost

CapturedAtEntry ==
  \A c \in Calls : InFlight(c) =>
    /\ calls[c].epoch <= epoch
    /\ calls[c].phase = "first" => calls[c].target = calls[c].attempted
    /\ calls[c].epoch = epoch =>
         /\ calls[c].attemptedPrimary = primaryHost
         /\ selected = "custom" => calls[c].target = primaryHost

(* Until the first reconfiguration, every probe is one of the primary. *)
ProbesPrimary ==
  epoch = 0 => /\ tick \in {NoHost, primaryHost}
               /\ \A b \in Boots : boots[b] \in {NoHost, primaryHost}

(* The inductive invariant of FailoverProofs. *)
IInv ==
  /\ TypeOK
  /\ ActiveIsConfigured
  /\ NoLeakedInterval
  /\ ProbesOnlyOnFallback
  /\ StrandedOnlyByRejection
  /\ CustomStaysHome
  /\ RetryGoesToFallback
  /\ CustomIsOwnFallback
  /\ CapturedAtEntry

(* What moves the client, and what should have. *)
LeavesPrimary ==
  currentHost = primaryHost /\ primaryHost' = primaryHost /\ currentHost' # primaryHost

PrimaryFailed ==
  \/ \E c \in Calls : /\ calls[c].phase = "first"
                       /\ calls'[c].phase = "retry"
                       /\ calls[c].attempted = primaryHost
  \/ \E b \in Boots : boots'[b] # boots[b] /\ boots[b] = primaryHost

ReturnsUntold ==
  currentHost # primaryHost /\ epoch' = epoch /\ currentHost' = primaryHost

PrimaryRecovered == tick = primaryHost /\ tick' = NoHost

(* Whenever the client moves off the primary, some call or start-up check  *)
(* has just failed on that very node ("Primary node down", line 53).       *)
LeavesPrimaryOnItsFailure == [][LeavesPrimary => PrimaryFailed]_vars

(* Until the first reconfiguration that holds, whatever the calls, probes  *)
(* and rejected URLs, and so does its counterpart: the client returns to   *)
(* the primary untold only after a successful probe of that very node      *)
(* ("Primary node recovered", line 66).                                    *)
SwitchesOnEvidence ==
  [][epoch = 0 => /\ LeavesPrimary => PrimaryFailed
                  /\ ReturnsUntold => PrimaryRecovered]_vars

(* If from some time on the primary passes every probe and no rejected URL *)
(* has stopped the retry loop, the client is back on the primary again and *)
(* again.                                                                  *)
ReturnsToPrimary ==
  <>[][~TickUnhealthy]_vars /\ <>[]~rejected => []<>(currentHost = primaryHost)

(* The contract: timers, probes and history variables are hidden. *)
HostsOf(call) ==
  CASE call.phase = "idle"  -> << >>
    [] call.phase = "first" -> <<call.attempted>>
    [] call.phase = "retry" -> <<call.attempted, call.target>>

Tried == [c \in Calls |-> HostsOf(calls[c])]
EnteredOnPrimary == [c \in Calls |-> calls[c].attempted = calls[c].attemptedPrimary]

Contract == INSTANCE FailoverContract WITH
  pair <- [primary |-> primaryHost, fallback |-> fallbackHost],
  active <- currentHost,
  tried <- Tried,
  onPrimary <- EnteredOnPrimary

(* The failover state machine implements the contract. *)
ImplementsContract == Contract!Spec
=============================================================================
