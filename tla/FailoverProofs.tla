--------------------------- MODULE FailoverProofs ---------------------------
(***************************************************************************)
(* Proofs about NodeFailover, for every set of calls, timers, custom nodes *)
(* and any number of reconfigurations, and about FailoverClient, for every *)
(* set of calls, nodes and timers.                                         *)
(***************************************************************************)
EXTENDS FailoverClient, Sequences, TLAPS


(* What the two switches and the loop do to switchVars, with the nested    *)
(* guards of the code resolved.                                            *)
LEMMA SwitchToFallbackEffect ==
  ASSUME TypeOK, NoLeakedInterval, StrandedOnlyByRejection, ActiveIsConfigured,
         ProbesOnlyOnFallback, SwitchToFallback
  PROVE  /\ currentHost' = fallbackHost
         /\ retryTimer' \in Timers \cup {NoTimer}
         /\ intervals' = {retryTimer'} \ {NoTimer}
         /\ primaryHost = fallbackHost => retryTimer' = NoTimer
         /\ fallbackHost # primaryHost => retryTimer' # NoTimer \/ rejected
<1>1. CASE currentHost = fallbackHost
  BY <1>1 DEF SwitchToFallback, switchVars, TypeOK, NoLeakedInterval,
              StrandedOnlyByRejection, ProbesOnlyOnFallback
<1>2. CASE currentHost # fallbackHost
  <2>1. retryTimer = NoTimer /\ intervals = {}
    BY <1>2 DEF ProbesOnlyOnFallback, NoLeakedInterval
  <2>2. PICK t \in Timers : retryTimer' = t /\ intervals' = intervals \cup {t}
    BY <1>2, <2>1 DEF SwitchToFallback, StartRetryLoop
  <2>3. t # NoTimer
    BY TimerAssumption
  <2>4. currentHost' = fallbackHost /\ fallbackHost # primaryHost
    BY <1>2 DEF SwitchToFallback, ActiveIsConfigured
  <2> QED
    BY <2>1, <2>2, <2>3, <2>4
<1> QED
  BY <1>1, <1>2

LEMMA StopRetryLoopEffect ==
  ASSUME NoLeakedInterval, StopRetryLoop
  PROVE  retryTimer' = NoTimer /\ intervals' = {}
  BY DEF NoLeakedInterval, StopRetryLoop

LEMMA SwitchToPrimaryEffect ==
  ASSUME NoLeakedInterval, ProbesOnlyOnFallback, SwitchToPrimary
  PROVE  currentHost' = primaryHost /\ retryTimer' = NoTimer /\ intervals' = {}
<1>1. CASE currentHost = primaryHost
  BY <1>1 DEF SwitchToPrimary, switchVars, NoLeakedInterval, ProbesOnlyOnFallback
<1>2. CASE currentHost # primaryHost
  BY <1>2, StopRetryLoopEffect DEF SwitchToPrimary
<1> QED
  BY <1>1, <1>2

-----------------------------------------------------------------------------
LEMMA NoCallIsRecord == NoCall \in CallRecords /\ NoCall.phase = "idle"
  BY BoundAssumption DEF NoCall, CallRecords, Hosts

LEMMA InitIInv == Init => IInv
<1> SUFFICES ASSUME Init PROVE IInv
  OBVIOUS
<1>1. calls \in [Calls -> CallRecords] /\ \A c \in Calls : ~InFlight(c)
  BY NoCallIsRecord DEF Init, InFlight
<1>2. boots \in [Boots -> Hosts \cup {NoHost}]
  BY DEF Init
<1>3. /\ primaryHost \in Hosts /\ fallbackHost \in Hosts /\ currentHost \in Hosts
      /\ customGasLimit \in GasLimits
  BY GasAssumption DEF Init, Hosts
<1>4. /\ retryTimer = NoTimer /\ intervals = {} /\ tick = NoHost
      /\ selected = "node2" /\ epoch = 0 /\ rejected = FALSE
  BY DEF Init
<1>5. epoch \in 0..MaxConfig
  BY <1>4, BoundAssumption
<1>6. TypeOK
  BY <1>1, <1>2, <1>3, <1>4, <1>5 DEF TypeOK
<1> QED
  BY <1>1, <1>6 DEF Init, IInv, ActiveIsConfigured, NoLeakedInterval,
     ProbesOnlyOnFallback, StrandedOnlyByRejection, CustomStaysHome,
     RetryGoesToFallback, CustomIsOwnFallback, CapturedAtEntry, InFlight

-----------------------------------------------------------------------------
(* The conjuncts of IInv about the module's own state, and those about the *)
(* calls in flight.                                                        *)
ModuleInv ==
  /\ ActiveIsConfigured
  /\ NoLeakedInterval
  /\ ProbesOnlyOnFallback
  /\ StrandedOnlyByRejection
  /\ CustomIsOwnFallback
  /\ selected = "custom" => currentHost = primaryHost /\ retryTimer = NoTimer

CallInv(c) ==
  InFlight(c) =>
    /\ calls[c].epoch <= epoch
    /\ calls[c].phase = "first" => calls[c].target = calls[c].attempted
    /\ calls[c].epoch = epoch =>
         /\ calls[c].attemptedPrimary = primaryHost
         /\ selected = "custom" => calls[c].target = primaryHost
         /\ calls[c].phase = "retry" => /\ calls[c].attempted = primaryHost
                                       /\ calls[c].target = fallbackHost

LEMMA IInvParts == IInv <=> TypeOK /\ ModuleInv /\ \A c \in Calls : CallInv(c)
  BY DEF IInv, ModuleInv, CallInv, CustomStaysHome, RetryGoesToFallback,
         CapturedAtEntry, InFlight

LEMMA IInvPartsNext ==
  TypeOK' /\ ModuleInv' /\ (\A c \in Calls : CallInv(c)') => IInv'
  BY DEF IInv, ModuleInv, CallInv, CustomStaysHome, RetryGoesToFallback,
         CapturedAtEntry, InFlight, ActiveIsConfigured, NoLeakedInterval,
         ProbesOnlyOnFallback, StrandedOnlyByRejection, CustomIsOwnFallback

(* A step that changes neither the calls nor the configuration leaves what *)
(* is known of the calls alone.                                            *)
LEMMA CallsUntouched ==
  ASSUME NEW c \in Calls, CallInv(c), UNCHANGED <<calls, configVars>>
  PROVE  CallInv(c)'
  BY DEF CallInv, InFlight, configVars

(* The two switches keep the module's state well formed. *)
LEMMA ToFallbackKeeps ==
  ASSUME TypeOK, ModuleInv, SwitchToFallback, UNCHANGED <<configVars, rejected>>
  PROVE  ModuleInv' /\ currentHost' \in Hosts
         /\ retryTimer' \in Timers \cup {NoTimer} /\ intervals' \subseteq Timers
<1>1. /\ currentHost' = fallbackHost
      /\ retryTimer' \in Timers \cup {NoTimer}
      /\ intervals' = {retryTimer'} \ {NoTimer}
      /\ primaryHost = fallbackHost => retryTimer' = NoTimer
      /\ fallbackHost # primaryHost => retryTimer' # NoTimer \/ rejected
  BY SwitchToFallbackEffect DEF ModuleInv
<1>2. UNCHANGED <<primaryHost, fallbackHost, selected, rejected>>
  BY DEF configVars
<1> QED
  BY <1>1, <1>2 DEF ModuleInv, ActiveIsConfigured, NoLeakedInterval, TypeOK,
     ProbesOnlyOnFallback, StrandedOnlyByRejection, CustomIsOwnFallback

LEMMA ToPrimaryKeeps ==
  ASSUME TypeOK, ModuleInv, SwitchToPrimary, UNCHANGED <<configVars, rejected>>
  PROVE  ModuleInv' /\ currentHost' \in Hosts
         /\ retryTimer' = NoTimer /\ intervals' = {}
<1>1. currentHost' = primaryHost /\ retryTimer' = NoTimer /\ intervals' = {}
  BY SwitchToPrimaryEffect DEF ModuleInv
<1>2. UNCHANGED <<primaryHost, fallbackHost, selected, rejected>>
  BY DEF configVars
<1> QED
  BY <1>1, <1>2 DEF ModuleInv, ActiveIsConfigured, NoLeakedInterval, TypeOK,
     ProbesOnlyOnFallback, StrandedOnlyByRejection, CustomIsOwnFallback

-----------------------------------------------------------------------------
LEMMA NextIInv == IInv /\ [Next]_vars => IInv'
<1> SUFFICES ASSUME TypeOK, ModuleInv, \A c \in Calls : CallInv(c), [Next]_vars
             PROVE  TypeOK' /\ ModuleInv' /\ \A c \in Calls : CallInv(c)'
  BY IInvParts, IInvPartsNext
<1>1. ASSUME NEW c \in Calls, BeginCall(c)
      PROVE  TypeOK' /\ ModuleInv' /\ \A d \in Calls : CallInv(d)'
  <2> DEFINE record == [phase |-> "first", attempted |-> currentHost,
                        attemptedPrimary |-> primaryHost, target |-> currentHost,
                        epoch |-> epoch]
  <2>1. calls' = [calls EXCEPT ![c] = record]
        /\ UNCHANGED <<configVars, switchVars, probeVars, rejected>>
    BY <1>1 DEF BeginCall
  <2>2. record \in CallRecords
    BY DEF TypeOK, CallRecords
  <2>3. TypeOK'
    BY <2>1, <2>2 DEF TypeOK, configVars, switchVars, probeVars
  <2>4. ModuleInv'
    BY <2>1 DEF ModuleInv, ActiveIsConfigured, NoLeakedInterval, configVars, switchVars,
       ProbesOnlyOnFallback, StrandedOnlyByRejection, CustomIsOwnFallback
  <2>5. ASSUME NEW d \in Calls PROVE CallInv(d)'
    BY <2>1 DEF CallInv, InFlight, ModuleInv, TypeOK, configVars
  <2> QED
    BY <2>3, <2>4, <2>5
<1>2. ASSUME NEW c \in Calls, RetryCall(c)
      PROVE  TypeOK' /\ ModuleInv' /\ \A d \in Calls : CallInv(d)'
  <2>1. /\ calls' = [calls EXCEPT ![c].phase = "retry", ![c].target = currentHost']
        /\ SwitchToFallback
        /\ UNCHANGED <<configVars, probeVars, rejected>>
        /\ calls[c].phase = "first" /\ calls[c].attempted = calls[c].attemptedPrimary
    BY <1>2 DEF RetryCall, Retryable
  <2>2. /\ ModuleInv' /\ currentHost' \in Hosts
        /\ retryTimer' \in Timers \cup {NoTimer} /\ intervals' \subseteq Timers
    BY <2>1, ToFallbackKeeps
  <2>3. currentHost' = fallbackHost
    BY <2>1 DEF SwitchToFallback, switchVars
  <2>4. calls' \in [Calls -> CallRecords]
    BY <2>1, <2>2 DEF TypeOK, CallRecords
  <2>5. TypeOK'
    BY <2>1, <2>2, <2>4 DEF TypeOK, configVars, probeVars
  <2>6. ASSUME NEW d \in Calls PROVE CallInv(d)'
    <3>1. CASE d = c
      BY <2>1, <2>3, <3>1 DEF CallInv, InFlight, ModuleInv, TypeOK, configVars,
         CustomIsOwnFallback
    <3>2. CASE d # c
      BY <2>1, <3>2 DEF CallInv, InFlight, TypeOK, configVars
    <3> QED
      BY <3>1, <3>2
  <2> QED
    BY <2>2, <2>5, <2>6
<1>3. ASSUME NEW c \in Calls, NEW outcome \in Outcomes, SettleCall(c, outcome)
      PROVE  TypeOK' /\ ModuleInv' /\ \A d \in Calls : CallInv(d)'
  <2>1. calls' = [calls EXCEPT ![c] = NoCall]
        /\ UNCHANGED <<configVars, switchVars, probeVars, rejected>>
    BY <1>3 DEF SettleCall
  <2>2. TypeOK'
    BY <2>1, NoCallIsRecord DEF TypeOK, configVars, switchVars, probeVars
  <2>3. ModuleInv'
    BY <2>1 DEF ModuleInv, ActiveIsConfigured, NoLeakedInterval, configVars, switchVars,
       ProbesOnlyOnFallback, StrandedOnlyByRejection, CustomIsOwnFallback
  <2>4. ASSUME NEW d \in Calls PROVE CallInv(d)'
    BY <2>1, NoCallIsRecord DEF CallInv, InFlight, TypeOK, configVars
  <2> QED
    BY <2>2, <2>3, <2>4
<1>4. ASSUME UNCHANGED <<configVars, calls, rejected>>,
             SwitchToFallback \/ SwitchToPrimary \/ UNCHANGED switchVars,
             tick' \in Hosts \cup {NoHost}, boots' \in [Boots -> Hosts \cup {NoHost}]
      PROVE  TypeOK' /\ ModuleInv' /\ \A d \in Calls : CallInv(d)'
  <2>1. /\ ModuleInv' /\ currentHost' \in Hosts
        /\ retryTimer' \in Timers \cup {NoTimer} /\ intervals' \subseteq Timers
    <3>1. CASE SwitchToFallback
      BY <1>4, <3>1, ToFallbackKeeps
    <3>2. CASE SwitchToPrimary
      BY <1>4, <3>2, ToPrimaryKeeps
    <3>3. CASE UNCHANGED switchVars
      BY <1>4, <3>3 DEF ModuleInv, ActiveIsConfigured, NoLeakedInterval, configVars,
         switchVars, ProbesOnlyOnFallback, StrandedOnlyByRejection, CustomIsOwnFallback,
         TypeOK
    <3> QED
      BY <1>4, <3>1, <3>2, <3>3
  <2>2. TypeOK'
    BY <1>4, <2>1 DEF TypeOK, configVars
  <2> QED
    BY <1>4, <2>1, <2>2, CallsUntouched
<1>5. CASE TickFires \/ TickHealthy \/ TickUnhealthy
  BY <1>4, <1>5 DEF TickFires, TickHealthy, TickUnhealthy, TypeOK
<1>6. ASSUME NEW b \in Boots, InitNodeFailover(b) \/ BootHealthy(b) \/ BootUnhealthy(b)
      PROVE  TypeOK' /\ ModuleInv' /\ \A d \in Calls : CallInv(d)'
  <2>1. tick' \in Hosts \cup {NoHost} /\ boots' \in [Boots -> Hosts \cup {NoHost}]
    BY <1>6 DEF InitNodeFailover, BootHealthy, BootUnhealthy, TypeOK
  <2> QED
    BY <1>4, <1>6, <2>1 DEF InitNodeFailover, BootHealthy, BootUnhealthy
<1>7. ASSUME NEW kind \in {"node1", "node2", "custom"}, NEW primary \in Hosts,
             NEW fallback \in Hosts, NEW gas \in GasLimits,
             AssignConfig(kind, primary, fallback, gas), StopRetryLoop,
             kind = "custom" => fallback = primary,
             epoch < MaxConfig, epoch' = epoch + 1, UNCHANGED <<calls, probeVars>>
      PROVE  TypeOK' /\ ModuleInv' /\ \A d \in Calls : CallInv(d)'
  <2>1. retryTimer' = NoTimer /\ intervals' = {}
    BY <1>7, StopRetryLoopEffect DEF ModuleInv
  <2>2. epoch' \in 0..MaxConfig
    BY <1>7, BoundAssumption DEF TypeOK
  <2>3. /\ primaryHost' \in Hosts /\ fallbackHost' \in Hosts /\ currentHost' \in Hosts
        /\ customGasLimit' \in GasLimits
        /\ selected' \in {"node1", "node2", "custom"} /\ rejected' = FALSE
    BY <1>7 DEF AssignConfig
  <2>4. TypeOK'
    BY <1>7, <2>1, <2>2, <2>3 DEF TypeOK, probeVars
  <2>5. ModuleInv'
    BY <1>7, <2>1 DEF ModuleInv, ActiveIsConfigured, NoLeakedInterval, AssignConfig,
       ProbesOnlyOnFallback, StrandedOnlyByRejection, CustomIsOwnFallback
  <2>6. ASSUME NEW d \in Calls PROVE CallInv(d)'
    <3>1. calls[d].epoch \in Nat /\ epoch \in Nat
      BY DEF TypeOK, CallRecords
    <3> QED
      BY <1>7, <3>1 DEF CallInv, InFlight
  <2> QED
    BY <2>4, <2>5, <2>6
<1>8. CASE SetNodeConfig
  <2>1. PICK gas \in GasLimits :
          \/ AssignConfig("node1", Node1, Node2, gas)
          \/ AssignConfig("node2", Node2, Node1, gas)
          \/ \E origin \in CustomOrigins : AssignConfig("custom", origin, origin, gas)
    BY <1>8 DEF SetNodeConfig
  <2> QED
    BY <1>7, <1>8, <2>1 DEF SetNodeConfig, Hosts
<1>9. CASE RejectNodeConfig
  <2>1. StopRetryLoop /\ rejected' = TRUE
        /\ UNCHANGED <<configVars, currentHost, calls, probeVars>>
    BY <1>9 DEF RejectNodeConfig
  <2>2. retryTimer' = NoTimer /\ intervals' = {}
    BY <2>1, StopRetryLoopEffect DEF ModuleInv
  <2>3. TypeOK'
    BY <2>1, <2>2 DEF TypeOK, configVars, probeVars
  <2>4. ModuleInv'
    BY <2>1, <2>2 DEF ModuleInv, ActiveIsConfigured, NoLeakedInterval, configVars,
       ProbesOnlyOnFallback, StrandedOnlyByRejection, CustomIsOwnFallback
  <2> QED
    BY <2>1, <2>3, <2>4, CallsUntouched
<1>10. CASE ResetNodeFailover
  BY <1>7, <1>10, GasAssumption DEF ResetNodeFailover, Hosts
<1>11. CASE UNCHANGED vars
  BY <1>4, <1>11 DEF vars, probeVars, TypeOK
<1> QED
  BY <1>1, <1>2, <1>3, <1>5, <1>6, <1>8, <1>9, <1>10, <1>11 DEF Next, Background

(* IInv holds in every reachable state. *)
THEOREM Invariance == Spec => []IInv
  BY InitIInv, NextIInv, PTL DEF Spec

(* The properties the runs check, for every value of the constants: the    *)
(* active node is a configured one, no interval is leaked, the primary is  *)
(* probed only from the fallback, and a retry goes to the fallback.        *)
THEOREM TypeCorrect == Spec => []TypeOK
  BY Invariance, PTL DEF IInv

THEOREM ActiveNodeIsConfigured == Spec => []ActiveIsConfigured
  BY Invariance, PTL DEF IInv

(* The retry loop can always be stopped, runs only on the fallback, and is *)
(* armed there unless a setNodeConfig threw.                               *)
THEOREM RetryLoopIsKept == Spec => []RetryLoopDiscipline
  BY Invariance, PTL DEF IInv, RetryLoopDiscipline

THEOREM CustomNodeIsHome == Spec => [](CustomStaysHome /\ ProbesOnlyOnFallback)
  BY Invariance, PTL DEF IInv

THEOREM RetriesGoToFallback == Spec => []RetryGoesToFallback
  BY Invariance, PTL DEF IInv

-----------------------------------------------------------------------------
(* Until the first reconfiguration, the client leaves the primary only     *)
(* after a call or start-up check failed on it, and returns on its own     *)
(* only after a probe of it succeeded.                                     *)
LEMMA ProbesPrimaryStep == TypeOK /\ ProbesPrimary /\ [Next]_vars => ProbesPrimary'
<1> SUFFICES ASSUME TypeOK, ProbesPrimary, [Next]_vars, epoch' = 0
             PROVE  /\ tick' \in {NoHost, primaryHost'}
                    /\ \A b \in Boots : boots'[b] \in {NoHost, primaryHost'}
  BY DEF ProbesPrimary
<1>1. ~SetNodeConfig /\ ~ResetNodeFailover
  BY DEF SetNodeConfig, ResetNodeFailover, TypeOK
<1>2. UNCHANGED configVars
  BY <1>1 DEF Next, Background, vars, BeginCall, RetryCall, SettleCall, TickFires,
     TickHealthy, TickUnhealthy, InitNodeFailover, BootHealthy, BootUnhealthy,
     RejectNodeConfig
<1>3. /\ tick \in {NoHost, primaryHost}
      /\ \A b \in Boots : boots[b] \in {NoHost, primaryHost}
  BY <1>2 DEF ProbesPrimary, configVars
<1>4. tick' \in {NoHost, primaryHost}
  BY <1>1, <1>3 DEF Next, Background, vars, probeVars, BeginCall, RetryCall, SettleCall,
     TickFires, TickHealthy, TickUnhealthy, InitNodeFailover, BootHealthy, BootUnhealthy,
     RejectNodeConfig
<1>5. ASSUME NEW b \in Boots PROVE boots'[b] \in {NoHost, primaryHost}
  BY <1>1, <1>3 DEF Next, Background, vars, probeVars, BeginCall, RetryCall, SettleCall,
     TickFires, TickHealthy, TickUnhealthy, InitNodeFailover, BootHealthy, BootUnhealthy,
     RejectNodeConfig, TypeOK
<1> QED
  BY <1>2, <1>4, <1>5 DEF configVars

LEMMA EvidenceStep ==
  ASSUME TypeOK, ActiveIsConfigured, CapturedAtEntry, ProbesPrimary, Next, epoch = 0
  PROVE  (LeavesPrimary => PrimaryFailed) /\ (ReturnsUntold => PrimaryRecovered)
<1>1. ASSUME NEW c \in Calls, RetryCall(c)
      PROVE  (LeavesPrimary => PrimaryFailed) /\ ~ReturnsUntold
  <2>1. /\ calls[c].phase = "first" /\ calls'[c].phase = "retry"
        /\ calls[c].attempted = calls[c].attemptedPrimary
        /\ calls[c].epoch \in Nat
    BY <1>1 DEF RetryCall, Retryable, TypeOK, CallRecords
  <2>2. calls[c].epoch = epoch
    BY <2>1 DEF CapturedAtEntry, InFlight
  <2>3. calls[c].attempted = primaryHost
    BY <2>1, <2>2 DEF CapturedAtEntry, InFlight
  <2>4. currentHost' = fallbackHost
    BY <1>1 DEF RetryCall, SwitchToFallback, switchVars
  <2> QED
    BY <1>1, <2>1, <2>3, <2>4 DEF PrimaryFailed, ReturnsUntold, ActiveIsConfigured
<1>2. ASSUME NEW b \in Boots, BootUnhealthy(b)
      PROVE  (LeavesPrimary => PrimaryFailed) /\ ~ReturnsUntold
  <2>1. boots[b] = primaryHost /\ boots'[b] # boots[b]
    BY <1>2 DEF BootUnhealthy, ProbesPrimary, TypeOK
  <2>2. currentHost' = fallbackHost
    BY <1>2 DEF BootUnhealthy, SwitchToFallback, switchVars
  <2> QED
    BY <2>1, <2>2 DEF PrimaryFailed, ReturnsUntold, ActiveIsConfigured
<1>3. CASE TickHealthy
  BY <1>3 DEF TickHealthy, SwitchToPrimary, switchVars, ProbesPrimary, LeavesPrimary,
     PrimaryRecovered
<1>4. CASE SetNodeConfig \/ ResetNodeFailover
  BY <1>4 DEF SetNodeConfig, ResetNodeFailover, AssignConfig, LeavesPrimary,
     ReturnsUntold, TypeOK
<1>5. CASE UNCHANGED currentHost /\ UNCHANGED primaryHost
  BY <1>5 DEF LeavesPrimary, ReturnsUntold
<1> QED
  BY <1>1, <1>2, <1>3, <1>4, <1>5 DEF Next, Background, BeginCall, SettleCall, TickFires,
     TickUnhealthy, InitNodeFailover, BootHealthy, RejectNodeConfig, configVars, switchVars

THEOREM EvidenceBeforeSwitches == Spec => SwitchesOnEvidence
<1>1. Init => ProbesPrimary
  BY DEF Init, ProbesPrimary
<1>2. IInv => TypeOK /\ ActiveIsConfigured /\ CapturedAtEntry
  BY DEF IInv
<1>3. TypeOK /\ ActiveIsConfigured /\ CapturedAtEntry /\ ProbesPrimary /\ [Next]_vars =>
        [epoch = 0 => /\ LeavesPrimary => PrimaryFailed
                      /\ ReturnsUntold => PrimaryRecovered]_vars
  BY EvidenceStep
<1> QED
  BY <1>1, <1>2, <1>3, Invariance, ProbesPrimaryStep, PTL DEF Spec, SwitchesOnEvidence

-----------------------------------------------------------------------------
(* The header's promise, "Retry primary every 30s when on fallback", holds *)
(* of a program that never passes setNodeConfig a URL it rejects.          *)
THEOREM RetriesWithoutBadUrls ==
  ASSUME BadUrls = {}
  PROVE  Spec => []RetriesOnFallback
<1>1. Init => ~rejected
  BY DEF Init
<1>2. ~rejected /\ [Next]_vars => ~rejected'
  BY DEF Next, Background, vars, BeginCall, RetryCall, SettleCall, TickFires, TickHealthy,
     TickUnhealthy, InitNodeFailover, BootHealthy, BootUnhealthy, SetNodeConfig,
     RejectNodeConfig, ResetNodeFailover, AssignConfig
<1>3. StrandedOnlyByRejection /\ ~rejected => RetriesOnFallback
  BY DEF StrandedOnlyByRejection, RetriesOnFallback
<1> QED
  BY <1>1, <1>2, <1>3, RetryLoopIsKept, PTL DEF Spec, RetryLoopDiscipline

-----------------------------------------------------------------------------
(* The state machine implements FailoverContract: every step maps to a     *)
(* step of the contract or leaves what the contract sees unchanged.        *)
LEMMA ContractInit == Init => Contract!Init
<1> SUFFICES ASSUME Init PROVE Contract!Init
  OBVIOUS
<1>1. Tried = [c \in Calls |-> << >>]
  BY DEF Init, Tried, HostsOf, NoCall
<1>2. EnteredOnPrimary \in [Calls -> BOOLEAN]
  BY DEF EnteredOnPrimary
<1> QED
  BY <1>1, <1>2 DEF Init, Contract!Init, Contract!Pairs, Hosts

(* A step that leaves the calls alone and makes the primary or the         *)
(* fallback active is a Switch of the contract.                            *)
LEMMA SwitchStep ==
  ASSUME currentHost' \in {primaryHost, fallbackHost},
         UNCHANGED <<primaryHost, fallbackHost, calls>>
  PROVE  Contract!Next
<1>1. UNCHANGED <<Tried, EnteredOnPrimary>>
  BY DEF Tried, EnteredOnPrimary
<1> QED
  BY <1>1 DEF Contract!Next, Contract!Switch

LEMMA ReconfigureStep ==
  ASSUME primaryHost' \in Hosts, fallbackHost' \in Hosts,
         currentHost' = primaryHost', UNCHANGED calls
  PROVE  Contract!Next
<1>1. UNCHANGED <<Tried, EnteredOnPrimary>>
  BY DEF Tried, EnteredOnPrimary
<1> QED
  BY <1>1 DEF Contract!Next, Contract!Reconfigure, Contract!Pairs

LEMMA ContractStep ==
  IInv /\ IInv' /\ [Next]_vars => [Contract!Next]_(Contract!vars)
<1> SUFFICES ASSUME TypeOK, ActiveIsConfigured, TypeOK', ActiveIsConfigured', [Next]_vars
             PROVE  [Contract!Next]_(Contract!vars)
  BY DEF IInv
<1>1. ASSUME NEW c \in Calls, BeginCall(c) PROVE Contract!Next
  <2>1. /\ calls[c].phase = "idle" /\ calls'[c].phase = "first"
        /\ calls'[c].attempted = currentHost
        /\ calls'[c].attemptedPrimary = primaryHost
        /\ \A d \in Calls \ {c} : calls'[d] = calls[d]
        /\ UNCHANGED <<primaryHost, fallbackHost, currentHost>>
    BY <1>1 DEF BeginCall, InFlight, TypeOK, configVars, switchVars
  <2>2. Tried[c] = << >> /\ HostsOf(calls'[c]) = <<currentHost>>
    BY <2>1 DEF Tried, HostsOf
  <2>3. Tried' = [Tried EXCEPT ![c] = <<currentHost>>]
    BY <2>1, <2>2 DEF Tried
  <2>4. EnteredOnPrimary' = [EnteredOnPrimary EXCEPT ![c] = (currentHost = primaryHost)]
    BY <2>1 DEF EnteredOnPrimary
  <2> QED
    BY <2>1, <2>2, <2>3, <2>4 DEF Contract!Next, Contract!Begin
<1>2. ASSUME NEW c \in Calls, RetryCall(c) PROVE Contract!Next
  <2>1. /\ calls[c].phase = "first" /\ calls'[c].phase = "retry"
        /\ calls[c].attempted = calls[c].attemptedPrimary
        /\ calls'[c].attempted = calls[c].attempted
        /\ calls'[c].attemptedPrimary = calls[c].attemptedPrimary
        /\ calls'[c].target = currentHost'
        /\ \A d \in Calls \ {c} : calls'[d] = calls[d]
        /\ UNCHANGED <<primaryHost, fallbackHost>>
    BY <1>2 DEF RetryCall, Retryable, TypeOK, CallRecords, configVars
  <2>2. currentHost' = fallbackHost
    BY <1>2 DEF RetryCall, SwitchToFallback, switchVars
  <2>3. /\ Tried[c] = <<calls[c].attempted>>
        /\ HostsOf(calls'[c]) = <<calls[c].attempted, currentHost'>>
    BY <2>1 DEF Tried, HostsOf
  <2>4. HostsOf(calls'[c]) = Append(Tried[c], currentHost')
    BY <2>3
  <2>5. Tried' = [Tried EXCEPT ![c] = Append(Tried[c], currentHost')]
    BY <2>1, <2>4 DEF Tried
  <2>6. UNCHANGED EnteredOnPrimary /\ EnteredOnPrimary[c]
    BY <2>1 DEF EnteredOnPrimary
  <2> QED
    BY <2>1, <2>2, <2>3, <2>5, <2>6 DEF Contract!Next, Contract!Retry
<1>3. ASSUME NEW c \in Calls, NEW outcome \in Outcomes, SettleCall(c, outcome)
      PROVE  Contract!Next
  <2>1. /\ calls[c].phase # "idle" /\ calls'[c].phase = "idle"
        /\ \A d \in Calls \ {c} : calls'[d] = calls[d]
        /\ UNCHANGED <<primaryHost, fallbackHost, currentHost>>
    BY <1>3, NoCallIsRecord DEF SettleCall, InFlight, TypeOK, configVars, switchVars
  <2>2. calls[c].phase \in {"first", "retry"}
    BY <2>1 DEF TypeOK, CallRecords
  <2>3. Tried[c] # << >> /\ HostsOf(calls'[c]) = << >>
    BY <2>1, <2>2 DEF Tried, HostsOf
  <2>4. Tried' = [Tried EXCEPT ![c] = << >>]
    BY <2>1, <2>3 DEF Tried
  <2>5. \E b \in BOOLEAN : EnteredOnPrimary' = [EnteredOnPrimary EXCEPT ![c] = b]
    <3>1. EnteredOnPrimary' = [EnteredOnPrimary EXCEPT
                                 ![c] = (calls'[c].attempted = calls'[c].attemptedPrimary)]
      BY <2>1 DEF EnteredOnPrimary
    <3> QED
      BY <3>1
  <2> QED
    BY <2>1, <2>3, <2>4, <2>5 DEF Contract!Next, Contract!Return
<1>4. CASE TickFires \/ TickHealthy \/ TickUnhealthy
  BY <1>4, SwitchStep DEF TickFires, TickHealthy, TickUnhealthy, SwitchToPrimary,
     switchVars, configVars, ActiveIsConfigured
<1>5. ASSUME NEW b \in Boots, InitNodeFailover(b) \/ BootHealthy(b) \/ BootUnhealthy(b)
      PROVE  Contract!Next
  BY <1>5, SwitchStep DEF InitNodeFailover, BootHealthy, BootUnhealthy, SwitchToFallback,
     switchVars, configVars, ActiveIsConfigured
<1>6. CASE SetNodeConfig \/ ResetNodeFailover
  BY <1>6, ReconfigureStep DEF SetNodeConfig, ResetNodeFailover, AssignConfig, TypeOK
<1>7. CASE RejectNodeConfig
  BY <1>7, SwitchStep DEF RejectNodeConfig, configVars, ActiveIsConfigured
<1>8. CASE UNCHANGED vars
  BY <1>8, SwitchStep DEF vars, configVars, switchVars, ActiveIsConfigured
<1> QED
  BY <1>1, <1>2, <1>3, <1>4, <1>5, <1>6, <1>7, <1>8 DEF Next, Background

(* Hence every behaviour of the code is one the contract allows. *)
THEOREM FailoverImplementsContract == Spec => ImplementsContract
  BY Invariance, ContractInit, ContractStep, PTL DEF Spec, ImplementsContract, Contract!Spec

-----------------------------------------------------------------------------
(* The client *)


(* The composition only restricts the failover state machine: every step   *)
(* of the client, the network and the chain is one of its steps or leaves  *)
(* it alone, so everything proved of NodeFailover holds of the client.     *)
LEMMA ClientStepIsNodeStep == [ClientNext]_allVars => [Next]_vars
<1> SUFFICES ASSUME ClientNext PROVE [Next]_vars
  BY DEF allVars
<1>1. ASSUME NEW c \in Calls, Start(c) PROVE Next
  BY <1>1 DEF Start, Next
<1>2. ASSUME NEW c \in Calls, NEW as, AttemptFails(c, as) PROVE Next
  BY <1>2 DEF AttemptFails, Settle, Next, Outcomes
<1>3. ASSUME NEW c \in Calls, AnswerArrives(c) PROVE Next
  BY <1>3 DEF AnswerArrives, Settle, Next, Outcomes
<1>4. ASSUME NEW c \in Calls, ConnectionError(c) \/ DeadlinePasses(c) PROVE Next
  BY <1>2, <1>4 DEF ConnectionError, DeadlinePasses
<1>5. ASSUME NEW c \in Calls, NEW a \in Attempts,
             \/ NodeServes(c, a) \/ NodeRefuses(c, a) \/ ConnectionBreaks(c, a)
             \/ PollAgain(c, a) \/ PollExpires(c, a)
      PROVE  UNCHANGED vars
  BY <1>5 DEF NodeServes, NodeRefuses, ConnectionBreaks, PollAgain, PollExpires
<1>6. ASSUME NEW h \in Hosts, NEW key \in RequestKeys, Mine(h, key)
      PROVE  UNCHANGED vars
  BY <1>6 DEF Mine
<1>7. ASSUME NEW c \in Submissions, Edit(c) PROVE UNCHANGED vars
  BY <1>7 DEF Edit
<1>8. CASE Background /\ UNCHANGED clientVars
  BY <1>8 DEF Next
<1> QED
  BY <1>1, <1>3, <1>4, <1>5, <1>6, <1>7, <1>8 DEF ClientNext

THEOREM ClientImplementsNodeFailover == ClientSpec => Spec
<1>1. ClientInit => Init
  BY DEF ClientInit
<1> QED
  BY <1>1, ClientStepIsNodeStep, PTL DEF ClientSpec, Spec

-----------------------------------------------------------------------------
(* What the client's own properties rest on: what is known of a call, of   *)
(* one of its attempts, and of the transactions the nodes hold.            *)

(* A call has a result or is under way, not both, and its requests are     *)
(* those of the attempts it has begun.                                     *)
WireFollowsPhase(c) ==
  /\ InFlight(c) => result[c] = "none"
  /\ result[c] = "none" /\ ~InFlight(c) => Tries(c) = {}
  /\ calls[c].phase = "first" => Tries(c) = {"first"}
  /\ calls[c].phase = "retry" => Tries(c) = {"first", "retry"}

(* Only the controller of an attempt that was begun can be aborted. *)
AbortedWereTried(c) == \A a \in Attempts : TimedOut(c, a) => a \in Tries(c)

(* A node that served a submit has its transaction. *)
ServedIsPooled(c) ==
  \A a \in Attempts : c \in Submissions /\ wire[c][a].state = "served"
                       => RequestKey(c, a) \in pool[wire[c][a].host]

ResolvedIsPooled(c) ==
  c \in Submissions /\ result[c] = "ok" =>
    \E a \in Tries(c) : RequestKey(c, a) \in pool[wire[c][a].host]

RefusalIsFinalFor(c) ==
  "retry" \in Tries(c) =>
    \/ TimedOut(c, "first")
    \/ c \notin Polls /\ wire[c]["first"].state = "broken"

NotStillborn(c) == \A a \in Attempts : wire[c][a].state # "stillborn"

(* While a call is under way its caller leaves the object alone, so what   *)
(* the first attempt carried is what a retry carries.                      *)
SameBody(c) ==
  /\ InFlight(c) => wire[c]["first"].version = transaction[c]
  /\ "retry" \in Tries(c) =>
       "first" \in Tries(c) /\ wire[c]["retry"].version = wire[c]["first"].version

ClientCallInv(c) ==
  /\ WireFollowsPhase(c)
  /\ AbortedWereTried(c)
  /\ ServedIsPooled(c)
  /\ ResolvedIsPooled(c)
  /\ RefusalIsFinalFor(c)
  /\ NotStillborn(c)
  /\ SameBody(c)

(* A submit has one transaction, whichever node has it: that of the first  *)
(* attempt.                                                                *)
SentAsFirst(key) ==
  "first" \in Tries(key.call) /\ key.version = wire[key.call]["first"].version

OneVersion ==
  /\ \A h \in Hosts : \A key \in pool[h] : SentAsFirst(key)
  /\ \A key \in landed : SentAsFirst(key)

ClientInv == ClientTypeOK /\ OneVersion /\ \A c \in Calls : ClientCallInv(c)

(* At the start nothing was sent, so nothing can be wrong with it. *)
LEMMA InitClientInv == ClientInit => ClientInv
<1> SUFFICES ASSUME ClientInit PROVE ClientInv
  OBVIOUS
<1>1. \A c \in Calls : ~InFlight(c) /\ result[c] = "none" /\ calls[c].phase = "idle"
  BY NoCallIsRecord DEF ClientInit, Init, InFlight
<1>2. \A c \in Calls, a \in Attempts : wire[c][a] = NoRequest
  BY DEF ClientInit
<1>3. NoRequest \in Requests /\ NoRequest.state = "none"
  BY SubmissionAssumption DEF NoRequest, Requests, Hosts
<1>4. ClientTypeOK
  BY <1>3, SubmissionAssumption DEF ClientInit, ClientTypeOK, Results
<1>5. OneVersion
  BY DEF ClientInit, OneVersion
<1>6. ASSUME NEW c \in Calls PROVE ClientCallInv(c)
  BY <1>1, <1>2, <1>3, <1>6 DEF ClientInit, ClientCallInv, WireFollowsPhase, AbortedWereTried,
     ServedIsPooled, ResolvedIsPooled, RefusalIsFinalFor, NotStillborn, SameBody, Tries, TimedOut
<1> QED
  BY <1>4, <1>5, <1>6 DEF ClientInv

(* A step that leaves the records of a call alone, takes nothing from a    *)
(* pool, aborts no controller of the call and edits no object under way    *)
(* keeps what is known of it.                                              *)
LEMMA CallUnmoved ==
  ASSUME NEW c \in Calls, ClientTypeOK, ClientCallInv(c),
         wire'[c] = wire[c], result'[c] = result[c], calls'[c].phase = calls[c].phase,
         \A a \in Attempts : TimedOut(c, a)' <=> TimedOut(c, a),
         \A h \in Hosts : pool[h] \subseteq pool'[h],
         InFlight(c) => transaction'[c] = transaction[c]
  PROVE  ClientCallInv(c)'
<1>1. \A a \in Attempts : wire[c][a].host \in Hosts
  BY DEF ClientTypeOK, Requests
<1>2. Tries(c)' = Tries(c) /\ Tries(c) \subseteq Attempts
  BY DEF Tries
<1>3. (InFlight(c)' <=> InFlight(c)) /\ WireFollowsPhase(c)'
  BY <1>2 DEF ClientCallInv, WireFollowsPhase, InFlight
<1>4. AbortedWereTried(c)' /\ RefusalIsFinalFor(c)' /\ NotStillborn(c)'
  BY <1>2 DEF ClientCallInv, AbortedWereTried, RefusalIsFinalFor, NotStillborn, Attempts
<1>5. ServedIsPooled(c)'
  BY <1>1 DEF ClientCallInv, ServedIsPooled, RequestKey
<1>6. ResolvedIsPooled(c)'
  BY <1>1, <1>2 DEF ClientCallInv, ResolvedIsPooled, RequestKey
<1>7. SameBody(c)'
  BY <1>2, <1>3 DEF ClientCallInv, SameBody
<1> QED
  BY <1>3, <1>4, <1>5, <1>6, <1>7 DEF ClientCallInv

(* A request key stays that of a first attempt, if no first attempt is     *)
(* taken back or changed.                                                  *)
LEMMA KeysUnmoved ==
  ASSUME \A d \in Calls : "first" \in Tries(d) =>
           "first" \in Tries(d)' /\ wire'[d]["first"].version = wire[d]["first"].version
  PROVE  \A key \in RequestKeys : SentAsFirst(key) => SentAsFirst(key)'
<1> SUFFICES ASSUME NEW key \in RequestKeys, SentAsFirst(key) PROVE SentAsFirst(key)'
  OBVIOUS
<1>1. key.call \in Calls
  BY SubmissionAssumption DEF RequestKeys
<1> QED
  BY <1>1 DEF SentAsFirst

(* So a step that adds nothing to the pools or the chain keeps OneVersion. *)
LEMMA PoolsUnmoved ==
  ASSUME ClientTypeOK, OneVersion, pool' = pool, landed' = landed,
         \A d \in Calls : "first" \in Tries(d) =>
           "first" \in Tries(d)' /\ wire'[d]["first"].version = wire[d]["first"].version
  PROVE  OneVersion'
<1>1. \A key \in RequestKeys : SentAsFirst(key) => SentAsFirst(key)'
  BY KeysUnmoved
<1> QED
  BY <1>1 DEF OneVersion, ClientTypeOK

-----------------------------------------------------------------------------
(* A call that starts finds its controllers unused. *)
LEMMA StartKeeps ==
  ASSUME NEW c \in Calls, TypeOK, ClientInv, Start(c)
  PROVE  ClientInv'
<1>1. /\ calls[c].phase = "idle" /\ calls'[c].phase = "first" /\ calls'[c].target = currentHost
      /\ \A d \in Calls \ {c} : calls'[d] = calls[d]
  BY DEF Start, BeginCall, InFlight, TypeOK
<1>2. result[c] = "none" /\ UNCHANGED <<transaction, aborted, pool, landed, result>>
  BY DEF Start, netVars
<1>3. Tries(c) = {} /\ \A a \in Attempts : ~TimedOut(c, a) /\ wire[c][a].state = "none"
  BY <1>1, <1>2 DEF ClientInv, ClientCallInv, WireFollowsPhase, AbortedWereTried, InFlight, Tries
<1>4. Controller(c, "first") \notin aborted'
  BY <1>2, <1>3 DEF TimedOut, Attempts
<1>5. wire' = [wire EXCEPT ![c]["first"] =
                 [state |-> "sent", host |-> currentHost, version |-> transaction[c]]]
  BY <1>1, <1>4 DEF Start, Send, Carried
<1>6. [state |-> "sent", host |-> currentHost, version |-> transaction[c]] \in Requests
  BY DEF TypeOK, Requests, ClientInv, ClientTypeOK
<1>7. ClientTypeOK'
  BY <1>2, <1>5, <1>6 DEF ClientInv, ClientTypeOK, Attempts
<1>8. /\ wire'[c]["first"].state = "sent" /\ wire'[c]["first"].version = transaction[c]
      /\ wire'[c]["retry"] = wire[c]["retry"]
      /\ \A d \in Calls \ {c} : wire'[d] = wire[d]
  BY <1>5 DEF ClientInv, ClientTypeOK, Attempts
<1>9. Tries(c)' = {"first"}
  BY <1>3, <1>8 DEF Tries, Attempts
<1>10. ClientCallInv(c)'
  BY <1>1, <1>2, <1>3, <1>8, <1>9 DEF ClientCallInv, WireFollowsPhase, AbortedWereTried,
     ServedIsPooled, ResolvedIsPooled, RefusalIsFinalFor, NotStillborn, SameBody, InFlight,
     TimedOut, Attempts
<1>11. ASSUME NEW d \in Calls \ {c} PROVE ClientCallInv(d)'
  BY <1>1, <1>2, <1>8, <1>11, CallUnmoved DEF ClientInv, TimedOut
<1>12. OneVersion'
  <2>1. ASSUME NEW d \in Calls, "first" \in Tries(d)
        PROVE  "first" \in Tries(d)' /\ wire'[d]["first"].version = wire[d]["first"].version
    BY <1>3, <1>8, <2>1 DEF Tries
  <2> QED
    BY <1>2, <2>1, PoolsUnmoved DEF ClientInv
<1> QED
  BY <1>7, <1>10, <1>11, <1>12 DEF ClientInv

(* So does a retry: the controller of the first attempt may be aborted,    *)
(* its own is new.                                                         *)
LEMMA RetryKeeps ==
  ASSUME NEW c \in Calls, TypeOK, ClientInv, RetryCall(c), Send(c, "retry"),
         UNCHANGED <<transaction, pool, landed, result>>,
         aborted' = aborted \/ aborted' = aborted \cup {Controller(c, "first")},
         \/ Controller(c, "first") \in aborted'
         \/ c \notin Polls /\ wire[c]["first"].state = "broken"
  PROVE  ClientInv'
<1>1. /\ calls[c].phase = "first" /\ calls'[c].phase = "retry" /\ calls'[c].target = currentHost'
      /\ \A d \in Calls \ {c} : calls'[d] = calls[d]
  BY DEF RetryCall, Retryable, TypeOK
<1>2. currentHost' \in Hosts
  BY DEF RetryCall, SwitchToFallback, switchVars, TypeOK
<1>3. Tries(c) = {"first"} /\ result[c] = "none"
  BY <1>1 DEF ClientInv, ClientCallInv, WireFollowsPhase, InFlight
<1>4. Controller(c, "retry") \notin aborted'
  BY <1>3 DEF ClientInv, ClientCallInv, AbortedWereTried, TimedOut, Controller, Attempts
<1>5. wire' = [wire EXCEPT ![c]["retry"] =
                 [state |-> "sent", host |-> currentHost', version |-> transaction[c]]]
  BY <1>1, <1>4 DEF Send, Carried
<1>6. /\ wire'[c]["retry"].state = "sent" /\ wire'[c]["retry"].version = transaction[c]
      /\ wire'[c]["first"] = wire[c]["first"]
      /\ \A d \in Calls \ {c} : wire'[d] = wire[d]
  BY <1>5 DEF ClientInv, ClientTypeOK, Attempts
<1>7. [state |-> "sent", host |-> currentHost', version |-> transaction[c]] \in Requests
  BY <1>2 DEF Requests, ClientInv, ClientTypeOK
<1>8. aborted' \subseteq Calls \X Attempts
  BY DEF ClientInv, ClientTypeOK, Controller, Attempts
<1>9. ClientTypeOK'
  BY <1>5, <1>7, <1>8 DEF ClientInv, ClientTypeOK, Attempts
<1>10. wire'[c]["first"].state # "none" /\ Tries(c)' = {"first", "retry"}
  BY <1>3, <1>6 DEF Tries, Attempts
<1>11. ServedIsPooled(c)' /\ NotStillborn(c)'
  BY <1>6 DEF ClientInv, ClientCallInv, ServedIsPooled, NotStillborn, RequestKey, Attempts
<1>12. WireFollowsPhase(c)' /\ AbortedWereTried(c)' /\ ResolvedIsPooled(c)'
  BY <1>1, <1>3, <1>10 DEF WireFollowsPhase, AbortedWereTried, ResolvedIsPooled, InFlight, Attempts
<1>13. RefusalIsFinalFor(c)'
  BY <1>6 DEF RefusalIsFinalFor, TimedOut, Controller
<1>14. ASSUME NEW d \in Calls \ {c} PROVE ClientCallInv(d)'
  <2>1. \A a \in Attempts : TimedOut(d, a)' <=> TimedOut(d, a)
    BY DEF TimedOut, Controller
  <2> QED
    BY <1>1, <1>6, <1>14, <2>1, CallUnmoved DEF ClientInv
<1>15. SameBody(c)'
  BY <1>1, <1>6, <1>10 DEF ClientInv, ClientCallInv, SameBody, InFlight
<1>16. OneVersion'
  <2>1. ASSUME NEW d \in Calls, "first" \in Tries(d)
        PROVE  "first" \in Tries(d)' /\ wire'[d]["first"].version = wire[d]["first"].version
    BY <1>6, <1>10, <2>1 DEF Tries
  <2> QED
    BY <2>1, PoolsUnmoved DEF ClientInv
<1> QED
  BY <1>9, <1>11, <1>12, <1>13, <1>14, <1>15, <1>16 DEF ClientInv, ClientCallInv

(* A call that ends has every attempt it made behind it, and what it       *)
(* resolved with was served.                                               *)
LEMMA SettleKeeps ==
  ASSUME NEW c \in Calls, NEW outcome, NEW as \in Results \ {"none"}, TypeOK, ClientInv,
         Settle(c, outcome, as), UNCHANGED <<transaction, pool, landed>>,
         aborted' = aborted \/ aborted' = aborted \cup {Controller(c, calls[c].phase)},
         as = "ok" => Current(c).state = "served"
  PROVE  ClientInv'
<1>1. /\ InFlight(c) /\ calls'[c].phase = "idle" /\ calls[c].phase \in Attempts
      /\ \A d \in Calls \ {c} : calls'[d] = calls[d]
  BY NoCallIsRecord DEF Settle, SettleCall, InFlight, TypeOK, CallRecords, Attempts
<1>2. /\ wire' = wire /\ result'[c] = as
      /\ \A d \in Calls \ {c} : result'[d] = result[d]
  BY DEF Settle, ClientInv, ClientTypeOK
<1>3. calls[c].phase \in Tries(c) /\ Tries(c) \subseteq Attempts /\ Tries(c)' = Tries(c)
  BY <1>1, <1>2 DEF ClientInv, ClientCallInv, WireFollowsPhase, Attempts, Tries
<1>4. aborted' \subseteq Calls \X Attempts
  BY <1>1 DEF ClientInv, ClientTypeOK, Controller
<1>5. ClientTypeOK' /\ OneVersion'
  <2>1. ClientTypeOK'
    BY <1>2, <1>4 DEF ClientInv, ClientTypeOK, Settle
  <2>2. \A d \in Calls : Tries(d)' = Tries(d)
    BY <1>2 DEF Tries
  <2> QED
    BY <1>2, <2>1, <2>2, PoolsUnmoved DEF ClientInv
<1>6. WireFollowsPhase(c)' /\ NotStillborn(c)' /\ ServedIsPooled(c)' /\ SameBody(c)'
  BY <1>1, <1>2, <1>3 DEF ClientInv, ClientCallInv, WireFollowsPhase, NotStillborn,
     ServedIsPooled, SameBody, InFlight, RequestKey
<1>7. AbortedWereTried(c)'
  BY <1>1, <1>3 DEF ClientInv, ClientCallInv, AbortedWereTried, TimedOut, Controller
<1>8. RefusalIsFinalFor(c)'
  BY <1>2, <1>3 DEF ClientInv, ClientCallInv, RefusalIsFinalFor, TimedOut
<1>9. ResolvedIsPooled(c)'
  BY <1>1, <1>2, <1>3 DEF ClientInv, ClientCallInv, ResolvedIsPooled, ServedIsPooled, Current,
     RequestKey
<1>10. ASSUME NEW d \in Calls \ {c} PROVE ClientCallInv(d)'
  <2>1. \A a \in Attempts : TimedOut(d, a)' <=> TimedOut(d, a)
    BY DEF TimedOut, Controller
  <2> QED
    BY <1>1, <1>2, <1>10, <2>1, CallUnmoved DEF ClientInv
<1> QED
  BY <1>5, <1>6, <1>7, <1>8, <1>9, <1>10 DEF ClientInv, ClientCallInv

LEMMA ClientStepKeeps ==
  ASSUME NEW c \in Calls, TypeOK, ClientInv,
         Start(c) \/ AnswerArrives(c) \/ ConnectionError(c) \/ DeadlinePasses(c)
  PROVE  ClientInv'
<1>1. CASE Start(c)
  BY <1>1, StartKeeps
<1>2. CASE AnswerArrives(c)
  BY <1>2, SettleKeeps DEF AnswerArrives, Results, netVars
<1>3. ASSUME NEW as \in {"network", "TIMEOUT"}, AttemptFails(c, as),
             UNCHANGED <<transaction, pool, landed>>,
             \/ aborted' = aborted /\ c \notin Polls /\ Current(c).state = "broken"
             \/ aborted' = aborted \cup {Controller(c, calls[c].phase)}
      PROVE  ClientInv'
  <2>1. CASE RetryCall(c) /\ Send(c, "retry") /\ UNCHANGED result
    <3>1. calls[c].phase = "first"
      BY <2>1 DEF RetryCall, Retryable
    <3> QED
      BY <1>3, <2>1, <3>1, RetryKeeps DEF Current
  <2>2. CASE Settle(c, "network", as)
    BY <1>3, <2>2, SettleKeeps DEF Results
  <2> QED
    BY <1>3, <2>1, <2>2 DEF AttemptFails
<1>4. CASE ConnectionError(c)
  BY <1>3, <1>4 DEF ConnectionError, netVars
<1>5. CASE DeadlinePasses(c)
  BY <1>3, <1>5 DEF DeadlinePasses, netVars
<1> QED
  BY <1>1, <1>2, <1>4, <1>5

(* What the nodes, the network and a poll's loop do to a request. *)
LEMMA RequestKeeps ==
  ASSUME NEW c \in Calls, NEW a \in Attempts, ClientInv,
         \/ NodeServes(c, a) \/ NodeRefuses(c, a) \/ ConnectionBreaks(c, a)
         \/ PollAgain(c, a) \/ PollExpires(c, a)
  PROVE  ClientInv'
<1>1. PICK state \in {"sent", "served", "refused", "broken", "expired"} :
        /\ Becomes(c, a, state)
        /\ wire[c][a].state \in {"sent", "served", "refused", "broken"}
        /\ state = "served" => NodeServes(c, a)
        /\ wire[c][a].state = "broken" => c \in Polls
  BY DEF NodeServes, NodeRefuses, ConnectionBreaks, PollAgain, PollExpires, Looping
<1>2. UNCHANGED <<transaction, calls, aborted, landed, result>>
  BY DEF NodeServes, NodeRefuses, ConnectionBreaks, PollAgain, PollExpires, netVars, vars
<1>3. /\ wire'[c][a].state = state /\ wire'[c][a].host = wire[c][a].host
      /\ wire'[c][a].version = wire[c][a].version
      /\ \A b \in Attempts \ {a} : wire'[c][b] = wire[c][b]
      /\ \A d \in Calls \ {c} : wire'[d] = wire[d]
      /\ wire' \in [Calls -> [Attempts -> Requests]]
  <2>1. wire[c] \in [Attempts -> Requests] /\ wire[c][a] \in Requests
    BY DEF ClientInv, ClientTypeOK
  <2> DEFINE changed == [wire[c][a] EXCEPT !.state = state]
  <2>2. /\ changed \in Requests /\ changed.state = state /\ changed.host = wire[c][a].host
        /\ changed.version = wire[c][a].version
    BY <2>1 DEF Requests
  <2>3. wire' = [wire EXCEPT ![c] = [wire[c] EXCEPT ![a] = changed]]
    BY <1>1 DEF Becomes
  <2> HIDE DEF changed
  <2> QED
    BY <2>1, <2>2, <2>3 DEF ClientInv, ClientTypeOK
<1>4. /\ pool' \in [Hosts -> SUBSET RequestKeys]
      /\ \A h \in Hosts : pool[h] \subseteq pool'[h]
      /\ \A h \in Hosts : \A key \in pool'[h] : SentAsFirst(key)
  <2>1. CASE NodeServes(c, a)
    <3>1. wire[c][a].host \in Hosts /\ (c \in Submissions => RequestKey(c, a) \in RequestKeys)
      BY DEF ClientInv, ClientTypeOK, Requests, RequestKey, RequestKeys
    <3>2. c \in Submissions => SentAsFirst(RequestKey(c, a))
      BY <2>1 DEF NodeServes, RequestKey, SentAsFirst, ClientInv, ClientCallInv, SameBody, Tries,
         Attempts
    <3> QED
      BY <2>1, <3>1, <3>2 DEF NodeServes, ClientInv, ClientTypeOK, OneVersion
  <2>2. CASE ~NodeServes(c, a)
    BY <2>2 DEF NodeRefuses, ConnectionBreaks, PollAgain, PollExpires, netVars, ClientInv,
       ClientTypeOK, OneVersion
  <2> QED
    BY <2>1, <2>2
<1>5. state = "served" /\ c \in Submissions => RequestKey(c, a) \in pool'[wire[c][a].host]
  <2>1. SUFFICES ASSUME NodeServes(c, a), c \in Submissions
                 PROVE  RequestKey(c, a) \in pool'[wire[c][a].host]
    BY <1>1
  <2>2. wire[c][a].host \in Hosts
    BY DEF ClientInv, ClientTypeOK, Requests
  <2> QED
    BY <2>1, <2>2 DEF NodeServes, ClientInv, ClientTypeOK
<1>6. ClientTypeOK'
  BY <1>2, <1>3, <1>4 DEF ClientInv, ClientTypeOK
<1>7. Tries(c)' = Tries(c) /\ Tries(c) \subseteq Attempts
  BY <1>1, <1>3 DEF Tries
<1>8. \A b \in Attempts : wire'[c][b].version = wire[c][b].version
  BY <1>3
<1>9. OneVersion'
  <2>1. ASSUME NEW d \in Calls, "first" \in Tries(d)
        PROVE  "first" \in Tries(d)' /\ wire'[d]["first"].version = wire[d]["first"].version
    BY <1>3, <1>7, <1>8, <2>1 DEF Tries, Attempts
  <2>2. \A key \in RequestKeys : SentAsFirst(key) => SentAsFirst(key)'
    BY <2>1, KeysUnmoved
  <2> QED
    BY <1>2, <1>4, <2>2 DEF ClientInv, ClientTypeOK, OneVersion
<1>10. WireFollowsPhase(c)' /\ AbortedWereTried(c)' /\ NotStillborn(c)' /\ SameBody(c)'
  BY <1>1, <1>2, <1>3, <1>7, <1>8 DEF ClientInv, ClientCallInv, WireFollowsPhase,
     AbortedWereTried, NotStillborn, SameBody, InFlight, TimedOut, Attempts
<1>11. ServedIsPooled(c)'
  <2>1. \A b \in Attempts : wire[c][b].host \in Hosts
    BY DEF ClientInv, ClientTypeOK, Requests
  <2> QED
    BY <1>3, <1>4, <1>5, <1>8, <2>1 DEF ClientInv, ClientCallInv, ServedIsPooled, RequestKey
<1>12. ResolvedIsPooled(c)'
  <2>1. \A b \in Attempts : wire[c][b].host \in Hosts /\ wire'[c][b].host = wire[c][b].host
    BY <1>3 DEF ClientInv, ClientTypeOK, Requests
  <2> QED
    BY <1>2, <1>4, <1>7, <1>8, <2>1 DEF ClientInv, ClientCallInv, ResolvedIsPooled, RequestKey
<1>13. RefusalIsFinalFor(c)'
  BY <1>1, <1>2, <1>3, <1>7 DEF ClientInv, ClientCallInv, RefusalIsFinalFor, TimedOut, Attempts
<1>14. ASSUME NEW d \in Calls \ {c} PROVE ClientCallInv(d)'
  BY <1>2, <1>3, <1>4, <1>14, CallUnmoved DEF ClientInv, TimedOut
<1> QED
  BY <1>6, <1>10, <1>11, <1>12, <1>13, <1>14, <1>9 DEF ClientInv, ClientCallInv

(* Mining, a caller's edit, and what goes on beside the calls. *)
LEMMA RestKeeps ==
  ASSUME ClientInv,
         \/ \E h \in Hosts, key \in RequestKeys : Mine(h, key)
         \/ \E c \in Submissions : Edit(c)
         \/ Background /\ UNCHANGED clientVars
         \/ UNCHANGED allVars
  PROVE  ClientInv'
<1>1. UNCHANGED <<calls, wire, aborted, pool, result>>
  BY DEF Mine, Edit, netVars, Background, TickFires, TickHealthy, TickUnhealthy, InitNodeFailover,
     BootHealthy, BootUnhealthy, SetNodeConfig, RejectNodeConfig, ResetNodeFailover, clientVars,
     allVars, vars
<1>2. /\ landed' \subseteq RequestKeys
      /\ \A key \in landed' : SentAsFirst(key)
  BY DEF Mine, Edit, netVars, clientVars, allVars, ClientInv, ClientTypeOK, OneVersion
<1>3. /\ transaction' \in [Calls -> 0..MaxEdits]
      /\ \A c \in Calls : InFlight(c) => transaction'[c] = transaction[c]
  <2>1. ASSUME NEW c \in Submissions, Edit(c)
        PROVE  /\ transaction' \in [Calls -> 0..MaxEdits]
               /\ \A d \in Calls : InFlight(d) => transaction'[d] = transaction[d]
    <3>1. c \in Calls /\ transaction[c] + 1 \in 0..MaxEdits
      BY <2>1, SubmissionAssumption DEF Edit, ClientInv, ClientTypeOK
    <3> QED
      BY <2>1, <3>1 DEF Edit, ClientInv, ClientTypeOK
  <2> QED
    BY <2>1 DEF Mine, clientVars, allVars, ClientInv, ClientTypeOK
<1>4. \A d \in Calls : Tries(d)' = Tries(d)
  BY <1>1 DEF Tries
<1>5. ClientTypeOK'
  BY <1>1, <1>2, <1>3 DEF ClientInv, ClientTypeOK
<1>6. OneVersion'
  <2>1. \A key \in RequestKeys : SentAsFirst(key) => SentAsFirst(key)'
    BY <1>1, <1>4, KeysUnmoved
  <2> QED
    BY <1>1, <1>2, <2>1 DEF ClientInv, ClientTypeOK, OneVersion
<1>7. ASSUME NEW c \in Calls PROVE ClientCallInv(c)'
  BY <1>1, <1>3, <1>7, CallUnmoved DEF ClientInv, TimedOut
<1> QED
  BY <1>5, <1>6, <1>7 DEF ClientInv

-----------------------------------------------------------------------------
(* The invariant of the client, over the type correctness of the failover  *)
(* machine under it.                                                       *)
THEOREM ClientInvariance == ClientSpec => []ClientInv
<1>1. TypeOK /\ ClientInv /\ [ClientNext]_allVars => ClientInv'
  BY ClientStepKeeps, RequestKeeps, RestKeeps DEF ClientNext
<1> QED
  BY <1>1, InitClientInv, ClientImplementsNodeFailover, TypeCorrect, PTL DEF ClientSpec

(* Type correctness of calls on the wire, nodes and chain. *)
THEOREM ClientTypeCorrect == ClientSpec => []ClientTypeOK
  BY ClientInvariance, PTL DEF ClientInv

(* One landing per submit, for any number of calls, nodes, switches and    *)
(* edits: what lands was served to some attempt, both attempts carried     *)
(* what the caller's object said while the call was under way, and the     *)
(* caller leaves it alone that long (failoverClient.ts:206-222).           *)
THEOREM SubmitsLandOnce == ClientSpec => []AtMostOneLanding
<1>1. ClientInv => AtMostOneLanding
  BY DEF ClientInv, OneVersion, SentAsFirst, AtMostOneLanding
<1> QED
  BY <1>1, ClientInvariance, PTL

(* Success means acceptance, a refusal is final, and no attempt is lost to *)
(* the abort of the other, for any number of calls, nodes and switches     *)
(* (failoverClient.ts:14-16, 140-175).                                     *)
THEOREM ErrorsMeanWhatTheySay == ClientSpec => []OutcomesAreHonest
<1>1. ClientInv => ResolvedWasAccepted
  BY SubmissionAssumption DEF ClientInv, ClientCallInv, ResolvedIsPooled, ResolvedWasAccepted
<1>2. ClientInv => RefusalIsFinal
  BY DEF ClientInv, ClientCallInv, RefusalIsFinalFor, RefusalIsFinal
<1>3. ClientInv => NoStillbornAttempt
  BY DEF ClientInv, ClientCallInv, NotStillborn, NoStillbornAttempt
<1> QED
  BY <1>1, <1>2, <1>3, ClientInvariance, PTL DEF OutcomesAreHonest
=============================================================================
