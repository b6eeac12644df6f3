--------------------------- MODULE CodexStrategy ---------------------------
(***************************************************************************)
(* signing/codexStrategy.ts with the parts of signing/universalSign.ts and *)
(* network/failoverClient.ts's runWithTimeout it calls: execute, from the  *)
(* guards to the submitted transaction.  Several executions may run at     *)
(* once, the codex may change at every await, and a consumer may execute   *)
(* a job again when an execution was rejected.                             *)
(*                                                                         *)
(* A step is the code between two awaits.  What execute keeps in locals is *)
(* in the record of the execution; the codex is read again each time the   *)
(* resolver is asked for a key.                                            *)
(***************************************************************************)
EXTENDS GuardAnalysis, GasMath, SequencesExt

CONSTANTS
  Executions,   \* invocations of execute
  Jobs,         \* the arguments execute may be called with
  Codexes,      \* the sets of keys the codex may hold
  SimGas,       \* what a simulation may measure
  NodeLimits,   \* what getActiveGasLimit may return
  MaxClock,     \* bound on the clock
  Ttl,          \* how long after its creationTime the chain takes a transaction
  PollAfter     \* the errors after which the consumer waits to learn the
                \* transaction's fate before it executes the job again

ASSUME CodexAssumption == \A c \in Codexes : c \subseteq Keys
ASSUME BoundAssumption == MaxClock \in Nat /\ Ttl \in Nat

(* The arguments: the guards, the payment key, the foreign private keys    *)
(* resolved beforehand, the signers the build closure adds by itself and   *)
(* the extraSigners; canAsk says if the resolver has requestForeignKey.    *)
JobRecords == [guards : Seq([pred : STRING, keys : Seq(Keys), ref : STRING]),
               payment : Keys \cup {NoKey},
               pasted : [Keys -> {"absent", "blank", "given"}],
               wired : SUBSET Keys, extra : SUBSET Keys, canAsk : BOOLEAN]

ASSUME JobAssumption == Jobs \subseteq JobRecords

VARIABLES
  codex,    \* the keys the resolver can sign for now
  clock,    \* seconds
  runs,     \* the executions
  wire      \* by execution, what became of the transaction it submitted

vars == <<codex, clock, runs, wire>>

Phases == {"idle", "listing", "guardKeys", "capsKey", "simulating", "signing",
           "submitting", "resolved", "rejected"}
Errors == {"none", "SmartAccountAuth", "foreign key", "no key", "no GAS_PAYER",
           "impossible", "build", "simulation", "dirtyRead", "signing", "submit",
           "TIMEOUT"}

NoTx == [creationTime |-> 0, gasPrice |-> 0, gasLimit |-> 0, signers |-> {}]

(* capsKey, guardPubs, sim and tx are the code's; codexPubs its snapshot;  *)
(* left the guard keys still to be collected; asked every public key the   *)
(* resolver was asked for; sigs the keys that signed; root the execution   *)
(* this one repeats, or itself.                                            *)
Idle(e, job) ==
  [phase |-> "idle", error |-> "none", job |-> job, codexPubs |-> {},
   left |-> <<>>, guardPubs |-> <<>>, asked |-> <<>>, capsKey |-> NoKey,
   sim |-> NoTx, tx |-> NoTx, sigs |-> {}, root |-> e]

Init ==
  /\ codex \in Codexes
  /\ clock = 0
  /\ \E job \in Jobs : runs = [e \in Executions |-> Idle(e, job)]
  /\ wire = [e \in Executions |-> "none"]

In(e, phase) == runs[e].phase = phase

Reject(e, error) ==
  runs' = [runs EXCEPT ![e].phase = "rejected", ![e].error = error]

-----------------------------------------------------------------------------
(* B: the guards against the codex *)

Given(job) == {k \in Keys : job.pasted[k] = "given"}
Guards(job) == {job.guards[i] : i \in DOMAIN job.guards}
KeysOf(guard) == {guard.keys[i] : i \in DOMAIN guard.keys}
NothingPasted == [k \in Keys |-> "absent"]

(* A smart account's guard none of whose keys is in the codex, whatever    *)
(* was pasted; an empty keyset counts as such a guard.                     *)
NoCodexPath(guard, codexPubs) ==
  /\ guard.ref = "smart account"
  /\ CodexKeys(guard, codexPubs) = {}
  /\ \/ guard.keys = <<>>
     \/ ~Satisfied(guard, codexPubs, NothingPasted)

(* A guard lists a key that is neither in the codex nor, be it blank,      *)
(* among the resolved foreign keys.                                        *)
UnresolvedForeignKey(job, codexPubs) ==
  \E g \in Guards(job), k \in Keys :
    k \in KeysOf(g) \ codexPubs /\ job.pasted[k] = "absent"

(* The listed keys that are among some, in their order. *)
Among(keys, some) ==
  FoldLeft(LAMBDA kept, k : IF k \in some THEN Append(kept, k) ELSE kept, <<>>, keys)

(* C and D: of each guard the keys that sign it, codex keys first, up to   *)
(* the threshold; a key that already signs for another guard is not taken  *)
(* again.                                                                  *)
NeededBug(guard, codexPubs, pasted) ==   \* one short of the threshold
  SubSeq(Among(guard.keys, codexPubs), 1,
         Least(Most(1, Threshold(guard) - 1), Len(Among(guard.keys, codexPubs))))

Needed(guard, codexPubs, pasted) ==
  LET given     == {k \in Keys \ codexPubs : pasted[k] = "given"}
      available == Among(guard.keys, codexPubs) \o Among(guard.keys, given)
  IN  SubSeq(available, 1, Least(Threshold(guard), Len(available)))

CollectBug(keys) == keys   \* seenGuardPub is forgotten

Collect(keys) ==
  FoldLeft(LAMBDA seen, k : IF Contains(seen, k) THEN seen ELSE Append(seen, k),
           <<>>, keys)

GuardSigners(job, codexPubs) ==
  Collect(FlattenSeq([i \in DOMAIN job.guards |->
                        Needed(job.guards[i], codexPubs, job.pasted)]))

-----------------------------------------------------------------------------
(* execute *)

Execute(e) ==
  /\ In(e, "idle")
  /\ runs[e].root = e
  /\ runs' = [runs EXCEPT ![e].phase = "listing"]
  /\ UNCHANGED <<codex, clock, wire>>

(* listCodexPubs answers; everything up to the first key is synchronous.   *)
RejectSmartAccount(e) ==
  /\ In(e, "listing")
  /\ \E g \in Guards(runs[e].job) : NoCodexPath(g, codex)
  /\ Reject(e, "SmartAccountAuth")
  /\ UNCHANGED <<codex, clock, wire>>

RejectForeignKey(e) ==
  /\ In(e, "listing")
  /\ \A g \in Guards(runs[e].job) : ~NoCodexPath(g, codex)
  /\ ~runs[e].job.canAsk
  /\ UnresolvedForeignKey(runs[e].job, codex)
  /\ Reject(e, "foreign key")
  /\ UNCHANGED <<codex, clock, wire>>

AcceptGuards(e) ==
  /\ In(e, "listing")
  /\ \A g \in Guards(runs[e].job) : ~NoCodexPath(g, codex)
  /\ runs[e].job.canAsk \/ ~UnresolvedForeignKey(runs[e].job, codex)
  /\ runs' = [runs EXCEPT ![e].phase = "guardKeys",
                          ![e].codexPubs = codex,
                          ![e].left = GuardSigners(runs[e].job, codex)]
  /\ UNCHANGED <<codex, clock, wire>>

(* A pasted key is used as it is; for any other the resolver is asked. *)
Pasted(e, k) == k \notin runs[e].codexPubs

AddGuardKey(e) ==
  /\ In(e, "guardKeys")
  /\ runs[e].left # <<>>
  /\ LET k == Head(runs[e].left)
     IN  /\ Pasted(e, k) \/ k \in codex
         /\ runs' = [runs EXCEPT
              ![e].left = Tail(@), ![e].guardPubs = Append(@, k),
              ![e].asked = IF Pasted(e, k) THEN @ ELSE Append(@, k)]
  /\ UNCHANGED <<codex, clock, wire>>

(* The key has left the codex, or the user dismisses the prompt for it. *)
GuardKeyMissing(e) ==
  /\ In(e, "guardKeys")
  /\ runs[e].left # <<>>
  /\ ~Pasted(e, Head(runs[e].left))
  /\ Reject(e, "no key")
  /\ UNCHANGED <<codex, clock, wire>>

(* E *)
CapsChoicesOf(e) ==
  CapsChoices(runs[e].job.payment, runs[e].codexPubs, ToSet(runs[e].guardPubs))

ChooseCapsKeyBug(e) ==   \* only caps.impossible is checked
  /\ In(e, "guardKeys")
  /\ runs[e].left = <<>>
  /\ \E caps \in CapsChoicesOf(e) :
       IF caps.impossible THEN Reject(e, "impossible")
       ELSE runs' = [runs EXCEPT ![e].phase = "capsKey", ![e].capsKey = caps.key,
                                 ![e].asked = Append(@, caps.key)]
  /\ UNCHANGED <<codex, clock, wire>>

ChooseCapsKey(e) ==
  /\ In(e, "guardKeys")
  /\ runs[e].left = <<>>
  /\ \E caps \in CapsChoicesOf(e) :
       \/ /\ caps.key # NoKey
          /\ runs' = [runs EXCEPT ![e].phase = "capsKey", ![e].capsKey = caps.key,
                                  ![e].asked = Append(@, caps.key)]
       \/ /\ caps.key = NoKey
          /\ Reject(e, IF caps.impossible THEN "impossible" ELSE "no GAS_PAYER")
  /\ UNCHANGED <<codex, clock, wire>>

CapsKeyMissing(e) ==
  /\ In(e, "capsKey")
  /\ Reject(e, "no key")
  /\ UNCHANGED <<codex, clock, wire>>

(* F: the one reading of the clock, the first build, the dirtyRead. *)
Build(e, meta, gasLimit) ==
  [creationTime |-> meta.creationTime, gasPrice |-> meta.gasPrice,
   gasLimit |-> gasLimit,
   signers |-> {runs[e].capsKey} \cup ToSet(runs[e].guardPubs) \cup runs[e].job.wired]

SimulationGasLimit == 500000

Simulate(e) ==
  /\ In(e, "capsKey")
  /\ runs[e].capsKey \in codex
  /\ runs' = [runs EXCEPT ![e].phase = "simulating",
                          ![e].sim = Build(e, StoaGasMeta(clock), SimulationGasLimit)]
  /\ UNCHANGED <<codex, clock, wire>>

(* The build closure of the caller throws. *)
BuildFails(e) ==
  /\ In(e, "capsKey")
  /\ runs[e].capsKey \in codex
  /\ Reject(e, "build")
  /\ UNCHANGED <<codex, clock, wire>>

MetaOfRealBug(e) ==   \* a second reading of the clock, for creationTime only
  [creationTime |-> clock, gasPrice |-> runs[e].sim.gasPrice]

(* The second build reuses the meta of the first. *)
MetaOfReal(e) ==
  [creationTime |-> runs[e].sim.creationTime, gasPrice |-> runs[e].sim.gasPrice]

(* Enough of each guard's keys are among the signers the chain is shown.   *)
GuardsMet(job, signers) ==
  \A g \in Guards(job) :
    Cardinality(KeysOf(g) \cap signers) >=
      IF g.pred \in Predicates
      THEN ComputeThreshold(g.pred, Cardinality(KeysOf(g))) ELSE 0

(* dirtyRead answers with success, which it does only if the guards are    *)
(* met by the signers listed; it verifies no signature.  The real build    *)
(* follows, and the keys at hand sign it: every keypair collected or given *)
(* as an extra signer.                                                     *)
Held(e) == {runs[e].capsKey} \cup ToSet(runs[e].guardPubs) \cup runs[e].job.extra

SimulationSucceeds(e) ==
  /\ In(e, "simulating")
  /\ GuardsMet(runs[e].job, runs[e].sim.signers)
  /\ \E gas \in SimGas, nodeLimit \in NodeLimits :
       \E gasLimit \in AutoGasLimits(gas, nodeLimit) :
         runs' = [runs EXCEPT ![e].phase = "signing",
                              ![e].tx = Build(e, MetaOfReal(e), gasLimit),
                              ![e].sigs = Held(e) \cap runs[e].sim.signers]
  /\ UNCHANGED <<codex, clock, wire>>

SimulationFailsBug(e) ==   \* result.status is not looked at
  /\ In(e, "simulating")
  /\ runs' = [runs EXCEPT ![e].phase = "signing",
                          ![e].tx = Build(e, MetaOfReal(e), MinAutoGasLimit),
                          ![e].sigs = Held(e) \cap runs[e].sim.signers]
  /\ UNCHANGED <<codex, clock, wire>>

(* dirtyRead answers with a failure. *)
SimulationFails(e) ==
  /\ In(e, "simulating")
  /\ Reject(e, "simulation")
  /\ UNCHANGED <<codex, clock, wire>>

(* dirtyRead rejects, or its 15 seconds pass. *)
SimulationErrors(e) ==
  /\ In(e, "simulating")
  /\ \E error \in {"dirtyRead", "TIMEOUT"} : Reject(e, error)
  /\ UNCHANGED <<codex, clock, wire>>

(* universalSignTransaction asks for every other signer's private key, if  *)
(* the resolver can; the answer is checked against the public key.         *)
Unsigned(e) == runs[e].tx.signers \ runs[e].sigs

AskForeignKey(e) ==
  /\ In(e, "signing")
  /\ runs[e].job.canAsk
  /\ \E k \in Unsigned(e) :
       runs' = [runs EXCEPT ![e].sigs = @ \cup {k}, ![e].asked = Append(@, k)]
  /\ UNCHANGED <<codex, clock, wire>>

ForeignKeyRefused(e) ==
  /\ In(e, "signing")
  /\ runs[e].job.canAsk
  /\ Unsigned(e) # {}
  /\ Reject(e, "no key")
  /\ UNCHANGED <<codex, clock, wire>>

(* A signature cannot be made: the hash does not match the command, or an  *)
(* encrypted key does not open; or the second build throws.                *)
SigningFails(e) ==
  /\ In(e, "signing")
  /\ runs[e].job.canAsk => Unsigned(e) = {}
  /\ Reject(e, "signing")
  /\ UNCHANGED <<codex, clock, wire>>

Submit(e) ==
  /\ In(e, "signing")
  /\ runs[e].job.canAsk => Unsigned(e) = {}
  /\ runs' = [runs EXCEPT ![e].phase = "submitting"]
  /\ wire' = [wire EXCEPT ![e] = "sent"]
  /\ UNCHANGED <<codex, clock>>

SubmitAnswered(e) ==
  /\ In(e, "submitting")
  /\ wire[e] \in {"accepted", "landed"}
  /\ runs' = [runs EXCEPT ![e].phase = "resolved"]
  /\ UNCHANGED <<codex, clock, wire>>

(* The node refused it, or the connection broke; where the transaction is  *)
(* then, the client cannot tell.                                           *)
SubmitErrors(e) ==
  /\ In(e, "submitting")
  /\ Reject(e, "submit")
  /\ UNCHANGED <<codex, clock, wire>>

(* The 60 seconds pass; the request goes on by itself. *)
SubmitTimesOutBug(e) == SubmitAnswered(e)   \* submit is awaited without a deadline

SubmitMisnamedBug(e) ==   \* the error names the other call
  /\ In(e, "submitting")
  /\ Reject(e, "dirtyRead")
  /\ UNCHANGED <<codex, clock, wire>>

SubmitTimesOut(e) ==
  /\ In(e, "submitting")
  /\ Reject(e, "TIMEOUT")
  /\ UNCHANGED <<codex, clock, wire>>

Step(e) ==
  \/ Execute(e) \/ RejectSmartAccount(e) \/ RejectForeignKey(e) \/ AcceptGuards(e)
  \/ AddGuardKey(e) \/ GuardKeyMissing(e) \/ ChooseCapsKey(e) \/ CapsKeyMissing(e)
  \/ Simulate(e) \/ BuildFails(e) \/ SimulationSucceeds(e) \/ SimulationFails(e)
  \/ SimulationErrors(e)
  \/ AskForeignKey(e) \/ ForeignKeyRefused(e) \/ SigningFails(e) \/ Submit(e)
  \/ SubmitAnswered(e) \/ SubmitErrors(e) \/ SubmitTimesOut(e)

-----------------------------------------------------------------------------
(* The consumer, the codex, the clock and the chain *)

Submitted(e) == wire[e] # "none"

(* What a consumer may know of a job before it executes it again: every    *)
(* execution of it was rejected, and after an error in PollAfter the       *)
(* transaction is known not to be on its way to the chain.                 *)
MayRepeat(root) ==
  \A g \in Executions : runs[g].root = root /\ ~In(g, "idle") =>
    /\ In(g, "rejected")
    /\ runs[g].error \in PollAfter => wire[g] \in {"none", "refused", "lost"}

ExecuteAgain(f) ==
  /\ In(f, "idle")
  /\ \E e \in Executions \ {f} :
       /\ In(e, "rejected")
       /\ MayRepeat(runs[e].root)
       /\ runs' = [runs EXCEPT ![f].phase = "listing", ![f].root = runs[e].root]
  /\ UNCHANGED <<codex, clock, wire>>

CodexChanges ==
  /\ codex' \in Codexes \ {codex}
  /\ UNCHANGED <<clock, runs, wire>>

Tick ==
  /\ clock < MaxClock
  /\ clock' = clock + 1
  /\ UNCHANGED <<codex, runs, wire>>

Expired(e) == clock > runs[e].tx.creationTime + Ttl

(* A node takes a transaction whose signers have all signed, which meets   *)
(* its guards, pays the floor of its creationTime and has not expired.     *)
NodeAccepts(e) ==
  /\ wire[e] = "sent"
  /\ Unsigned(e) = {}
  /\ GuardsMet(runs[e].job, runs[e].sigs)
  /\ runs[e].tx.gasPrice >= MinGasPriceAnu(runs[e].tx.creationTime)
  /\ ~Expired(e)
  /\ wire' = [wire EXCEPT ![e] = "accepted"]
  /\ UNCHANGED <<codex, clock, runs>>

NodeRefuses(e) ==
  /\ wire[e] = "sent"
  /\ wire' = [wire EXCEPT ![e] = "refused"]
  /\ UNCHANGED <<codex, clock, runs>>

(* The request never arrives, or the transaction expires in the mempool.   *)
TxLost(e) ==
  /\ wire[e] = "sent" \/ (wire[e] = "accepted" /\ Expired(e))
  /\ wire' = [wire EXCEPT ![e] = "lost"]
  /\ UNCHANGED <<codex, clock, runs>>

Mine(e) ==
  /\ wire[e] = "accepted"
  /\ ~Expired(e)
  /\ wire' = [wire EXCEPT ![e] = "landed"]
  /\ UNCHANGED <<codex, clock, runs>>

Environment(e) ==
  ExecuteAgain(e) \/ NodeAccepts(e) \/ NodeRefuses(e) \/ TxLost(e) \/ Mine(e)

Next ==
  \/ \E e \in Executions : Step(e) \/ Environment(e)
  \/ CodexChanges
  \/ Tick

Spec == Init /\ [][Next]_vars

(* The deadlines of dirtyRead and submit pass.  Nothing is assumed of the  *)
(* user, the codex, the consumer or the chain.                             *)
Fairness ==
  \A e \in Executions :
    /\ WF_vars(SimulationErrors(e))
    /\ WF_vars(SubmitTimesOut(e))

FairSpec == Spec /\ Fairness

-----------------------------------------------------------------------------
(* Properties *)

TypeOK ==
  /\ codex \in Codexes
  /\ clock \in 0..MaxClock
  /\ wire \in [Executions -> {"none", "sent", "accepted", "refused", "lost", "landed"}]
  /\ \A e \in Executions :
       /\ runs[e].phase \in Phases /\ runs[e].error \in Errors
       /\ (runs[e].error # "none") <=> In(e, "rejected")
       /\ runs[e].job \in Jobs
       /\ runs[e].codexPubs \subseteq Keys
       /\ runs[e].capsKey \in Keys \cup {NoKey}
       /\ In(e, "capsKey") => runs[e].capsKey # NoKey
       /\ runs[e].root \in Executions

(* The key that carries GAS_PAYER never signs for a guard as well, whatever *)
(* keys the guards, the payment key and the codex have in common           *)
(* (step E of execute).                                                    *)
CapsKeySignsNoGuard ==
  \A e \in Executions :
    runs[e].capsKey # NoKey => runs[e].capsKey \notin ToSet(runs[e].guardPubs)

(* Execute asks its resolver, that is the user, for each private key at    *)
(* most once, however many guards list it.                                 *)
AskedOnce ==
  \A e \in Executions :
    \A i, j \in DOMAIN runs[e].asked : runs[e].asked[i] = runs[e].asked[j] => i = j

(* One key, one role, one prompt: what step E of execute and its resolver  *)
(* promise of keys shared by guards, payment and foreign signers.          *)
KeysAreSeparate == CapsKeySignsNoGuard /\ AskedOnce

(* A guard that the analysis reports as satisfied is met by the signers    *)
(* collected for it, counting distinct keys as the chain does              *)
(* (codexStrategy.ts:171-172).                                             *)
SatisfiedGuardsAreMet ==
  \A e \in Executions :
    /\ runs[e].phase \in {"capsKey", "simulating", "signing", "submitting", "resolved"}
    /\ \A g \in Guards(runs[e].job) :
         g.pred \in Predicates /\ Satisfied(g, runs[e].codexPubs, runs[e].job.pasted)
    => GuardsMet(runs[e].job, ToSet(runs[e].guardPubs))

(* Nothing reaches a node that the chain's guards would turn down: neither *)
(* an unresolved foreign key nor a key lost on the way gets past the       *)
(* simulation.                                                             *)
SubmittedMeetsGuards ==
  \A e \in Executions : Submitted(e) => GuardsMet(runs[e].job, runs[e].tx.signers)

(* From the analysis to the wire the guards stay met, although the codex   *)
(* changes at every prompt (codexStrategy.ts:95-197).                      *)
GuardsAreMet == SatisfiedGuardsAreMet /\ SubmittedMeetsGuards

(* The submitted transaction pays exactly the floor of its own             *)
(* creationTime, however long the simulation and the prompts took          *)
(* (codexStrategy.ts:218-221).                                             *)
PriceIsOfItsTime ==
  \A e \in Executions :
    Submitted(e) => runs[e].tx.gasPrice = MinGasPriceAnu(runs[e].tx.creationTime)

(* Every calibrated gas limit is at least MIN_AUTO_GAS_LIMIT ("The floor   *)
(* guarantees every auto-calibrated tx gets a workable limit",             *)
(* gasUtils.ts:124).                                                       *)
WorkableGasLimit ==
  \A e \in Executions : Submitted(e) => runs[e].tx.gasLimit >= MinAutoGasLimit

(* However often a consumer that polls before it repeats executes a job,   *)
(* its transactions land at most once (codexStrategy.ts:50-67).            *)
LandsOnce ==
  \A e, f \in Executions :
    wire[e] = "landed" /\ wire[f] = "landed" /\ runs[e].root = runs[f].root => e = f

(* Neither a simulation nor a submission hangs, though no node ever        *)
(* answers.                                                                *)
ChainCallsSettle ==
  \A e \in Executions : (In(e, "simulating") ~> ~In(e, "simulating"))
                        /\ (In(e, "submitting") ~> ~In(e, "submitting"))

(* "tx impossible without guard rotation" (guardUtils.ts:331): when no key *)
(* is left for gas, every way to meet the guards uses up the codex.        *)
ImpossibleIsImpossible ==
  \A e \in Executions :
    runs[e].error = "impossible" =>
      \A signers \in SUBSET (runs[e].codexPubs \cup Given(runs[e].job)) :
        GuardsMet(runs[e].job, signers) => runs[e].codexPubs \subseteq signers

=============================================================================
