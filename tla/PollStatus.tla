----------------------------- MODULE PollStatus -----------------------------
(***************************************************************************)
(* Waiting for results with the vendored client:                           *)
(* packages/kadena-stoic-legacy/src/client/client.  One pollStatus call    *)
(* groups its request keys by host (client.cjs, groupByHost) and starts    *)
(* one retry loop per host (api/status.cjs over utils/retry.cjs); a        *)
(* pollCreateSpv call starts one loop of its own (api/spv.cjs).            *)
(*                                                                         *)
(* A round of a loop is Promise.race of an abort listener, a timer and a   *)
(* task that first sleeps 1 ms.  The race has a winner, but its losers are *)
(* not stopped: a task that lost to the timer still sends its request,     *)
(* resolves promises and calls the consumer back.                          *)
(*                                                                         *)
(* Time is a flag per loop: expired says that the loop's deadline has      *)
(* passed.  A round passes on the time that is left, so the deadline is    *)
(* that of the first round.  The node is external: it reports any of the   *)
(* keys it was asked for, answers late, or fails.                          *)
(***************************************************************************)
EXTENDS Naturals

CONSTANTS
  Keys,        \* the request keys of the pollStatus call
  HostOf,      \* the host each key is polled at
  ProofJobs    \* the pollCreateSpv calls

Hosts == {HostOf[k] : k \in Keys}

ASSUME PollAssumption == Hosts \cap ProofJobs = {} /\ Keys \cap ProofJobs = {}

Loops == Hosts \cup ProofJobs

(* What is promised to the caller: a result per key, a proof per job. *)
Items == Keys \cup ProofJobs

(* groupByHost: the keys of a host's loop; a job's loop is about itself. *)
ItemsOf(l) == IF l \in ProofJobs THEN {l} ELSE {k \in Keys : HostOf[k] = l}

VARIABLES
  aborted,   \* whether the signal of the options has been aborted
  loop,      \* each loop: idle, racing, waiting (interval), or how it ended
  expired,   \* whether the loop's deadline has passed
  pending,   \* requestKeys: what the loop still asks for
  waking,    \* tasks in their 1 ms sleep
  polls,     \* the requests in flight, each the set of keys it asks for
  promise,   \* the promise of each item
  calls,     \* onResult calls per key, counted up to two
  threw,     \* keys whose onResult call has thrown
  heard      \* keys a node reported to a loop that had not ended

vars == <<aborted, loop, expired, pending, waking, polls, promise, calls,
          threw, heard>>

Ended == {"done", "timedout", "aborted"}

TypeOK ==
  /\ aborted \in BOOLEAN
  /\ loop \in [Loops -> {"idle", "racing", "waiting"} \cup Ended]
  /\ expired \in [Loops -> BOOLEAN]
  /\ pending \in [Loops -> SUBSET Items]
  /\ waking \in [Loops -> Nat]
  /\ polls \in [Loops -> SUBSET SUBSET Items]
  /\ promise \in [Items -> {"pending", "resolved", "timedout", "aborted"}]
  /\ calls \in [Keys -> 0..2]
  /\ threw \subseteq Keys
  /\ heard \subseteq Keys

Init ==
  /\ aborted = FALSE
  /\ loop = [l \in Loops |-> "idle"]
  /\ expired = [l \in Loops |-> FALSE]
  /\ pending = [l \in Loops |-> ItemsOf(l)]
  /\ waking = [l \in Loops |-> 0]
  /\ polls = [l \in Loops |-> {}]
  /\ promise = [i \in Items |-> "pending"]
  /\ calls = [k \in Keys |-> 0]
  /\ threw = {}
  /\ heard = {}

(***************************************************************************)
(* The rounds of a loop (retry.cjs).                                       *)
(***************************************************************************)

(* retryStatus(..).catch: the promises that are not fulfilled are rejected. *)
RejectRest(ls, why) ==
  promise' = [i \in Items |->
                IF promise[i] = "pending" /\ \E l \in ls : i \in ItemsOf(l)
                THEN why ELSE promise[i]]

(* The loops that listen to the signal: pollSpv passes none to retry. *)
Listens(l) == l \in Hosts

(* Mutant for AbortSettles: only the event is listened to, not the state at the start. *)
RunTaskBug(ls) ==
  /\ waking' = [l \in Loops |-> waking[l] + (IF l \in ls THEN 1 ELSE 0)]
  /\ loop' = [l \in Loops |-> IF l \in ls THEN "racing" ELSE loop[l]]
  /\ UNCHANGED promise

(* runTask: the task starts its 1 ms sleep in any case; under an aborted    *)
(* signal the round loses at once, and the loop with it.                    *)
RunTask(ls) ==
  /\ waking' = [l \in Loops |-> waking[l] + (IF l \in ls THEN 1 ELSE 0)]
  /\ LET stopped == {l \in ls : Listens(l) /\ aborted}
     IN  /\ loop' = [l \in Loops |-> IF l \in stopped THEN "aborted"
                                     ELSE IF l \in ls THEN "racing"
                                     ELSE loop[l]]
         /\ RejectRest(stopped, "aborted")

(* client.pollStatus: one loop per host, all started in the same call. *)
CallPollStatus ==
  /\ Hosts # {} /\ \A h \in Hosts : loop[h] = "idle"
  /\ RunTask(Hosts)
  /\ UNCHANGED <<aborted, expired, pending, polls, calls, threw, heard>>

(* client.pollCreateSpv. *)
CallPollSpv(j) ==
  /\ loop[j] = "idle"
  /\ RunTask({j})
  /\ UNCHANGED <<aborted, expired, pending, polls, calls, threw, heard>>

(* Mutant for QuietAfterEnd: the catch block does not look at the error. *)
TaskFailsBug(l) == loop' = [loop EXCEPT ![l] = "waiting"]

(* The task has rejected: if its round still runs, the loop sleeps for the  *)
(* interval; a round that is over does not notice.                          *)
TaskFails(l) ==
  loop' = [loop EXCEPT ![l] = IF @ = "racing" THEN "waiting" ELSE @]

(* Mutant for ExpirySettles: every round starts with the full timeout. *)
SleepEndsBug(l) ==
  /\ loop[l] = "waiting"
  /\ RunTask({l})
  /\ expired' = [expired EXCEPT ![l] = FALSE]
  /\ UNCHANGED <<aborted, pending, polls, calls, threw, heard>>

(* The interval is over: the next round, with the time that is left. *)
SleepEnds(l) ==
  /\ loop[l] = "waiting"
  /\ RunTask({l})
  /\ UNCHANGED <<aborted, expired, pending, polls, calls, threw, heard>>

(* The loop's deadline passes. *)
Expire(l) ==
  /\ loop[l] \in {"racing", "waiting"} /\ ~expired[l]
  /\ expired' = [expired EXCEPT ![l] = TRUE]
  /\ UNCHANGED <<aborted, loop, pending, waking, polls, promise, calls, threw,
                 heard>>

(* Mutant for OneTaskAtATime: a timeout leads to another round like any error. *)
TimeoutRetriedBug(l) ==
  /\ loop[l] = "racing" /\ expired[l]
  /\ loop' = [loop EXCEPT ![l] = "waiting"]
  /\ UNCHANGED <<aborted, expired, pending, waking, polls, promise, calls,
                 threw, heard>>

(* The timer rejects with TIME_OUT_REJECT, which ends the loop.  It is set  *)
(* in a round only, and cleared when the round's task settles.              *)
TimeoutFires(l) ==
  /\ loop[l] = "racing" /\ expired[l]
  /\ loop' = [loop EXCEPT ![l] = "timedout"]
  /\ RejectRest({l}, "timedout")
  /\ UNCHANGED <<aborted, expired, pending, waking, polls, calls, threw, heard>>

(* The consumer aborts: the rounds that listen reject with ABORTED.  A loop *)
(* between two rounds learns of it in its next one.                         *)
Abort ==
  /\ ~aborted /\ aborted' = TRUE
  /\ LET stopped == {l \in Loops : Listens(l) /\ loop[l] = "racing"}
     IN  /\ loop' = [l \in Loops |-> IF l \in stopped THEN "aborted" ELSE loop[l]]
         /\ RejectRest(stopped, "aborted")
  /\ UNCHANGED <<expired, pending, waking, polls, calls, threw, heard>>

(***************************************************************************)
(* The task of a round (status.cjs, spv.cjs).                              *)
(***************************************************************************)

(* Mutant for TypeOK: the pending task is not accounted for. *)
WakesBug(l) == waking' = [waking EXCEPT ![l] = @ - 1]

(* The 1 ms sleep is over.  A timer that is due goes first: it was set      *)
(* before the sleep ("to let the timeout promise reject first").            *)
Wakes(l) ==
  /\ waking[l] > 0
  /\ ~(loop[l] = "racing" /\ expired[l])
  /\ waking' = [waking EXCEPT ![l] = @ - 1]

(* The request is sent. *)
SendPoll(l) ==
  /\ Wakes(l)
  /\ polls' = [polls EXCEPT ![l] = @ \cup {pending[l]}]
  /\ UNCHANGED <<aborted, loop, expired, pending, promise, calls, threw, heard>>

(* onPoll throws before it is. *)
OnPollThrows(h) ==
  /\ Wakes(h)
  /\ TaskFails(h)
  /\ UNCHANGED <<aborted, expired, pending, polls, promise, calls, threw, heard>>

(* Mutant for HeardIsResolved: only the first item of a response is handled. *)
OutcomesBug(reported) ==
  IF reported = {} THEN {[handled |-> {}, thrower |-> {}]}
  ELSE {[handled |-> {k}, thrower |-> {}] : k \in reported}

(* How the forEach over a response can go, for the keys it reports: all of  *)
(* them are handled, or onResult throws for one after some of the others.   *)
Outcomes(reported) ==
  {[handled |-> reported, thrower |-> {}]} \cup
  {[handled |-> o[1], thrower |-> {o[2]}] :
     o \in {p \in (SUBSET reported) \X reported : p[2] \notin p[1]}}

(* Mutant for SettledBeforeCallback: the callback comes first. *)
ResolvedBug(handled, thrower) == handled

(* prs[item.reqKey].resolve(item) comes before the callback ... *)
Resolved(handled, thrower) == handled \cup thrower

(* Mutant for CalledOnce: answered keys stay in requestKeys. *)
RemainingBug(h, handled) == pending[h]

(* ... and the key leaves requestKeys after it. *)
Remaining(h, handled) == pending[h] \ handled

(* The response to the request for asked, handled with outcome o. *)
Deliver(h, asked, reported, o) ==
  /\ polls' = [polls EXCEPT ![h] = @ \ {asked}]
  /\ promise' = [i \in Items |->
       IF promise[i] = "pending" /\ i \in Resolved(o.handled, o.thrower)
       THEN "resolved" ELSE promise[i]]
  /\ calls' = [k \in Keys |->
       IF k \in o.handled \cup o.thrower /\ calls[k] < 2
       THEN calls[k] + 1 ELSE calls[k]]
  /\ threw' = threw \cup o.thrower
  /\ pending' = [pending EXCEPT ![h] = Remaining(h, o.handled)]
  /\ heard' = IF loop[h] \in Ended THEN heard ELSE heard \cup reported
  /\ IF o.thrower = {} /\ pending'[h] = {}
     THEN loop' = [loop EXCEPT ![h] = IF @ = "racing" THEN "done" ELSE @]
     ELSE TaskFails(h)
  /\ UNCHANGED <<aborted, expired, waking>>

(* A node reports the results of some of the keys it was asked for. *)
Answer(h) ==
  \E asked \in polls[h] : \E reported \in SUBSET asked :
    \E o \in Outcomes(reported) : Deliver(h, asked, reported, o)

(* The request fails: onPoll is told, and the task rejects. *)
PollFails(l) ==
  \E asked \in polls[l] :
    /\ polls' = [polls EXCEPT ![l] = @ \ {asked}]
    /\ TaskFails(l)
    /\ UNCHANGED <<aborted, expired, pending, waking, promise, calls, threw, heard>>

(* getSpv returns a proof: the loop's own promise is the caller's.  (Without *)
(* one it throws PROOF_IS_NOT_AVAILABLE, a failure like any other.)          *)
ProofArrives(j) ==
  \E asked \in polls[j] :
    /\ polls' = [polls EXCEPT ![j] = @ \ {asked}]
    /\ loop' = [loop EXCEPT ![j] = IF @ = "racing" THEN "done" ELSE @]
    /\ promise' = [promise EXCEPT ![j] = IF loop[j] = "racing" THEN "resolved"
                                         ELSE @]
    /\ UNCHANGED <<aborted, expired, pending, waking, calls, threw, heard>>

Next ==
  \/ CallPollStatus
  \/ Abort
  \/ \E j \in ProofJobs : CallPollSpv(j) \/ ProofArrives(j)
  \/ \E h \in Hosts : OnPollThrows(h) \/ Answer(h)
  \/ \E l \in Loops : \/ SleepEnds(l) \/ Expire(l) \/ TimeoutFires(l)
                      \/ SendPoll(l) \/ PollFails(l)

Spec == Init /\ [][Next]_vars

(* Timers fire.  A deadline need not be modelled as fair (see the            *)
(* properties), and a request may stay unanswered for ever.                  *)
FairSpec ==
  Spec /\ \A l \in Loops : WF_vars(SleepEnds(l)) /\ WF_vars(TimeoutFires(l))

(***************************************************************************)
(* Properties.                                                             *)
(***************************************************************************)

(* A loop never has two tasks under way, sleeping or polling, although a    *)
(* round's losers are not cancelled: only a task that has rejected leads to *)
(* another round (retry.cjs:37-43).                                         *)
OneTaskAtATime ==
  \A l \in Loops : /\ waking[l] <= 1
                   /\ polls[l] # {} => waking[l] = 0
                   /\ \A a, b \in polls[l] : a = b

(* onResult is called once per key, by however many rounds and late answers,*)
(* unless the callback itself threw: then the key is polled for again       *)
(* (status.cjs:25-26).                                                      *)
CalledOnce == \A k \in Keys : calls[k] > 1 => k \in threw

(* A consumer who has been called back for a key never finds its promise    *)
(* pending, whatever the callback does (status.cjs:24-25).                  *)
SettledBeforeCallback == \A k \in Keys : calls[k] > 0 => promise[k] # "pending"

(* What onResult may rely on (status.cjs:24-26): it is called once per key, *)
(* after that key's promise has settled, unless it throws.                  *)
CallbackContract == CalledOnce /\ SettledBeforeCallback

(* A loop that is done has resolved every promise it answers for: nothing   *)
(* is left that no later round would settle (status.cjs:33, 38-44).         *)
DoneMeansAll ==
  \A l \in Loops : loop[l] = "done" =>
    \A i \in ItemsOf(l) : promise[i] = "resolved"

(* A result the node reported in time reaches the caller, even if the loop  *)
(* then times out or is aborted; the only excuse is a throwing onResult,    *)
(* which also keeps the keys behind it in the response waiting              *)
(* (status.cjs:23-27).                                                      *)
HeardIsResolved ==
  \A k \in heard : \/ promise[k] = "resolved"
                   \/ \E t \in threw : HostOf[t] = HostOf[k]

(* A loop that has ended stays so; of its last round at most the task under *)
(* way runs on, sends its one request and gets its answer.                  *)
QuietAfterEnd ==
  [][\A l \in Loops : loop[l] \in Ended =>
       /\ loop'[l] = loop[l]
       /\ waking'[l] <= waking[l]
       /\ polls'[l] \ polls[l] # {} => waking'[l] < waking[l]]_vars

Settled(l) == \A i \in ItemsOf(l) : promise[i] # "pending"

(* Once the deadline has passed every promise of the loop is settled, even  *)
(* if the node never answers: rounds pass on the time that is left          *)
(* (retry.cjs:42-43), so failing rounds cannot outrun the timeout.          *)
ExpirySettles == \A l \in Loops : expired[l] ~> Settled(l)

(* After an abort, in whatever part of a round it comes, the promises of    *)
(* pollStatus settle without waiting for the deadline (retry.cjs:20-23).    *)
AbortSettles ==
  \A h \in Hosts : (aborted /\ loop[h] # "idle") ~> Settled(h)

(* No promise stays pending: deadlines and aborts both end their loops,     *)
(* with throwing callbacks, failing requests and silent nodes (retry.cjs).  *)
LoopsSettle == ExpirySettles /\ AbortSettles
=============================================================================
