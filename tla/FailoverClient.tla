--------------------------- MODULE FailoverClient ---------------------------
(***************************************************************************)
(* network/failoverClient.ts: getFailoverClient's dirtyRead, submit,       *)
(* listen and pollOne.  Each is withFailover around runWithTimeout around  *)
(* one HTTP request, so a call of NodeFailover becomes up to two requests, *)
(* each with a deadline and an AbortController of its own.                 *)
(*                                                                         *)
(* A deadline stops the waiting, not the request: the node may serve it    *)
(* later, and a submitted transaction it accepts may still be mined.       *)
(*                                                                         *)
(* pollOne is a loop of such requests (PollStatus): it swallows the errors *)
(* of its rounds, is not given the signal, and has a deadline of its own.  *)
(***************************************************************************)
EXTENDS NodeFailover

CONSTANTS
  Submissions,   \* the calls that are submit
  Polls,         \* the calls that are pollOne; the others are single reads
  MaxEdits       \* bound: how often a caller changes the object it submits

ASSUME SubmissionAssumption ==
  /\ Submissions \subseteq Calls /\ Polls \subseteq Calls \ Submissions
  /\ MaxEdits \in Nat

Attempts == {"first", "retry"}

VARIABLES
  transaction, \* by call, the version of the object its caller holds
  wire,     \* by call and attempt, its HTTP request
  aborted,  \* the AbortControllers that were aborted, i.e. deadlines passed
  pool,     \* by node, the request keys its mempool has accepted
  landed,   \* the request keys mined on chain
  result    \* by call, how its promise settled

netVars == <<pool, landed>>
clientVars == <<transaction, wire, aborted, pool, landed, result>>
allVars == <<vars, clientVars>>

NoRequest == [state |-> "none", host |-> Node2, version |-> 0]

(* sent: on its way to the node; served and refused: the node processed it *)
(* and its answer is on its way back; broken: the connection failed;       *)
(* stillborn: fetch was given a signal that is already aborted.  Of a poll *)
(* it is the state of the loop: sent, refused and broken are its rounds,   *)
(* served and expired its ends.  Its version is that of the body.          *)
Requests == [state : {"none", "sent", "served", "refused", "broken", "stillborn", "expired"},
             host : Hosts,
             version : 0..MaxEdits]
Results == {"none", "ok", "other", "network", "TIMEOUT"}

(* The key a node computes is that of the body it was sent. *)
RequestKey(c, attempt) == [call |-> c, version |-> wire[c][attempt].version]
RequestKeys == [call : Submissions, version : 0..MaxEdits]

(* Variants named ...Bug are what a plausible mistake would turn the       *)
(* definition after them into; no specification uses them.                 *)
CarriedBug(c, attempt) ==   \* the transaction is rebuilt for the fallback
  IF attempt = "first" THEN transaction[c] ELSE MaxEdits - transaction[c]

(* What the body of an attempt says.  The closure captured the caller's    *)
(* object, not its contents, and the client serialises it at every send:   *)
(* an attempt carries what the object says at that moment.                 *)
Carried(c, attempt) == transaction[c]

ControllerBug(c, attempt) == <<c, "first">>   \* hoisted out of the callback

(* runWithTimeout constructs an AbortController per invocation. *)
Controller(c, attempt) == <<c, attempt>>

ClientInit ==
  /\ Init
  /\ transaction = [c \in Calls |-> 0]
  /\ wire = [c \in Calls |-> [a \in Attempts |-> NoRequest]]
  /\ aborted = {}
  /\ pool = [h \in Hosts |-> {}]
  /\ landed = {}
  /\ result = [c \in Calls |-> "none"]

-----------------------------------------------------------------------------
(* The client *)

Current(c) == wire[c][calls[c].phase]

(* What ends an attempt with an error withFailover does not recognise.  Of *)
(* a poll only TIME_OUT_REJECT does.                                       *)
RejectedBy(c) == IF c \in Polls THEN "expired" ELSE "refused"

(* fn(baseUrl): createClient for the host and fetch with the signal of a   *)
(* fresh controller, which pollOne is not given.                           *)
Send(c, attempt) ==
  wire' = [wire EXCEPT ![c][attempt] =
    [state |-> IF c \notin Polls /\ Controller(c, attempt) \in aborted'
               THEN "stillborn" ELSE "sent",
     host  |-> calls'[c].target,
     version |-> Carried(c, attempt)]]

Start(c) ==
  /\ result[c] = "none"
  /\ BeginCall(c)
  /\ aborted' = aborted
  /\ Send(c, "first")
  /\ UNCHANGED <<transaction, netVars, result>>

Settle(c, outcome, as) ==
  /\ SettleCall(c, outcome)
  /\ result' = [result EXCEPT ![c] = as]
  /\ UNCHANGED wire

(* The attempt failed with an error withFailover recognises: the fallback  *)
(* is tried, or the error leaves withFailover and is classified.           *)
AttemptFails(c, as) ==
  \/ RetryCall(c) /\ Send(c, "retry") /\ UNCHANGED result
  \/ Settle(c, "network", as)

AnswerArrivesBug(c) ==   \* an error status is not looked at
  /\ InFlight(c)
  /\ Current(c).state \in {"served", RejectedBy(c)}
  /\ Settle(c, "ok", "ok")
  /\ UNCHANGED <<transaction, aborted, netVars>>

AnswerRetriedBug(c) ==   \* every error is taken for a network error
  /\ InFlight(c)
  /\ aborted' = aborted
  /\ \/ Current(c).state = "served" /\ Settle(c, "ok", "ok")
     \/ Current(c).state = RejectedBy(c) /\ AttemptFails(c, "other")
  /\ UNCHANGED <<transaction, netVars>>

(* The answer of the node wins the race against the deadline. *)
AnswerArrives(c) ==
  /\ InFlight(c)
  /\ \/ Current(c).state = "served" /\ Settle(c, "ok", "ok")
     \/ Current(c).state = RejectedBy(c) /\ Settle(c, "other", "other")
  /\ UNCHANGED <<transaction, aborted, netVars>>

ConnectionErrorBug(c) ==   \* a poll's network errors reach withFailover, too
  /\ InFlight(c)
  /\ Current(c).state = "broken"
  /\ aborted' = aborted
  /\ AttemptFails(c, "network")
  /\ UNCHANGED <<transaction, netVars>>

(* "Failed to fetch", "NetworkError", "ECONNREFUSED". *)
ConnectionError(c) ==
  /\ InFlight(c) /\ c \notin Polls
  /\ Current(c).state = "broken"
  /\ aborted' = aborted
  /\ AttemptFails(c, "network")
  /\ UNCHANGED <<transaction, netVars>>

DeadlineUnconvertedBug(c) ==   \* the AbortError reaches the caller as it is
  /\ InFlight(c)
  /\ aborted' = aborted \cup {Controller(c, calls[c].phase)}
  /\ AttemptFails(c, "AbortError")
  /\ UNCHANGED <<transaction, netVars>>

DeadlineOfFirstOnlyBug(c) ==   \* the fallback is awaited without a deadline
  /\ calls[c].phase = "first"
  /\ aborted' = aborted \cup {Controller(c, "first")}
  /\ AttemptFails(c, "TIMEOUT")
  /\ UNCHANGED <<transaction, netVars>>

(* The deadline wins: the controller is aborted and AbortError thrown; if  *)
(* it leaves withFailover, outerBoundaryConvert makes it a TIMEOUT.        *)
DeadlinePasses(c) ==
  /\ InFlight(c)
  /\ aborted' = aborted \cup {Controller(c, calls[c].phase)}
  /\ AttemptFails(c, "TIMEOUT")
  /\ UNCHANGED <<transaction, netVars>>

Becomes(c, attempt, state) ==
  wire' = [wire EXCEPT ![c][attempt].state = state]

(* A poll's loop is under way, whether its caller still waits or not: only *)
(* a result or its own deadline ends it.                                   *)
Looping(c, attempt) ==
  c \in Polls /\ wire[c][attempt].state \in {"sent", "refused", "broken"}

(* The next round, at the same node: retry catches what a round throws.    *)
PollAgain(c, attempt) ==
  /\ Looping(c, attempt) /\ wire[c][attempt].state # "sent"
  /\ Becomes(c, attempt, "sent")
  /\ UNCHANGED <<vars, transaction, aborted, netVars, result>>

PollExpiresBug(c, attempt) ==   \* only the caller's deadline is kept
  /\ Looping(c, attempt) /\ result[c] = "none"
  /\ Becomes(c, attempt, "expired")
  /\ UNCHANGED <<vars, transaction, aborted, netVars, result>>

(* The deadline of the loop, which no failing round puts off (PollStatus,  *)
(* LoopsSettle).                                                           *)
PollExpires(c, attempt) ==
  /\ Looping(c, attempt)
  /\ Becomes(c, attempt, "expired")
  /\ UNCHANGED <<vars, transaction, aborted, netVars, result>>

-----------------------------------------------------------------------------
(* The caller of submit: not part of the repository.  It may change the    *)
(* object before the call and once its promise settled, when a late body   *)
(* may still be on its way; it must not in between (failoverClient.ts:     *)
(* 222-230).                                                               *)
Edit(c) ==
  /\ ~InFlight(c)
  /\ transaction[c] < MaxEdits
  /\ transaction' = [transaction EXCEPT ![c] = @ + 1]
  /\ UNCHANGED <<vars, wire, aborted, netVars, result>>

(* The nodes and the network between: not part of the repository.  A node  *)
(* adds a submitted transaction to its mempool before it answers, so an    *)
(* answer may be lost after the transaction was accepted.  A poll is       *)
(* refused, too, when the node has no result for the key yet; the loss of  *)
(* an answer to a poll is the breaking of its request.                     *)

NodeServes(c, attempt) ==
  /\ wire[c][attempt].state = "sent"
  /\ Becomes(c, attempt, "served")
  /\ pool' = [pool EXCEPT ![wire[c][attempt].host] =
                IF c \in Submissions THEN @ \cup {RequestKey(c, attempt)} ELSE @]
  /\ UNCHANGED <<vars, transaction, aborted, landed, result>>

NodeRefuses(c, attempt) ==
  /\ wire[c][attempt].state = "sent"
  /\ Becomes(c, attempt, "refused")
  /\ UNCHANGED <<vars, transaction, aborted, netVars, result>>

ConnectionBreaks(c, attempt) ==
  /\ \/ wire[c][attempt].state = "sent"
     \/ c \notin Polls /\ wire[c][attempt].state \in {"served", "refused"}
  /\ Becomes(c, attempt, "broken")
  /\ UNCHANGED <<vars, transaction, aborted, netVars, result>>

(* The chain takes a request key at most once, from any node's mempool:    *)
(* what the dedup contract of submit counts on.                            *)
Mine(h, key) ==
  /\ key \in pool[h] \ landed
  /\ landed' = landed \cup {key}
  /\ UNCHANGED <<vars, transaction, wire, aborted, pool, result>>

-----------------------------------------------------------------------------
ClientNext ==
  \/ \E c \in Calls : \/ Start(c) \/ AnswerArrives(c)
                      \/ ConnectionError(c) \/ DeadlinePasses(c)
  \/ \E c \in Submissions : Edit(c)
  \/ \E c \in Calls, attempt \in Attempts :
       \/ NodeServes(c, attempt) \/ NodeRefuses(c, attempt)
       \/ ConnectionBreaks(c, attempt)
       \/ PollAgain(c, attempt) \/ PollExpires(c, attempt)
  \/ \E h \in Hosts, key \in RequestKeys : Mine(h, key)
  \/ Background /\ UNCHANGED clientVars

ClientSpec == ClientInit /\ [][ClientNext]_allVars

(* setTimeout fires; the network and the nodes promise nothing. *)
ClientFairness ==
  /\ \A c \in Calls : WF_allVars(DeadlinePasses(c))
  /\ \A c \in Polls, attempt \in Attempts : WF_allVars(PollExpires(c, attempt))

ClientFairSpec == ClientSpec /\ ClientFairness

-----------------------------------------------------------------------------
(* Properties *)

ClientTypeOK ==
  /\ transaction \in [Calls -> 0..MaxEdits]
  /\ wire \in [Calls -> [Attempts -> Requests]]
  /\ aborted \subseteq Calls \X Attempts
  /\ pool \in [Hosts -> SUBSET RequestKeys]
  /\ landed \subseteq RequestKeys
  /\ result \in [Calls -> Results]

TimedOut(c, attempt) == Controller(c, attempt) \in aborted
Tries(c) == {a \in Attempts : wire[c][a].state # "none"}

(* The dedup contract of submit: all that ever lands of a submit is the    *)
(* one transaction its caller held when it called, so never a second one,  *)
(* however deadlines, lost answers, a retry elsewhere and bodies served    *)
(* after the caller went on to change the object interleave.               *)
AtMostOneLanding ==
  \A key \in landed : key.version = wire[key.call]["first"].version

(* A submit that resolved was accepted by the node that answered.          *)
ResolvedWasAccepted ==
  \A c \in Submissions : result[c] = "ok" =>
    \E a \in Tries(c) : RequestKey(c, a) \in pool[wire[c][a].host]

(* A node's refusal is final: a second node is sent the transaction only   *)
(* if the first did not answer in time or its connection failed.  A poll   *)
(* is sent to a second node at its deadline only: its loop hides that the  *)
(* connection failed (retry.cjs:37-43).                                    *)
RefusalIsFinal ==
  \A c \in Calls : "retry" \in Tries(c) =>
    \/ TimedOut(c, "first")
    \/ c \notin Polls /\ wire[c]["first"].state = "broken"

(* "A primary-side timeout abort cannot poison the fallback retry's        *)
(* signal" (failoverClient.ts:14-16): every attempt reaches the wire.      *)
NoStillbornAttempt ==
  \A c \in Calls, a \in Attempts : wire[c][a].state # "stillborn"

(* What the caller is told is what happened: success is an acceptance, a   *)
(* refusal ends the call, and every attempt was really made, whatever late *)
(* answers and deadlines of the other attempt come in between.             *)
OutcomesAreHonest == ResolvedWasAccepted /\ RefusalIsFinal /\ NoStillbornAttempt

(* Every call settles, whatever the nodes do: each attempt has a deadline. *)
(* And nothing goes on for ever after it: a poll's loop, which the         *)
(* client's deadline does not stop (failoverClient.ts:252-257), ends.      *)
CallsSettle ==
  /\ \A c \in Calls : InFlight(c) ~> ~InFlight(c)
  /\ \A c \in Polls, a \in Attempts : Looping(c, a) ~> ~Looping(c, a)
=============================================================================
