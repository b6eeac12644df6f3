-------------------------- MODULE PollStatusProofs --------------------------
(***************************************************************************)
(* The safety properties of PollStatus hold for any keys, hosts and proof  *)
(* jobs.  The inductive invariant adds to them what ties a task to its     *)
(* loop and what a loop still asks for to what has been delivered.         *)
(***************************************************************************)
EXTENDS PollStatus, TLAPS

(* A loop that is not in a round, and has not lost a race, has no task. *)
TasksHaveRounds ==
  \A l \in Loops : loop[l] \in {"idle", "waiting", "done"} =>
                     waking[l] = 0 /\ polls[l] = {}

(* A request in flight asks for what is still pending, which is part of     *)
(* what the loop was started for.                                           *)
AskedIsPending ==
  \A l \in Loops : /\ pending[l] \subseteq ItemsOf(l)
                   /\ \A asked \in polls[l] : asked \subseteq pending[l]

(* A key that has left requestKeys has been delivered, and one that was     *)
(* delivered and has not left is one whose callback threw.                  *)
DeliveredLeave ==
  \A l \in Hosts : \A k \in ItemsOf(l) :
    /\ k \notin pending[l] => calls[k] > 0
    /\ k \in pending[l] /\ calls[k] > 0 => k \in threw

(* Only the loop's end rejects a promise. *)
RejectedAtEnd ==
  \A l \in Loops : loop[l] \notin {"timedout", "aborted"} =>
    \A i \in ItemsOf(l) : promise[i] \in {"pending", "resolved"}

IInv ==
  /\ TypeOK
  /\ OneTaskAtATime
  /\ TasksHaveRounds
  /\ AskedIsPending
  /\ DeliveredLeave
  /\ RejectedAtEnd
  /\ CalledOnce
  /\ SettledBeforeCallback
  /\ DoneMeansAll
  /\ HeardIsResolved

-----------------------------------------------------------------------------

(* Every item belongs to exactly one loop. *)
LEMMA ItemsOfLoops ==
  /\ \A l \in Loops : ItemsOf(l) \subseteq Items
  /\ \A h \in Hosts : /\ h \in Loops /\ h \notin ProofJobs
                      /\ ItemsOf(h) = {k \in Keys : HostOf[k] = h}
  /\ \A j \in ProofJobs : j \in Loops /\ j \notin Hosts /\ ItemsOf(j) = {j}
  /\ \A k \in Keys : HostOf[k] \in Hosts /\ k \in ItemsOf(HostOf[k]) /\ k \notin ProofJobs
  /\ \A l, n \in Loops : l # n => ItemsOf(l) \cap ItemsOf(n) = {}
BY PollAssumption DEF ItemsOf, Loops, Items, Hosts

(* The state of the system before any call. *)
LEMMA InitInv == Init => IInv
<1> SUFFICES ASSUME Init PROVE IInv
  OBVIOUS
<1> USE ItemsOfLoops DEF Init
<1>1. TypeOK
  <2>1. pending \in [Loops -> SUBSET Items]
    OBVIOUS
  <2>2. polls \in [Loops -> SUBSET SUBSET Items] /\ waking \in [Loops -> Nat]
    <3> DEFINE Requests == SUBSET SUBSET Items
    <3>1. {} \in Requests
      OBVIOUS
    <3> HIDE DEF Requests
    <3>2. polls \in [Loops -> Requests]
      BY <3>1
    <3>3. QED
      BY <3>2 DEF Requests
  <2>3. loop \in [Loops -> {"idle", "racing", "waiting"} \cup Ended]
    BY DEF Ended
  <2>4. /\ promise \in [Items -> {"pending", "resolved", "timedout", "aborted"}]
        /\ calls \in [Keys -> 0..2]
    OBVIOUS
  <2>5. aborted \in BOOLEAN /\ expired \in [Loops -> BOOLEAN]
        /\ threw \subseteq Keys /\ heard \subseteq Keys
    OBVIOUS
  <2>6. QED
    BY <2>1, <2>2, <2>3, <2>4, <2>5, Zenon DEF TypeOK
<1>2. OneTaskAtATime /\ TasksHaveRounds /\ AskedIsPending
  BY DEF OneTaskAtATime, TasksHaveRounds, AskedIsPending
<1>3. DeliveredLeave /\ RejectedAtEnd
  BY DEF DeliveredLeave, RejectedAtEnd, Items
<1>4. CalledOnce /\ SettledBeforeCallback /\ DoneMeansAll /\ HeardIsResolved
  BY DEF CalledOnce, SettledBeforeCallback, DoneMeansAll, HeardIsResolved
<1>5. QED
  BY <1>1, <1>2, <1>3, <1>4 DEF IInv

(* Rejecting what is pending resolves nothing and leaves nothing that was   *)
(* settled otherwise.                                                       *)
LEMMA RejectRestKeeps ==
  ASSUME TypeOK, NEW ls \in SUBSET Loops, NEW why \in {"timedout", "aborted"},
         RejectRest(ls, why)
  PROVE  /\ promise' \in [Items -> {"pending", "resolved", "timedout", "aborted"}]
         /\ \A i \in Items : promise[i] # "pending" => promise'[i] = promise[i]
         /\ \A l \in Loops \ ls : \A i \in ItemsOf(l) : promise'[i] = promise[i]
BY ItemsOfLoops DEF TypeOK, RejectRest

(* A new round of loops that had no task. *)
LEMMA RunTaskInv ==
  ASSUME IInv, NEW ls \in SUBSET Loops,
         \A l \in ls : loop[l] \in {"idle", "waiting"},
         RunTask(ls),
         UNCHANGED <<aborted, expired, pending, polls, calls, threw, heard>>
  PROVE  IInv'
<1> DEFINE stopped == {l \in ls : Listens(l) /\ aborted}
<1> USE DEF IInv
<1>1. /\ waking' = [l \in Loops |-> waking[l] + (IF l \in ls THEN 1 ELSE 0)]
      /\ loop' = [l \in Loops |-> IF l \in stopped THEN "aborted"
                                  ELSE IF l \in ls THEN "racing" ELSE loop[l]]
      /\ RejectRest(stopped, "aborted")
  BY DEF RunTask
<1>2. /\ promise' \in [Items -> {"pending", "resolved", "timedout", "aborted"}]
      /\ \A i \in Items : promise[i] # "pending" => promise'[i] = promise[i]
      /\ \A l \in Loops \ stopped : \A i \in ItemsOf(l) : promise'[i] = promise[i]
  BY <1>1, RejectRestKeeps
<1>3. \A l \in ls : waking[l] = 0 /\ polls[l] = {} /\ waking'[l] = 1
  BY <1>1 DEF TasksHaveRounds, TypeOK
<1>4. \A l \in Loops \ ls : waking'[l] = waking[l] /\ loop'[l] = loop[l]
  BY <1>1 DEF TypeOK
<1>5. TypeOK'
  BY <1>1, <1>2 DEF TypeOK, Ended
<1>6. OneTaskAtATime'
  BY <1>3, <1>4 DEF OneTaskAtATime, TypeOK
<1>7. TasksHaveRounds'
  BY <1>1, <1>4 DEF TasksHaveRounds
<1>8. AskedIsPending' /\ DeliveredLeave' /\ CalledOnce'
  BY DEF AskedIsPending, DeliveredLeave, CalledOnce
<1>9. RejectedAtEnd'
  BY <1>1, <1>2, <1>4 DEF RejectedAtEnd
<1>10. SettledBeforeCallback' /\ HeardIsResolved'
  BY <1>2 DEF SettledBeforeCallback, HeardIsResolved, TypeOK, Items
<1>11. DoneMeansAll'
  BY <1>1, <1>2, <1>4 DEF DoneMeansAll
<1>12. QED
  BY <1>5, <1>6, <1>7, <1>8, <1>9, <1>10, <1>11

(* A task that rejects: its loop waits for the next round, unless it ended. *)
LEMMA TaskFailsInv ==
  ASSUME IInv, NEW l \in Loops, TaskFails(l),
         waking' \in [Loops -> Nat], polls' \in [Loops -> SUBSET SUBSET Items],
         \A n \in Loops \ {l} : waking'[n] = waking[n] /\ polls'[n] = polls[n],
         waking'[l] = 0, polls'[l] = {},
         UNCHANGED <<aborted, expired, pending, promise, calls, threw, heard>>
  PROVE  IInv'
<1> USE DEF IInv
<1>1. loop' = [loop EXCEPT ![l] = IF @ = "racing" THEN "waiting" ELSE @]
  BY DEF TaskFails
<1>2. \A n \in Loops \ {l} : loop'[n] = loop[n]
  BY <1>1 DEF TypeOK
<1>3. loop'[l] = IF loop[l] = "racing" THEN "waiting" ELSE loop[l]
  BY <1>1 DEF TypeOK
<1>4. TypeOK'
  BY <1>1 DEF TypeOK, Ended
<1>5. OneTaskAtATime' /\ TasksHaveRounds' /\ AskedIsPending'
  BY <1>2, <1>3 DEF OneTaskAtATime, TasksHaveRounds, AskedIsPending
<1>6. DeliveredLeave' /\ CalledOnce' /\ SettledBeforeCallback' /\ HeardIsResolved'
  BY DEF DeliveredLeave, CalledOnce, SettledBeforeCallback, HeardIsResolved
<1>7. RejectedAtEnd' /\ DoneMeansAll'
  BY <1>2, <1>3 DEF RejectedAtEnd, DoneMeansAll
<1>8. QED
  BY <1>4, <1>5, <1>6, <1>7

(* The timer or the signal ends loops that are in a round. *)
LEMMA EndInv ==
  ASSUME IInv, NEW ls \in SUBSET Loops, NEW why \in {"timedout", "aborted"},
         \A l \in ls : loop[l] = "racing",
         loop' = [l \in Loops |-> IF l \in ls THEN why ELSE loop[l]],
         RejectRest(ls, why), aborted' \in BOOLEAN,
         UNCHANGED <<expired, pending, waking, polls, calls, threw, heard>>
  PROVE  IInv'
<1> USE DEF IInv
<1>1. /\ promise' \in [Items -> {"pending", "resolved", "timedout", "aborted"}]
      /\ \A i \in Items : promise[i] # "pending" => promise'[i] = promise[i]
      /\ \A l \in Loops \ ls : \A i \in ItemsOf(l) : promise'[i] = promise[i]
  BY RejectRestKeeps
<1>2. TypeOK'
  BY <1>1 DEF TypeOK, Ended
<1>3. OneTaskAtATime' /\ TasksHaveRounds' /\ AskedIsPending'
  BY DEF OneTaskAtATime, TasksHaveRounds, AskedIsPending
<1>4. DeliveredLeave' /\ CalledOnce'
  BY DEF DeliveredLeave, CalledOnce
<1>5. SettledBeforeCallback' /\ HeardIsResolved'
  BY <1>1 DEF SettledBeforeCallback, HeardIsResolved, TypeOK, Items
<1>6. RejectedAtEnd' /\ DoneMeansAll'
  BY <1>1 DEF RejectedAtEnd, DoneMeansAll
<1>7. QED
  BY <1>2, <1>3, <1>4, <1>5, <1>6

(* A task that wakes is the only one of its loop. *)
LEMMA WakesAlone ==
  ASSUME IInv, NEW l \in Loops, Wakes(l)
  PROVE  /\ waking' \in [Loops -> Nat]
         /\ \A n \in Loops \ {l} : waking'[n] = waking[n]
         /\ waking'[l] = 0 /\ polls[l] = {}
         /\ loop[l] \notin {"idle", "waiting", "done"}
BY DEF IInv, TypeOK, OneTaskAtATime, TasksHaveRounds, Wakes

LEMMA SendPollInv ==
  ASSUME IInv, NEW l \in Loops, SendPoll(l)
  PROVE  IInv'
<1> USE DEF IInv
<1>1. Wakes(l) /\ UNCHANGED <<aborted, loop, expired, pending, promise, calls, threw, heard>>
  BY DEF SendPoll
<1>2. /\ waking' \in [Loops -> Nat]
      /\ \A n \in Loops \ {l} : waking'[n] = waking[n]
      /\ waking'[l] = 0 /\ polls[l] = {}
      /\ loop[l] \notin {"idle", "waiting", "done"}
  BY <1>1, WakesAlone
<1>3. /\ polls' \in [Loops -> SUBSET SUBSET Items]
      /\ polls'[l] = {pending[l]}
      /\ \A n \in Loops \ {l} : polls'[n] = polls[n]
  BY <1>2 DEF SendPoll, TypeOK
<1>4. TypeOK'
  BY <1>1, <1>2, <1>3 DEF TypeOK
<1>5. OneTaskAtATime' /\ TasksHaveRounds' /\ AskedIsPending'
  BY <1>1, <1>2, <1>3 DEF OneTaskAtATime, TasksHaveRounds, AskedIsPending
<1>6. DeliveredLeave' /\ CalledOnce' /\ SettledBeforeCallback' /\ HeardIsResolved'
  BY <1>1 DEF DeliveredLeave, CalledOnce, SettledBeforeCallback, HeardIsResolved
<1>7. RejectedAtEnd' /\ DoneMeansAll'
  BY <1>1 DEF RejectedAtEnd, DoneMeansAll
<1>8. QED
  BY <1>4, <1>5, <1>6, <1>7

(* A request that is answered is the only task of its loop. *)
LEMMA AnsweredAlone ==
  ASSUME IInv, NEW l \in Loops, NEW asked \in polls[l],
         polls' = [polls EXCEPT ![l] = @ \ {asked}]
  PROVE  /\ polls' \in [Loops -> SUBSET SUBSET Items]
         /\ \A n \in Loops \ {l} : polls'[n] = polls[n]
         /\ waking[l] = 0 /\ polls'[l] = {}
         /\ asked \subseteq pending[l] /\ asked \subseteq ItemsOf(l)
         /\ loop[l] \notin {"idle", "waiting", "done"}
<1>1. polls' \in [Loops -> SUBSET SUBSET Items] /\ polls'[l] = polls[l] \ {asked}
  BY DEF IInv, TypeOK
<1>2. \A n \in Loops \ {l} : polls'[n] = polls[n]
  BY DEF IInv, TypeOK
<1>3. waking[l] = 0 /\ polls'[l] = {}
  BY <1>1 DEF IInv, OneTaskAtATime
<1>4. asked \subseteq pending[l] /\ asked \subseteq ItemsOf(l)
  BY DEF IInv, AskedIsPending
<1>5. loop[l] \notin {"idle", "waiting", "done"}
  BY DEF IInv, TasksHaveRounds
<1>6. QED
  BY <1>1, <1>2, <1>3, <1>4, <1>5

LEMMA AnswerInv ==
  ASSUME IInv, NEW h \in Hosts, Answer(h)
  PROVE  IInv'
<1> USE DEF IInv
<1>0. h \in Loops /\ h \notin ProofJobs /\ ItemsOf(h) = {k \in Keys : HostOf[k] = h}
  BY ItemsOfLoops
<1>1a. PICK asked \in polls[h] : \E reported \in SUBSET asked :
         \E o \in Outcomes(reported) : Deliver(h, asked, reported, o)
  BY DEF Answer
<1>1b. PICK reported \in SUBSET asked : \E o \in Outcomes(reported) :
         Deliver(h, asked, reported, o)
  BY <1>1a
<1>1c. PICK o \in Outcomes(reported) : Deliver(h, asked, reported, o)
  BY <1>1b
<1>1. /\ polls' = [polls EXCEPT ![h] = @ \ {asked}]
      /\ promise' = [i \in Items |->
             IF promise[i] = "pending" /\ i \in Resolved(o.handled, o.thrower)
             THEN "resolved" ELSE promise[i]]
      /\ calls' = [k \in Keys |->
             IF k \in o.handled \cup o.thrower /\ calls[k] < 2
             THEN calls[k] + 1 ELSE calls[k]]
      /\ threw' = threw \cup o.thrower
      /\ pending' = [pending EXCEPT ![h] = Remaining(h, o.handled)]
      /\ heard' = IF loop[h] \in Ended THEN heard ELSE heard \cup reported
      /\ IF o.thrower = {} /\ pending'[h] = {}
           THEN loop' = [loop EXCEPT ![h] = IF @ = "racing" THEN "done" ELSE @]
           ELSE TaskFails(h)
      /\ UNCHANGED <<aborted, expired, waking>>
  BY <1>1c DEF Deliver
<1>2. /\ polls' \in [Loops -> SUBSET SUBSET Items]
      /\ \A n \in Loops \ {h} : polls'[n] = polls[n]
      /\ waking[h] = 0 /\ polls'[h] = {}
      /\ asked \subseteq pending[h] /\ asked \subseteq ItemsOf(h)
      /\ loop[h] \notin {"idle", "waiting", "done"}
  BY <1>0, <1>1, AnsweredAlone
<1> DEFINE called == o.handled \cup o.thrower
<1>3. /\ called \subseteq reported
      /\ o.thrower = {} => o.handled = reported
      /\ Resolved(o.handled, o.thrower) = called
      /\ o.thrower \cap o.handled = {}
  BY DEF Outcomes, Resolved
<1>4. called \subseteq pending[h] /\ called \subseteq ItemsOf(h) /\ called \subseteq Keys
  BY <1>0, <1>2, <1>3
<1>5. /\ promise' \in [Items -> {"pending", "resolved", "timedout", "aborted"}]
      /\ \A i \in Items : promise[i] # "pending" => promise'[i] = promise[i]
      /\ \A i \in Items \ called : promise'[i] = promise[i]
      /\ \A i \in called : promise[i] = "pending" => promise'[i] = "resolved"
  BY <1>1, <1>3, <1>4 DEF TypeOK, Items
<1>6. /\ calls' \in [Keys -> 0..2]
      /\ \A k \in Keys \ called : calls'[k] = calls[k]
      /\ \A k \in called : calls'[k] > 0 /\ (calls'[k] > 1 => calls[k] > 0)
  BY <1>1, <1>4 DEF TypeOK
<1>7. /\ pending' \in [Loops -> SUBSET Items]
      /\ pending'[h] = pending[h] \ o.handled
      /\ \A n \in Loops \ {h} : pending'[n] = pending[n]
  BY <1>0, <1>1 DEF TypeOK, Remaining
<1>8. /\ loop' \in [Loops -> {"idle", "racing", "waiting"} \cup Ended]
      /\ \A n \in Loops \ {h} : loop'[n] = loop[n]
      /\ loop'[h] \in {loop[h], "waiting", "done"}
      /\ loop'[h] = "done" => pending'[h] = {}
      /\ loop'[h] # loop[h] => loop[h] = "racing"
  BY <1>0, <1>1, <1>2 DEF TypeOK, Ended, TaskFails
<1>9. TypeOK'
  <2>1. threw' \subseteq Keys /\ heard' \subseteq Keys
    BY <1>0, <1>1, <1>2, <1>4 DEF TypeOK
  <2>2. QED
    BY <2>1, <1>1, <1>2, <1>5, <1>6, <1>7, <1>8 DEF TypeOK
<1>10. OneTaskAtATime' /\ TasksHaveRounds'
  BY <1>1, <1>2, <1>8 DEF OneTaskAtATime, TasksHaveRounds
<1>11. AskedIsPending'
  BY <1>2, <1>7 DEF AskedIsPending
<1>12. DeliveredLeave'
  <2> SUFFICES ASSUME NEW l \in Hosts, NEW k \in ItemsOf(l)
               PROVE  /\ k \notin pending'[l] => calls'[k] > 0
                      /\ k \in pending'[l] /\ calls'[k] > 0 => k \in threw'
    BY DEF DeliveredLeave
  <2>1. CASE l = h
    BY <2>1, <1>0, <1>1, <1>3, <1>4, <1>6, <1>7 DEF DeliveredLeave
  <2>2. CASE l # h
    <3>1. l \in Loops /\ k \in Keys /\ k \notin called
      BY <2>2, <1>0, <1>4, ItemsOfLoops
    <3>2. QED
      BY <2>2, <3>1, <1>1, <1>6, <1>7 DEF DeliveredLeave
  <2>3. QED
    BY <2>1, <2>2
<1>13. CalledOnce'
  <2> SUFFICES ASSUME NEW k \in Keys, calls'[k] > 1 PROVE k \in threw'
    BY DEF CalledOnce
  <2>1. CASE k \in called
    BY <2>1, <1>1, <1>4, <1>6 DEF DeliveredLeave
  <2>2. CASE k \notin called
    BY <2>2, <1>1, <1>6 DEF CalledOnce
  <2>3. QED
    BY <2>1, <2>2
<1>14. SettledBeforeCallback'
  BY <1>4, <1>5, <1>6 DEF SettledBeforeCallback, Items, TypeOK
<1>15. RejectedAtEnd'
  BY <1>0, <1>4, <1>5, <1>8, ItemsOfLoops DEF RejectedAtEnd
<1>16. DoneMeansAll'
  <2> SUFFICES ASSUME NEW l \in Loops, loop'[l] = "done", NEW i \in ItemsOf(l)
               PROVE  promise'[i] = "resolved"
    BY DEF DoneMeansAll
  <2>1. CASE l = h
    <3>1. calls'[i] > 0 /\ i \in Keys
      BY <2>1, <1>0, <1>8, <1>12 DEF DeliveredLeave
    <3>2. promise'[i] # "pending" /\ promise'[i] \in {"pending", "resolved"}
      BY <2>1, <3>1, <1>14, <1>15 DEF SettledBeforeCallback, RejectedAtEnd
    <3>3. QED
      BY <3>2
  <2>2. CASE l # h
    BY <2>2, <1>5, <1>8, ItemsOfLoops DEF DoneMeansAll
  <2>3. QED
    BY <2>1, <2>2
<1>17. HeardIsResolved'
  <2> SUFFICES ASSUME NEW k \in heard', ~(\E t \in threw' : HostOf[t] = HostOf[k])
               PROVE  promise'[k] = "resolved"
    BY DEF HeardIsResolved
  <2>1. CASE k \in heard
    BY <2>1, <1>1, <1>5 DEF HeardIsResolved, TypeOK, Items
  <2>2. CASE k \notin heard
    <3>1. k \in reported /\ loop[h] \notin Ended /\ HostOf[k] = h /\ k \in ItemsOf(h)
      BY <2>2, <1>0, <1>1, <1>2
    <3>2. o.thrower = {}
      BY <3>1, <1>0, <1>1, <1>4
    <3>3. k \in called
      BY <3>1, <3>2, <1>3
    <3>4. promise[k] \in {"pending", "resolved"}
      BY <3>1, <1>0 DEF RejectedAtEnd, Ended
    <3>5. QED
      BY <3>3, <3>4, <1>4, <1>5 DEF Items
  <2>3. QED
    BY <2>1, <2>2
<1>18. QED
  BY <1>9, <1>10, <1>11, <1>12, <1>13, <1>14, <1>15, <1>16, <1>17

LEMMA ProofArrivesInv ==
  ASSUME IInv, NEW j \in ProofJobs, ProofArrives(j)
  PROVE  IInv'
<1> USE DEF IInv
<1>0. j \in Loops /\ j \notin Hosts /\ ItemsOf(j) = {j}
  BY ItemsOfLoops
<1>1. PICK asked \in polls[j] :
        /\ polls' = [polls EXCEPT ![j] = @ \ {asked}]
        /\ loop' = [loop EXCEPT ![j] = IF @ = "racing" THEN "done" ELSE @]
        /\ promise' = [promise EXCEPT ![j] = IF loop[j] = "racing" THEN "resolved"
                                             ELSE @]
        /\ UNCHANGED <<aborted, expired, pending, waking, calls, threw, heard>>
  BY DEF ProofArrives
<1>2. /\ polls' \in [Loops -> SUBSET SUBSET Items]
      /\ \A n \in Loops \ {j} : polls'[n] = polls[n]
      /\ waking[j] = 0 /\ polls'[j] = {}
      /\ loop[j] \notin {"idle", "waiting", "done"}
  BY <1>0, <1>1, AnsweredAlone
<1>3. /\ \A n \in Loops \ {j} : loop'[n] = loop[n]
      /\ \A i \in Items \ {j} : promise'[i] = promise[i]
      /\ promise'[j] = IF loop[j] = "racing" THEN "resolved" ELSE promise[j]
      /\ loop'[j] = IF loop[j] = "racing" THEN "done" ELSE loop[j]
  BY <1>0, <1>1 DEF TypeOK, Items
<1>4. TypeOK'
  BY <1>1, <1>2 DEF TypeOK, Ended
<1>5. OneTaskAtATime' /\ TasksHaveRounds' /\ AskedIsPending'
  BY <1>1, <1>2, <1>3 DEF OneTaskAtATime, TasksHaveRounds, AskedIsPending
<1>6. DeliveredLeave' /\ CalledOnce'
  BY <1>1 DEF DeliveredLeave, CalledOnce
<1>7. SettledBeforeCallback' /\ HeardIsResolved'
  BY <1>1, <1>3, ItemsOfLoops DEF SettledBeforeCallback, HeardIsResolved, TypeOK, Items
<1>8. RejectedAtEnd' /\ DoneMeansAll'
  BY <1>0, <1>2, <1>3, ItemsOfLoops DEF RejectedAtEnd, DoneMeansAll
<1>9. QED
  BY <1>4, <1>5, <1>6, <1>7, <1>8

-----------------------------------------------------------------------------

LEMMA StepInv == IInv /\ [Next]_vars => IInv'
<1> SUFFICES ASSUME IInv, [Next]_vars PROVE IInv'
  OBVIOUS
<1>1. CASE CallPollStatus
  BY <1>1, RunTaskInv, ItemsOfLoops DEF CallPollStatus
<1>2. CASE Abort
  <2> DEFINE stopped == {l \in Loops : Listens(l) /\ loop[l] = "racing"}
  <2>1. /\ loop' = [l \in Loops |-> IF l \in stopped THEN "aborted" ELSE loop[l]]
        /\ RejectRest(stopped, "aborted") /\ aborted' \in BOOLEAN
        /\ UNCHANGED <<expired, pending, waking, polls, calls, threw, heard>>
    BY <1>2 DEF Abort
  <2>2. QED
    BY <2>1, EndInv
<1>3. ASSUME NEW j \in ProofJobs, CallPollSpv(j) PROVE IInv'
  BY <1>3, RunTaskInv, ItemsOfLoops DEF CallPollSpv
<1>4. ASSUME NEW j \in ProofJobs, ProofArrives(j) PROVE IInv'
  BY <1>4, ProofArrivesInv
<1>5. ASSUME NEW h \in Hosts, OnPollThrows(h) PROVE IInv'
  <2>1. h \in Loops /\ Wakes(h) /\ TaskFails(h)
        /\ UNCHANGED <<aborted, expired, pending, polls, promise, calls, threw, heard>>
    BY <1>5, ItemsOfLoops DEF OnPollThrows
  <2>2. QED
    BY <2>1, WakesAlone, TaskFailsInv DEF IInv, TypeOK
<1>6. ASSUME NEW h \in Hosts, Answer(h) PROVE IInv'
  BY <1>6, AnswerInv
<1>7. ASSUME NEW l \in Loops, SleepEnds(l) PROVE IInv'
  BY <1>7, RunTaskInv DEF SleepEnds
<1>8. ASSUME NEW l \in Loops, Expire(l) PROVE IInv'
  <2>1. expired' \in [Loops -> BOOLEAN]
    BY <1>8 DEF Expire, IInv, TypeOK
  <2>2. UNCHANGED <<aborted, loop, pending, waking, polls, promise, calls, threw, heard>>
    BY <1>8 DEF Expire
  <2>3. QED
    BY <2>1, <2>2 DEF IInv, TypeOK, OneTaskAtATime, TasksHaveRounds, AskedIsPending,
      DeliveredLeave, RejectedAtEnd, CalledOnce, SettledBeforeCallback, DoneMeansAll,
      HeardIsResolved
<1>9. ASSUME NEW l \in Loops, TimeoutFires(l) PROVE IInv'
  <2>1. /\ loop' = [n \in Loops |-> IF n \in {l} THEN "timedout" ELSE loop[n]]
        /\ RejectRest({l}, "timedout") /\ aborted' \in BOOLEAN /\ loop[l] = "racing"
        /\ UNCHANGED <<expired, pending, waking, polls, calls, threw, heard>>
    BY <1>9 DEF TimeoutFires, IInv, TypeOK
  <2>2. QED
    BY <2>1, EndInv
<1>10. ASSUME NEW l \in Loops, SendPoll(l) PROVE IInv'
  BY <1>10, SendPollInv
<1>11. ASSUME NEW l \in Loops, PollFails(l) PROVE IInv'
  <2>1. PICK asked \in polls[l] :
          /\ polls' = [polls EXCEPT ![l] = @ \ {asked}]
          /\ TaskFails(l)
          /\ UNCHANGED <<aborted, expired, pending, waking, promise, calls, threw, heard>>
    BY <1>11 DEF PollFails
  <2>2. QED
    BY <2>1, AnsweredAlone, TaskFailsInv DEF IInv, TypeOK
<1>12. CASE UNCHANGED vars
  BY <1>12 DEF vars, IInv, TypeOK, OneTaskAtATime, TasksHaveRounds, AskedIsPending,
    DeliveredLeave, RejectedAtEnd, CalledOnce, SettledBeforeCallback, DoneMeansAll,
    HeardIsResolved
<1>13. QED
  BY <1>1, <1>2, <1>3, <1>4, <1>5, <1>6, <1>7, <1>8, <1>9, <1>10, <1>11, <1>12 DEF Next

(* The safety properties of every behaviour, from the inductive invariant. *)
THEOREM PollInvariance == Spec => []IInv
BY InitInv, StepInv, PTL DEF Spec

(* Type correctness of the poller. *)
THEOREM PollTypeCorrect == Spec => []TypeOK
<1>1. IInv => TypeOK
  BY DEF IInv
<1>2. QED
  BY <1>1, PollInvariance, PTL

(* No loop ever has two tasks under way. *)
THEOREM NoOverlappingTasks == Spec => []OneTaskAtATime
<1>1. IInv => OneTaskAtATime
  BY DEF IInv
<1>2. QED
  BY <1>1, PollInvariance, PTL

(* The consumer is called back once per key and never before its promise   *)
(* has settled, unless the callback throws.                                 *)
THEOREM CallbacksInOrder == Spec => []CallbackContract
<1>1. IInv => CallbackContract
  BY DEF IInv, CallbackContract
<1>2. QED
  BY <1>1, PollInvariance, PTL

(* Results reported in time reach the caller, and a loop is done only when  *)
(* all of them have.                                                        *)
THEOREM ResultsReachTheCaller == Spec => [](DoneMeansAll /\ HeardIsResolved)
<1>1. IInv => DoneMeansAll /\ HeardIsResolved
  BY DEF IInv
<1>2. QED
  BY <1>1, PollInvariance, PTL

(* A loop that has ended starts no other round. *)
THEOREM EndedLoopsStayQuiet == Spec => QuietAfterEnd
<1> DEFINE Quiet == \A l \in Loops : loop[l] \in Ended =>
                      /\ loop'[l] = loop[l]
                      /\ waking'[l] <= waking[l]
                      /\ polls'[l] \ polls[l] # {} => waking'[l] < waking[l]
<1>1. IInv /\ [Next]_vars => [Quiet]_vars
  <2> SUFFICES ASSUME IInv, Next, NEW l \in Loops, loop[l] \in Ended
               PROVE  /\ loop'[l] = loop[l]
                      /\ waking'[l] <= waking[l]
                      /\ polls'[l] \ polls[l] # {} => waking'[l] < waking[l]
    OBVIOUS
  <2> DEFINE QuietLoop == /\ loop'[l] = loop[l]
                          /\ waking'[l] <= waking[l]
                          /\ polls'[l] \ polls[l] # {} => waking'[l] < waking[l]
  <2>1. loop[l] \notin {"idle", "racing", "waiting"} /\ waking[l] \in Nat
    BY DEF IInv, TypeOK, Ended
  <2> USE DEF IInv, TypeOK
  <2>2. CASE CallPollStatus
    BY <2>1, <2>2, ItemsOfLoops DEF CallPollStatus, RunTask
  <2>3. CASE Abort
    BY <2>1, <2>3 DEF Abort
  <2>4. ASSUME NEW j \in ProofJobs, CallPollSpv(j) PROVE QuietLoop
    BY <2>1, <2>4, ItemsOfLoops DEF CallPollSpv, RunTask
  <2>5. ASSUME NEW j \in ProofJobs, ProofArrives(j) PROVE QuietLoop
    BY <2>1, <2>5, ItemsOfLoops DEF ProofArrives
  <2>6. ASSUME NEW h \in Hosts, OnPollThrows(h) PROVE QuietLoop
    BY <2>1, <2>6, ItemsOfLoops DEF OnPollThrows, Wakes, TaskFails
  <2>7. ASSUME NEW h \in Hosts, Answer(h) PROVE QuietLoop
    BY <2>1, <2>7, ItemsOfLoops DEF Answer, Deliver, TaskFails
  <2>8. ASSUME NEW n \in Loops, SleepEnds(n) PROVE QuietLoop
    BY <2>1, <2>8 DEF SleepEnds, RunTask
  <2>9. ASSUME NEW n \in Loops, Expire(n) \/ TimeoutFires(n) PROVE QuietLoop
    BY <2>1, <2>9 DEF Expire, TimeoutFires
  <2>10. ASSUME NEW n \in Loops, SendPoll(n) PROVE QuietLoop
    BY <2>1, <2>10 DEF SendPoll, Wakes
  <2>11. ASSUME NEW n \in Loops, PollFails(n) PROVE QuietLoop
    BY <2>1, <2>11 DEF PollFails, TaskFails
  <2>12. QED
    BY <2>2, <2>3, <2>4, <2>5, <2>6, <2>7, <2>8, <2>9, <2>10, <2>11 DEF Next
<1>2. QED
  BY <1>1, PollInvariance, PTL DEF Spec, QuietAfterEnd
=============================================================================
