---------------------------- MODULE WalletReads ----------------------------
(***************************************************************************)
(* wallet/KadenaWallet.ts over reads/: getBalance asks the resolver and    *)
(* the reader wired at that moment, the reader asks one pinned node or     *)
(* goes through withFailover (FailoverContract), every attempt has its own *)
(* timer, and what is answered passes errors/ and pact/format.ts on its    *)
(* way to the screen.  Nodes see the chain at different heights, and the   *)
(* consumer may rewire all of it while reads are in flight.                *)
(***************************************************************************)
EXTENDS Amounts, FiniteSets

CONSTANTS
  Hosts, Calls, NoHost,
  Ledger,          \* by height, what a read of the account gives
  Messages,        \* the other failures a node may answer: sets of phrases
  Pins,            \* the pactUrl a reader may pass: "none", "" or a host
  MaxDecimals,
  MaxChanges       \* bound: how often the consumer rewires

ASSUME NodeAssumption == NoHost \notin Hosts /\ Pins \subseteq Hosts \cup {"none", ""}
ASSUME LedgerAssumption == Len(Ledger) \in Nat \ {0}
ASSUME DecimalsAssumption == MaxDecimals \in Nat

VARIABLES
  pair, active, tried, onPrimary,   \* of FailoverContract
  heads,      \* by host, the height it has reached
  reader,     \* _reader: the pin it passes to rawCalibratedDirtyRead
  resolver,   \* balanceResolver: "default" (it throws) or "live"
  logger,     \* _logger: by channel, where its lines go
  lines,      \* where the lines of reported errors have gone
  reads,      \* by call, what became of getBalance
  balance,    \* the wallet's
  last,       \* the host that gave it, and its height at the call's start
  changes     \* for the bound

failoverVars == <<pair, active, tried, onPrimary>>
wiring == <<reader, resolver, logger, lines, changes>>
vars == <<failoverVars, heads, wiring, reads, balance, last>>

Failover == INSTANCE FailoverContract

Channels == {"warn", "error", "info"}
DefaultLogger == [ch \in Channels |-> "console"]

Value(text) == [ok |-> TRUE, text |-> text, code |-> ""]
Failed(code) == [ok |-> FALSE, text |-> ZeroText, code |-> code]

Unread == [state |-> "none", pin |-> "none", hosts |-> << >>, ended |-> << >>,
           since |-> << >>, outcome |-> Failed("")]

Init ==
  /\ Failover!Init /\ onPrimary = [c \in Calls |-> FALSE]
  /\ heads = [h \in Hosts |-> 1]
  /\ reader \in Pins /\ resolver \in {"default", "live"} /\ logger = DefaultLogger /\ lines = {} /\ changes = 0
  /\ reads = [c \in Calls |-> Unread]
  /\ balance = ZeroText /\ last = [host |-> NoHost, since |-> 0]

-----------------------------------------------------------------------------
(* The codes of errors/transactionErrors.ts, for a message that holds some *)
(* phrases; the first match decides.                                       *)

CreateSimulationErrorBug(phrases) ==       \* the missing row is looked for first
  IF phrases \cap {"row not found", "account does not exist"} # {} THEN "ACCOUNT_NOT_FOUND"
  ELSE "SIMULATION_FAILED"

CreateSimulationError(phrases) ==
  LET OneOf(some) == phrases \cap some # {}
  IN IF {"Gas limit", "exceeded"} \subseteq phrases THEN "GAS_LIMIT_EXCEEDED"
     ELSE IF OneOf({"row not found", "account does not exist"}) THEN "ACCOUNT_NOT_FOUND"
     ELSE IF OneOf({"insufficient funds", "balance"}) THEN "INSUFFICIENT_FUNDS"
     ELSE IF OneOf({"keyset", "guard"}) THEN "KEYSET_ERROR"
     ELSE "SIMULATION_FAILED"

(* BalanceResolver: the text of the balance, "0" for an absent account,    *)
(* and the error of any other failure.                                     *)
Resolve(answer) ==
  IF answer.status = "success" THEN Value(MayComeWithDeimal(answer.data))
  ELSE LET code == CreateSimulationError(answer.phrases)
       IN IF code = "ACCOUNT_NOT_FOUND" THEN Value(ZeroText) ELSE Failed(code)

(* How an attempt fails: its timer aborts it, the connection breaks, or    *)
(* anything else.  An AbortError that gets as far as the reader's caller   *)
(* becomes a TIMEOUT.                                                      *)
Failures == {"timer", "connection", "other"}
NetworkErrors == {"timer", "connection"}
ErrorOfBug(how) == IF how = "timer" THEN "ABORT" ELSE "ERROR"    \* not converted
ErrorOf(how) == IF how = "timer" THEN "TIMEOUT" ELSE "ERROR"

Pinned(c) == reads[c].pin \notin {"none", ""}
Asked(c) == IF Pinned(c) THEN reads[c].pin ELSE Last(tried[c])
CanRetryBug(c, how) == ~Pinned(c) /\ Len(tried[c]) = 1 /\ onPrimary[c]   \* after any failure
CanRetry(c, how) == how \in NetworkErrors /\ ~Pinned(c) /\ Len(tried[c]) = 1 /\ onPrimary[c]

-----------------------------------------------------------------------------
(* getBalance, up to its first await; the resolver and the reader are the  *)
(* ones of this moment.                                                    *)

Start(c, hosts) ==
  reads' = [reads EXCEPT ![c] = [Unread EXCEPT !.state = "reading", !.pin = reader,
                                               !.hosts = hosts, !.since = heads]]

Unresolved(c) ==
  /\ reads[c].state = "none" /\ resolver = "default"
  /\ reads' = [reads EXCEPT ![c] = [Unread EXCEPT !.state = "settled", !.outcome = Failed("NOT_CONFIGURED")]]
  /\ UNCHANGED <<failoverVars, heads, wiring, balance, last>>

ReadPinned(c) ==
  /\ reads[c].state = "none" /\ resolver = "live" /\ reader \notin {"none", ""}
  /\ Start(c, <<reader>>)
  /\ UNCHANGED <<failoverVars, heads, wiring, balance, last>>

ReadWithFailover(c) ==
  /\ reads[c].state = "none" /\ resolver = "live" /\ reader \in {"none", ""}
  /\ Start(c, <<active>>) /\ Failover!Begin(c)
  /\ UNCHANGED <<heads, wiring, balance, last>>

Settled(c, how, outcome) ==
  [reads[c] EXCEPT !.state = "settled", !.ended = Append(@, how), !.since = << >>, !.outcome = outcome]

WrittenBy(c) == [host |-> Asked(c), since |-> reads[c].since[Asked(c)]]

SettleBug(c, how, outcome) ==              \* an error becomes a balance of "0"
  /\ reads' = [reads EXCEPT ![c] = Settled(c, how, outcome)]
  /\ balance' = outcome.text /\ last' = WrittenBy(c)
  /\ IF Pinned(c) THEN UNCHANGED failoverVars ELSE Failover!Return(c) /\ ~onPrimary'[c]

(* The attempt decides the call: the balance is assigned if it has one. *)
Settle(c, how, outcome) ==
  /\ reads' = [reads EXCEPT ![c] = Settled(c, how, outcome)]
  /\ IF outcome.ok THEN balance' = outcome.text /\ last' = WrittenBy(c) ELSE UNCHANGED <<balance, last>>
  /\ IF Pinned(c) THEN UNCHANGED failoverVars ELSE Failover!Return(c) /\ ~onPrimary'[c]

Answers(host) == {Ledger[heads[host]]} \cup [status : {"failure"}, phrases : Messages]

Answer(c) ==
  /\ reads[c].state = "reading"
  /\ \E answer \in Answers(Asked(c)) : Settle(c, "answer", Resolve(answer))
  /\ UNCHANGED <<heads, wiring>>

Fails(c, how) ==
  /\ reads[c].state = "reading" /\ ~CanRetry(c, how)
  /\ Settle(c, how, Failed(ErrorOf(how)))
  /\ UNCHANGED <<heads, wiring>>

(* withFailover switches to the fallback of now and tries once more. *)
Retry(c, how) ==
  /\ reads[c].state = "reading" /\ CanRetry(c, how)
  /\ Failover!Retry(c)
  /\ reads' = [reads EXCEPT ![c].ended = Append(@, how), ![c].hosts = Append(@, active')]
  /\ UNCHANGED <<heads, wiring, balance, last>>

-----------------------------------------------------------------------------
(* The chain, the other users of the nodes, and the consumer's wiring. *)

Advance(h) ==
  /\ heads[h] < Len(Ledger)
  /\ heads' = [heads EXCEPT ![h] = @ + 1]
  /\ UNCHANGED <<failoverVars, wiring, reads, balance, last>>

Elsewhere ==
  /\ Failover!Reconfigure \/ Failover!Switch
  /\ changes < MaxChanges /\ changes' = changes + 1
  /\ UNCHANGED <<heads, reader, resolver, logger, lines, reads, balance, last>>

(* A candidate that is no function is refused, and the reader stays. *)
SetPactReader ==
  /\ changes < MaxChanges /\ changes' = changes + 1
  /\ reader' \in Pins
  /\ UNCHANGED <<failoverVars, heads, resolver, logger, lines, reads, balance, last>>

SetResolver ==
  /\ changes < MaxChanges /\ changes' = changes + 1
  /\ resolver' \in {"default", "live"}
  /\ UNCHANGED <<failoverVars, heads, reader, logger, lines, reads, balance, last>>

(* setLogger, for a candidate with functions under some of the channels:   *)
(* without warn or error it is refused, and info is filled in.             *)
InstalledBug(candidate) == [ch \in Channels |-> IF ch \in candidate THEN "consumer" ELSE "nothing"]

Installed(candidate) ==
  IF {"warn", "error"} \subseteq candidate
  THEN [ch \in Channels |-> IF ch \in candidate THEN "consumer" ELSE "console"]
  ELSE logger

SetLogger ==
  /\ changes < MaxChanges /\ changes' = changes + 1
  /\ \E candidate \in SUBSET Channels : logger' = Installed(candidate)
  /\ UNCHANGED <<failoverVars, heads, reader, resolver, lines, reads, balance, last>>

(* logDetailedError, with the logger of now, for each error caught. *)
Report(c) ==
  /\ reads[c].state = "settled" /\ ~reads[c].outcome.ok
  /\ reads' = [reads EXCEPT ![c] = [Unread EXCEPT !.state = "reported"]]
  /\ lines' = lines \cup {logger["error"], logger["info"]}
  /\ UNCHANGED <<failoverVars, heads, reader, resolver, logger, changes, balance, last>>

Next ==
  \/ \E c \in Calls :
       \/ Unresolved(c) \/ ReadPinned(c) \/ ReadWithFailover(c) \/ Answer(c) \/ Report(c)
       \/ \E how \in Failures : Fails(c, how) \/ Retry(c, how)
  \/ \E h \in Hosts : Advance(h)
  \/ Elsewhere \/ SetPactReader \/ SetResolver \/ SetLogger

Spec == Init /\ [][Next]_vars

-----------------------------------------------------------------------------
(* The state is of its type.  In particular no line is ever given to a     *)
(* channel that is not a function, whatever setLogger was called with      *)
(* (logger.ts:92-141).                                                     *)
TypeOK ==
  /\ pair \in Failover!Pairs /\ active \in {pair.primary, pair.fallback}
  /\ heads \in [Hosts -> 1..Len(Ledger)]
  /\ reader \in Pins /\ resolver \in {"default", "live"}
  /\ logger \in [Channels -> {"console", "consumer"}] /\ lines \subseteq {"console", "consumer"}
  /\ last \in [host : Hosts, since : 1..Len(Ledger)] \cup {[host |-> NoHost, since |-> 0]}
  /\ \A c \in Calls :
       /\ reads[c].state \in {"none", "reading", "settled", "reported"}
       /\ tried[c] # << >> => reads[c].state = "reading" /\ ~Pinned(c)

(* What a height says of the account. *)
BalanceAt(k) == Resolve(Ledger[k])

(* The balance on the wallet is "0" until a read has a value, and then the *)
(* balance the asked node has had since that call was made: no error       *)
(* and no switch of node makes one up (KadenaWallet.ts:92-100), and "0"    *)
(* says that the account's row was missing (wallet/types.ts:36-46).        *)
BalanceIsRead ==
  IF last.host = NoHost THEN balance = ZeroText
  ELSE \E k \in last.since..heads[last.host] : BalanceAt(k).ok /\ BalanceAt(k).text = balance

(* BalanceIsRead, and: a pinned read asks its node, once; any other asks    *)
(* again only after a network error; and it ends in TIMEOUT exactly if its *)
(* last attempt was cut by its own timer (rawCalibratedRead.ts:70-110).    *)
ReadsAreHonest ==
  BalanceIsRead /\ \A c \in Calls : LET read == reads[c] IN
    /\ Pinned(c) /\ read.hosts # << >> => read.hosts = <<read.pin>> /\ Len(read.ended) <= 1
    /\ Len(read.hosts) <= 2
    /\ Len(read.hosts) = 2 => read.ended[1] \in NetworkErrors
    /\ read.state = "settled" =>
         (read.outcome.code = "TIMEOUT"
            <=> read.ended # << >> /\ read.ended[Len(read.ended)] = "timer")

(* What the screen and a transaction make of the balance: the literal has  *)
(* its value, cut after MaxDecimals and never more; an integer literal is  *)
(* the text; what is shown, with a decimal comma, is read back to the same *)
(* value, and given to formatDecimalForPact is refused or has that value.  *)
AmountsMeanWhatTheySay ==
  LET value   == ValueOf(balance)
      cut     == Number(<< >>, Cut(value.part, MaxDecimals)).part
      literal == FormatDecimalForPact(balance, MaxDecimals)
      integer == FormatIntegerForPact(balance)
      shown   == FormatEU(balance)
      typed   == FormatDecimalForPact(shown, MaxDecimals)
  IN /\ literal.ok /\ ValueOf(literal.text) = [value EXCEPT !.part = cut]
     /\ integer.ok <=> balance.marks = << >>
     /\ integer.ok => integer.text = balance
     /\ balance.marks # << >> =>
          /\ ParseEU(shown) = value
          /\ typed.ok => ValueOf(typed.text) = [value EXCEPT !.part = cut]

(* What format.ts:178-186 says of the pair: chain numbers are formatted to *)
(* European locale, and parseEU parses such a string back.                 *)
DisplayRoundTrip == ParseEU(FormatEU(balance)) = ValueOf(balance)
=============================================================================
