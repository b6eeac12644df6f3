--------------------------- MODULE CommandBuilder ---------------------------
(***************************************************************************)
(* client/createTransactionBuilder and client/composePactCommand: builders *)
(* that collect reducers and run them all at every getCommand and          *)
(* createTransaction.  A command is a JavaScript object: absent fields are *)
(* outside its domain, and its signers are references, because             *)
(* patchCommand writes into the signer it finds.  The template is the      *)
(* initial command several builders may start from; a builder copies its   *)
(* list of signers at each run, but not the signers.                       *)
(***************************************************************************)
EXTENDS Integers, Sequences, SequencesExt, FiniteSets, Functions

CONSTANTS
  Builders, Keys, Caps, DataKeys,
  Paths,         \* what is called on the saved module
  Templates,     \* what createTransactionBuilder may be given
  Steps,         \* the calls of a builder's methods the consumer may make
  MaxSteps, MaxRuns, MaxClock, MaxRefused    \* bounds

Fields == {"payload", "meta", "nonce", "networkId", "signers", "verifiers"}
MetaFields == {"chainId", "sender", "gasLimit", "gasPrice", "ttl", "creationTime"}
Payloads == [kind : {"exec", "cont"}, code : Seq(Paths), data : SUBSET DataKeys,
             proof : {"undefined", "null", "given"}]
CapList == [listed : BOOLEAN, caps : Seq(Caps)]   \* clist, which may be undefined
Signers == [key : Keys, clist : CapList]

(* A nonce and every meta field is Given by the consumer, or a default: a   *)
(* constant, or the time of the run.                                       *)
Given == -1

DataStep == [op : {"addData"}, key : DataKeys]
SignerStep == [op : {"addSigner"}, keys : Seq(Keys), clist : CapList]
VerifierStep == [op : {"addVerifier"}, clist : CapList]
MetaStep == [op : {"setMeta"}, fields : SUBSET MetaFields]
NetworkStep == [op : {"setNetworkId"}]
NonceStep == [op : {"setNonce"}, own : BOOLEAN]   \* own: (cmd) => cmd.nonce
StepRecords == DataStep \cup SignerStep \cup VerifierStep \cup MetaStep
               \cup NetworkStep \cup NonceStep

(* What a consumer may hand over: every field of its type, and the numbers *)
(* among them Given.                                                       *)
IsTemplate(t) ==
  LET cmd == t.cmd
  IN  /\ t.heap \in Seq(Signers)
      /\ cmd = [f \in DOMAIN cmd |-> cmd[f]] /\ DOMAIN cmd \subseteq Fields
      /\ "payload" \in DOMAIN cmd => cmd.payload \in Payloads
      /\ "meta" \in DOMAIN cmd => cmd.meta \in [DOMAIN cmd.meta -> {Given}]
                                   /\ DOMAIN cmd.meta \subseteq MetaFields
      /\ \A f \in {"nonce", "networkId"} \cap DOMAIN cmd : cmd[f] = Given
      /\ "signers" \in DOMAIN cmd => cmd.signers \in Seq(DOMAIN t.heap)
      /\ "verifiers" \in DOMAIN cmd => cmd.verifiers \in Seq(Seq(Caps))

ASSUME StepAssumption == Steps \subseteq StepRecords
ASSUME TemplateAssumption == \A t \in Templates : IsTemplate(t)

VARIABLES
  module,     \* a saved module proxy: the path in its `code`, past the name
  refused,    \* calls of it that threw in an argument
  template,   \* the initial command; its signers are references
  heap,       \* by reference, the signer objects
  builders,   \* by builder, what it was started with and its steps
  commands,   \* the commands getCommand and composePactCommand returned
  txs,        \* the transactions made
  runs,       \* how often a chain of reducers was run, for the bound
  clock

vars == <<module, refused, template, heap, builders, commands, txs, runs, clock>>

Field(cmd, f, absent) == IF f \in DOMAIN cmd THEN cmd[f] ELSE absent

(* {...old, ...new} *)
Over(new, old) ==
  [f \in DOMAIN new \cup DOMAIN old |-> IF f \in DOMAIN new THEN new[f] ELSE old[f]]

-----------------------------------------------------------------------------
(* patchCommand.  A run is [cmd, heap, ok]: ok is FALSE once it has thrown. *)

MergePayload(old, new) ==
  [kind |-> old.kind, code |-> old.code \o new.code, data |-> old.data \cup new.data,
   proof |-> IF new.proof = "undefined" THEN old.proof ELSE new.proof]

Mergeable(cmd, patch) ==
  "payload" \in DOMAIN cmd \cap DOMAIN patch
    => cmd.payload.kind = patch.payload.kind

(* A signer joins the list, or its capabilities join those of the first    *)
(* signer with its key, in place.                                          *)
Join(run, list, ref) ==
  [run EXCEPT !.cmd = Over([signers |-> Append(list, ref)], @)]

WithKey(list, objects, key) == {i \in DOMAIN list : objects[list[i]].key = key}

PatchSignerBug(run, ref) ==   \* a signer found gets the new capabilities only
  LET list  == Field(run.cmd, "signers", << >>)
      found == WithKey(list, run.heap, run.heap[ref].key)
  IN IF found = {} THEN Join(run, list, ref)
     ELSE [run EXCEPT !.heap[list[Min(found)]].clist = run.heap[ref].clist]

PatchSigner(run, ref) ==
  LET list  == Field(run.cmd, "signers", << >>)
      found == WithKey(list, run.heap, run.heap[ref].key)
  IN IF found = {} THEN Join(run, list, ref)
     ELSE [run EXCEPT !.heap[list[Min(found)]].clist =
             [listed |-> TRUE, caps |-> @.caps \o run.heap[ref].clist.caps]]

PatchOne(cmd, patch, f) ==
  CASE f = "payload" /\ f \in DOMAIN cmd -> MergePayload(cmd.payload, patch.payload)
    [] f = "meta"      -> Over(patch.meta, Field(cmd, "meta", << >>))
    [] f = "verifiers" -> Field(cmd, "verifiers", << >>) \o patch.verifiers
    [] OTHER           -> patch[f]

PatchCommand(run, patch) ==
  IF ~run.ok \/ ~Mergeable(run.cmd, patch) THEN [run EXCEPT !.ok = FALSE]
  ELSE LET patched == DOMAIN patch \ {"signers"}
           cmd     == Over([f \in patched |-> PatchOne(run.cmd, patch, f)], run.cmd)
       IN  FoldLeft(PatchSigner, [run EXCEPT !.cmd = cmd], Field(patch, "signers", << >>))

-----------------------------------------------------------------------------
(* The reducers *)

(* DUPLICATED_KEY is thrown when the reducer runs, not when it is added. *)
AddData(run, key) ==
  LET p == run.cmd.payload
  IN  IF key \in p.data THEN [run EXCEPT !.ok = FALSE]
      ELSE PatchCommand(run, [payload |-> [kind |-> p.kind, code |-> << >>,
                                           data |-> {key}, proof |-> "undefined"]])

AddSignerBug(run, keys, clist) ==   \* equal signers are one object
  LET n    == Len(run.heap)
      made == [i \in DOMAIN keys |-> [key |-> keys[i], clist |-> clist]]
      Old(i) == {r \in DOMAIN run.heap : run.heap[r] = made[i]}
      ref  == [i \in DOMAIN keys |-> IF Old(i) = {} THEN n + i ELSE CHOOSE r \in Old(i) : TRUE]
  IN  PatchCommand([run EXCEPT !.heap = @ \o made], [signers |-> ref])

(* Each run makes its signers anew; they share the list of capabilities. *)
AddSigner(run, keys, clist) ==
  LET n    == Len(run.heap)
      made == [i \in DOMAIN keys |-> [key |-> keys[i], clist |-> clist]]
  IN  PatchCommand([run EXCEPT !.heap = @ \o made],
                   [signers |-> [i \in DOMAIN keys |-> n + i]])

AddVerifier(run, clist) == PatchCommand(run, [verifiers |-> <<clist.caps>>])

SetMeta(run, fields) == PatchCommand(run, [meta |-> [f \in fields |-> Given]])

SetNetworkId(run) == PatchCommand(run, [networkId |-> Given])

SetNonce(run, own) ==
  PatchCommand(run, [nonce |-> IF own THEN run.cmd.nonce ELSE Given])

(* execution(...codes), and continuation with the default proof: null. *)
Execution(code) ==
  [payload |-> [kind |-> "exec", code |-> code, data |-> {}, proof |-> "undefined"]]

Continuation ==
  [payload |-> [kind |-> "cont", code |-> << >>, data |-> {}, proof |-> "null"]]

Reduce(run, step) ==
  IF ~run.ok THEN run
  ELSE CASE step.op = "addData"      -> AddData(run, step.key)
         [] step.op = "addSigner"    -> AddSigner(run, step.keys, step.clist)
         [] step.op = "addVerifier"  -> AddVerifier(run, step.clist)
         [] step.op = "setMeta"      -> SetMeta(run, step.fields)
         [] step.op = "setNetworkId" -> SetNetworkId(run)
         [] step.op = "setNonce"     -> SetNonce(run, step.own)

(* finalizeCommand: what is missing gets its default, Date.now() being     *)
(* time.  Variants named ...Bug are what a plausible mistake would turn    *)
(* the definition after them into; no specification uses them.             *)
DefaultNonceBug(time) == runs   \* a counter

DefaultNonce(time) == time

DefaultMetaBug(time) == [f \in {"sender", "gasLimit", "gasPrice", "creationTime"} |-> time]

DefaultMeta(time) ==
  [f \in MetaFields \ {"chainId"} |-> IF f = "creationTime" THEN time ELSE 0]

Finalize(run, time) ==
  LET cmd == Over(run.cmd, [nonce |-> DefaultNonce(time), signers |-> << >>])
      Default(f) ==
        CASE f = "meta" -> Over(cmd.meta, DefaultMeta(time))
          [] f = "payload" /\ cmd.payload.kind = "cont" ->
               [cmd.payload EXCEPT !.proof = IF @ = "undefined" THEN "null" ELSE @]
          [] OTHER -> cmd[f]
  IN  [run EXCEPT !.cmd = [f \in DOMAIN cmd |-> Default(f)]]

(* The nested composePactCommand of statefulCompose: every reducer works on *)
(* a finalised command, and the first one on a patched {}.                 *)
Start(objects) == [cmd |-> << >>, heap |-> objects, ok |-> TRUE]

RunAll(initial, objects, steps, time) ==
  LET Next1(run, step) == Finalize(Reduce(run, step), time)
  IN  FoldLeft(Next1, Finalize(PatchCommand(Start(objects), initial), time), steps)

Initial(b) ==
  IF builders[b].fromTemplate /\ "signers" \in DOMAIN template
  THEN Over([signers |-> template.signers], builders[b].init)
  ELSE builders[b].init

RunOnce(b) == RunAll(Initial(b), heap, builders[b].steps, clock)

-----------------------------------------------------------------------------
NoBuilder == [init |-> << >>, fromTemplate |-> FALSE, steps |-> << >>, made |-> FALSE]

Init ==
  /\ module = << >>
  /\ refused = 0
  /\ \E t \in Templates : template = t.cmd /\ heap = t.heap
  /\ builders = [b \in Builders |-> NoBuilder]
  /\ commands = << >>
  /\ txs = << >>
  /\ runs = 0
  /\ clock = 0

(* A call of a saved module proxy, coin[path](arg), whose argument         *)
(* parseAsPactValue refuses (a number): `code` is not reset.  The consumer *)
(* catches the error.                                                      *)
CallRefused(path) ==
  /\ refused < MaxRefused /\ runs = 0
  /\ refused' = refused + 1
  /\ module' = Append(module, path)
  /\ UNCHANGED <<template, heap, builders, commands, txs, runs, clock>>

(* A call that succeeds gives the expression and resets `code`. *)
Expression(path) == Append(module, path)

AfterCallBug(path) == Append(module, path)   \* code = name is forgotten

AfterCall(path) == << >>

(* createTransactionBuilder(template).execution(...) or .continuation(...), *)
(* which throws PAYLOAD_NOT_MERGEABLE at once.                             *)
NewBuilder(b, payload, fromTemplate) ==
  LET cmd     == IF fromTemplate THEN Restrict(template, DOMAIN template \ {"signers"}) ELSE << >>
      patched == PatchCommand([cmd |-> cmd, heap |-> heap, ok |-> TRUE], payload)
  IN  /\ ~builders[b].made
      /\ patched.ok
      /\ builders' = [builders EXCEPT ![b] = [init |-> patched.cmd, steps |-> << >>,
                                              fromTemplate |-> fromTemplate, made |-> TRUE]]
      /\ UNCHANGED <<refused, template, heap, commands, txs, runs, clock>>

NewExecution(b, path, fromTemplate) ==
  /\ NewBuilder(b, Execution(Expression(path)), fromTemplate)
  /\ module' = AfterCall(path)

NewContinuation(b, fromTemplate) ==
  /\ NewBuilder(b, Continuation, fromTemplate)
  /\ UNCHANGED module

(* The builder's methods append a reducer; nothing runs yet. *)
AddStep(b, step) ==
  /\ builders[b].made
  /\ FoldFunction(LAMBDA x, n : n + Len(x.steps), 0, builders) < MaxSteps
  /\ builders' = [builders EXCEPT ![b].steps = Append(@, step)]
  /\ UNCHANGED <<module, refused, template, heap, commands, txs, runs, clock>>

Runs == runs < MaxRuns /\ runs' = runs + 1

(* getCommand hands out the command itself, with its signers.  What a run  *)
(* that throws has written into the template's signers stays there.        *)
GetCommand(b) ==
  LET run == RunOnce(b)
  IN  /\ builders[b].made /\ Runs
      /\ heap' = run.heap
      /\ commands' = IF run.ok THEN Append(commands, [cmd |-> run.cmd, live |-> FALSE])
                     ELSE commands
      /\ UNCHANGED <<module, refused, template, builders, txs, clock>>

(* createTransaction stringifies it at once; its new signers are garbage.  *)
Body(cmd, objects) == [cmd EXCEPT !.signers = [i \in DOMAIN @ |-> objects[@[i]]]]

CreateTransaction(b) ==
  LET run == RunOnce(b)
  IN  /\ builders[b].made /\ Runs
      /\ heap' = SubSeq(run.heap, 1, Len(heap))
      /\ txs' = IF run.ok THEN Append(txs, [body |-> Body(run.cmd, run.heap), time |-> clock,
                                            of |-> builders[b]])
                ELSE txs
      /\ UNCHANGED <<module, refused, template, builders, commands, clock>>

(* composePactCommand(addSigner(...))(template): the command returned      *)
(* shares the template's own list of signers, and new ones are pushed      *)
(* onto it; they share the payload too, and get its default proof.         *)
ComposeOnTemplate(step) ==
  LET run  == Finalize(Reduce([cmd |-> template, heap |-> heap, ok |-> TRUE], step), clock)
      live == "signers" \in DOMAIN template
  IN  /\ Runs
      /\ step.op = "addSigner"
      /\ heap' = run.heap
      /\ template' = [f \in DOMAIN template |-> IF f \in {"signers", "payload"} THEN run.cmd[f]
                                                ELSE template[f]]
      /\ commands' = Append(commands, [cmd |-> run.cmd, live |-> live])
      /\ UNCHANGED <<module, refused, builders, txs, clock>>

(* Before the first run the time tells nothing apart. *)
Tick ==
  /\ clock < MaxClock /\ runs > 0
  /\ clock' = clock + 1
  /\ UNCHANGED <<module, refused, template, heap, builders, commands, txs, runs>>

Next ==
  \/ \E path \in Paths : CallRefused(path)
  \/ \E b \in Builders, fromTemplate \in BOOLEAN :
       \/ \E path \in Paths : NewExecution(b, path, fromTemplate)
       \/ NewContinuation(b, fromTemplate)
  \/ \E b \in Builders : GetCommand(b) \/ CreateTransaction(b) \/ \E step \in Steps : AddStep(b, step)
  \/ \E step \in Steps : ComposeOnTemplate(step)
  \/ Tick

Spec == Init /\ [][Next]_vars

-----------------------------------------------------------------------------
(* Properties *)

IsPactCommand(cmd) ==
  /\ {"payload", "networkId", "nonce", "meta"} \subseteq DOMAIN cmd
  /\ MetaFields \ {"sender"} \subseteq DOMAIN cmd.meta

(* Every variable holds what the code can put there, and a transaction has *)
(* all that a node needs once a network and a chain were named.            *)
TypeOK ==
  /\ \A b \in Builders : DOMAIN builders[b].init \subseteq Fields
  /\ heap \in Seq(Signers)
  /\ \A i \in DOMAIN txs :
       LET cmd == txs[i].body
       IN  /\ cmd.payload \in Payloads /\ cmd.signers \in Seq(Signers)
           /\ cmd.payload.kind = "cont" => cmd.payload.proof # "undefined"
           /\ "networkId" \in DOMAIN cmd /\ "chainId" \in DOMAIN Field(cmd, "meta", << >>)
                => IsPactCommand(cmd)

Refs(i) == IF commands[i].live THEN template.signers ELSE commands[i].cmd.signers
CommandBody(i) == Body([commands[i].cmd EXCEPT !.signers = Refs(i)], heap)

(* A command that was handed out changes later only if it shares a signer, *)
(* or its list of signers, with the template: builders that start from     *)
(* scratch do not disturb each other or their own earlier commands         *)
(* (patchCommand.cjs:62-79).                                               *)
SharesTemplate(i) ==
  "signers" \in DOMAIN template
    /\ (commands[i].live \/ ToSet(Refs(i)) \cap ToSet(template.signers) # {})

CommandsStaySeparate ==
  [][\A i \in DOMAIN commands : CommandBody(i)' # CommandBody(i) => SharesTemplate(i)]_vars

Own(b) == b.fromTemplate => "signers" \notin DOMAIN template

Pinned(cmd) ==
  cmd.nonce = Given /\ ("meta" \in DOMAIN cmd => cmd.meta.creationTime = Given)

(* The same calls make the same transaction exactly if nonce and creation  *)
(* time are pinned or no time has passed: whether a second                 *)
(* createTransaction is a duplicate the chain drops or a second payment is *)
(* decided by that alone (composePactCommand.cjs:8-24).                    *)
TransactionsAgree ==
  \A i, j \in DOMAIN txs :
    txs[i].of = txs[j].of /\ Own(txs[i].of)
      => (txs[i].body = txs[j].body <=> Pinned(txs[i].body) \/ txs[i].time = txs[j].time)

(* The capabilities the calls of addSigner name for a key, in order. *)
CapsGiven(steps, key) ==
  LET Given1(caps, s) == IF s.op = "addSigner" /\ Contains(s.keys, key)
                         THEN caps \o s.clist.caps ELSE caps
  IN  FoldLeft(Given1, << >>, steps)

(* No builder lists a key twice; what a signer signs for is all it was     *)
(* given, in order, so that it is unscoped only if nothing was ever named, *)
(* and a template adds to that and takes nothing away.                     *)
SignersAsGiven ==
  \A i \in DOMAIN txs :
    LET signers == txs[i].body.signers
    IN  /\ \A p, q \in DOMAIN signers : signers[p].key = signers[q].key => p = q
        /\ \A p \in DOMAIN signers :
             LET given == CapsGiven(txs[i].of.steps, signers[p].key)
             IN  IF Own(txs[i].of) THEN signers[p].clist.caps = given
                 ELSE \A c \in ToSet(given) : Contains(signers[p].clist.caps, c)

(* Each refused call of a saved module spoils one later expression at      *)
(* most: every other is the name of the function called (pact.cjs:12-30).  *)
CodeIsItsPath ==
  Cardinality({b \in Builders : "payload" \in DOMAIN builders[b].init
                                /\ Len(builders[b].init.payload.code) > 1}) <= refused

TransactionsSayWhatWasGiven == SignersAsGiven /\ CodeIsItsPath
=============================================================================
