----------------------------- MODULE PartialSig -----------------------------
(***************************************************************************)
(* Several parties sign one transaction in turn: packages/stoa-core/src/   *)
(* signing/partialSig.ts over universalSign.ts, and the addSignatures and  *)
(* wallet bridges of packages/kadena-stoic-legacy/src/client/signing.      *)
(* A party signs its copy with the keys it holds, exports the copy as an   *)
(* envelope, and another imports it; whoever finds every slot filled and   *)
(* every signature valid may submit.                                        *)
(*                                                                         *)
(* Envelopes travel by file, paste buffer or chat: they arrive in any      *)
(* order, more than once or never, and an editor or a tool may change one  *)
(* on its way.  The wallets behind the bridges, the chain, and the party   *)
(* that decides what to sign, import and submit are external.              *)
(*                                                                         *)
(* A hash is a record of the command it was computed from, a signature one *)
(* of the key it verifies under and the hash it covers.  An undefined slot *)
(* and one whose sig is missing or empty are the slot without signature.   *)
(***************************************************************************)
EXTENDS Naturals, FiniteSets, Sequences

CONSTANTS
  Parties,
  Keys,
  Cmds,            \* commands: what an edit or a wallet can make of the draft
  Draft,           \* the command the parties set out to sign
  SignersOf,       \* the public keys of cmd.signers, in their order
  Holds,           \* the keys each party can sign with
  Raw,             \* keys held as a pasted or imported secret, never checked
                   \* against its public key
  EckoUsers,       \* parties whose wallet is Ecko; the others' is Chainweaver
  NoKey, NoSig, NoTx,
  MaxMail,         \* bound: envelopes ever posted
  MaxEdits         \* bound: envelopes changed on their way

ASSUME PartialAssumption ==
  /\ Draft \in Cmds
  /\ SignersOf \in [Cmds -> Seq(Keys)]   \* the builder lists a key once
  /\ \A c \in Cmds : \A i, j \in DOMAIN SignersOf[c] :
       SignersOf[c][i] = SignersOf[c][j] => i = j
  /\ Holds \in [Parties -> SUBSET Keys]
  /\ Raw \subseteq Keys
  /\ NoKey \notin Keys
  /\ MaxMail \in Nat /\ MaxEdits \in Nat

(* blake2b-256 of the command's text. *)
HashOf(cmd) == [of |-> cmd]
Hashes == {HashOf(cmd) : cmd \in Cmds}

Signature == [by : Keys \cup {NoKey}, over : Hashes]
Slot == [pub : Keys \cup {NoKey}, sig : Signature \cup {NoSig}]
Transaction == [cmd : Cmds, hash : Hashes, sigs : Seq(Slot)]

ASSUME AbsentAssumption == NoSig \notin Signature /\ NoTx \notin Transaction

EmptySlot == [pub |-> NoKey, sig |-> NoSig]

VARIABLES
  copy,      \* the transaction each party works on
  mail,      \* the envelopes posted so far; none is ever taken out
  edits,     \* how many of them were changed on their way
  shown      \* <<key, cmd>>: the holder of the key signed while reading cmd

vars == <<copy, mail, edits, shown>>

TypeOK ==
  /\ copy \in [Parties -> Transaction \cup {NoTx}]
  /\ mail \subseteq Transaction
  /\ edits \in 0..MaxEdits
  /\ shown \subseteq Keys \X Cmds

Init ==
  /\ copy = [p \in Parties |-> NoTx]
  /\ mail = {}
  /\ edits = 0
  /\ shown = {}

(***************************************************************************)
(* Signatures and slots.                                                   *)
(***************************************************************************)

Signers(tx) == SignersOf[tx.cmd]
Filled(slot) == slot.sig # NoSig
FilledAt(tx, i) == i \in DOMAIN tx.sigs /\ Filled(tx.sigs[i])

(* getMissingSigners and isFullySigned: by position. *)
IsFullySigned(tx) == \A i \in DOMAIN Signers(tx) : FilledAt(tx, i)

(* Mutant for VerifiedIsAccepted: a filled slot passes by its form. *)
VerifyBug(tx) == \A i \in DOMAIN tx.sigs : Filled(tx.sigs[i]) => i \in DOMAIN Signers(tx)

(* verifyExistingSignatures(tx).allValid: empty slots are not failures. *)
Verify(tx) ==
  \A i \in DOMAIN tx.sigs : Filled(tx.sigs[i]) =>
    /\ i \in DOMAIN Signers(tx)
    /\ tx.sigs[i].sig = [by |-> Signers(tx)[i], over |-> tx.hash]

(* The slots with a pubKey: what addSignatures can find again. *)
NamedSlot(sigs, k) ==
  LET named == {i \in DOMAIN sigs : sigs[i].pub = k}
  IN  IF named = {} THEN EmptySlot
      ELSE sigs[CHOOSE i \in named : \A j \in named : i <= j]

(* Mutant for NamedSlotsStay: a new signature replaces what is there. *)
AddSignaturesBug(tx, added) ==
  [tx EXCEPT !.sigs = [i \in DOMAIN Signers(tx) |->
     LET k == Signers(tx)[i]
     IN  IF k \in DOMAIN added THEN [pub |-> k, sig |-> added[k]]
         ELSE [pub |-> k, sig |-> NoSig]]]

(* addSignatures for signatures that carry their pubKey (added maps the    *)
(* keys to them): slots are rebuilt in the order of cmd.signers, from the  *)
(* named slots and the new signatures; a filled one is not replaced.       *)
AddSignatures(tx, added) ==
  [tx EXCEPT !.sigs = [i \in DOMAIN Signers(tx) |->
     LET k == Signers(tx)[i]
         existed == NamedSlot(tx.sigs, k)
     IN  IF Filled(existed) THEN existed
         ELSE [pub |-> k, sig |-> IF k \in DOMAIN added THEN added[k] ELSE NoSig]]]

(***************************************************************************)
(* The operations of a party.                                              *)
(***************************************************************************)

Has(p) == copy[p] # NoTx

(* createTransaction: the hash of the command and a slot per signer. *)
NewTransaction(cmd) ==
  [cmd |-> cmd, hash |-> HashOf(cmd),
   sigs |-> [i \in DOMAIN SignersOf[cmd] |-> EmptySlot]]

Create(p) ==
  /\ ~Has(p)
  /\ copy' = [copy EXCEPT ![p] = NewTransaction(Draft)]
  /\ UNCHANGED <<mail, edits, shown>>

SignerKeys(tx) == {Signers(tx)[i] : i \in DOMAIN Signers(tx)}

(* Mutant for TypeOK: the command is signed instead of its hash. *)
SignHashBug(tx, k, wrong) == [by |-> IF k \in wrong THEN NoKey ELSE k, over |-> tx.cmd]

(* signHash with a secret that does not belong to the public key makes a   *)
(* signature all the same, under the public key it was told.               *)
SignHash(tx, k, wrong) ==
  [by |-> IF k \in wrong THEN NoKey ELSE k, over |-> tx.hash]

(* signPartial with some of the keys the party holds: those that are not   *)
(* signers are skipped, and with none left the transaction is returned     *)
(* unchanged.  A failure (a wrong password) rejects and returns nothing.   *)
SignPartial(p) ==
  /\ Has(p)
  /\ \E ks \in (SUBSET (Holds[p] \cap SignerKeys(copy[p]))) \ {{}} :
       \E wrong \in SUBSET (ks \cap Raw) :
         /\ copy' = [copy EXCEPT ![p] =
                       AddSignatures(@, [k \in ks |-> SignHash(@, k, wrong)])]
         /\ shown' = shown \cup {<<k, copy[p].cmd>> : k \in ks}
  /\ UNCHANGED <<mail, edits>>

(* Both quicksign bridges name the slots by position in what they ask, so  *)
(* a signature without pubKey gets one.                                    *)
Requested(tx) ==
  [i \in DOMAIN Signers(tx) |-> IF FilledAt(tx, i) THEN tx.sigs[i].sig ELSE NoSig]

(* A wallet fills the slots of the keys it is to use, over the hash it     *)
(* computes itself.                                                        *)
Answered(tx, own) ==
  [i \in DOMAIN Signers(tx) |->
     IF Requested(tx)[i] = NoSig /\ Signers(tx)[i] \in own
     THEN [by |-> Signers(tx)[i], over |-> HashOf(tx.cmd)]
     ELSE Requested(tx)[i]]

(* What is filled in the answer is added, each under its key. *)
QuickSigned(tx, own) ==
  LET answer == Answered(tx, own)
      filled == {i \in DOMAIN answer : answer[i] # NoSig}
  IN  AddSignatures(tx, [k \in {Signers(tx)[i] : i \in filled} |->
                           answer[CHOOSE i \in filled : Signers(tx)[i] = k]])

QuickSignBy(p, own) ==
  /\ copy' = [copy EXCEPT ![p] = QuickSigned(@, own)]
  /\ shown' = shown \cup {<<k, copy[p].cmd>> : k \in own}
  /\ UNCHANGED <<mail, edits>>

(* Chainweaver's answer is taken as it is. *)
QuickSign(p) ==
  /\ Has(p) /\ p \notin EckoUsers
  /\ \E own \in SUBSET (Holds[p] \cap SignerKeys(copy[p])) : QuickSignBy(p, own)

(* Ecko's names the hash it signed, which must be that of the transaction; *)
(* without success as its outcome nothing is added.                        *)
QuickSignWithEcko(p) ==
  /\ Has(p) /\ p \in EckoUsers
  /\ HashOf(copy[p].cmd) = copy[p].hash
  /\ \E own \in SUBSET (Holds[p] \cap SignerKeys(copy[p])) : QuickSignBy(p, own)

(* signWithEckoWallet returns the wallet's own command and its signatures, *)
(* which carry no pubKey, in place of the transaction it was given.        *)
SignWithEcko(p) ==
  /\ Has(p) /\ p \in EckoUsers
  /\ \E c \in Cmds :
       LET mine == Holds[p] \cap {SignersOf[c][i] : i \in DOMAIN SignersOf[c]}
       IN  /\ mine # {}
           /\ copy' = [copy EXCEPT ![p] =
                [NewTransaction(c) EXCEPT !.sigs = [i \in DOMAIN SignersOf[c] |->
                   IF SignersOf[c][i] \in mine
                   THEN [pub |-> NoKey,
                         sig |-> [by |-> SignersOf[c][i], over |-> HashOf(c)]]
                   ELSE EmptySlot]]]
           /\ shown' = shown \cup {<<k, c>> : k \in mine}
  /\ UNCHANGED <<mail, edits>>

(* serializePartialTransaction, and the envelope handed on. *)
Export(p) ==
  /\ Has(p) /\ Cardinality(mail) < MaxMail
  /\ mail' = mail \cup {copy[p]}
  /\ UNCHANGED <<copy, edits, shown>>

(* Mutant for SignedWasShown: the embedded hash is believed. *)
ImportBug(p) ==
  /\ \E envelope \in mail : copy' = [copy EXCEPT ![p] = envelope]
  /\ UNCHANGED <<mail, edits, shown>>

(* deserializePartialTransaction: an envelope whose hash is not that of    *)
(* its command is refused, and the party keeps what it has.                *)
Import(p) ==
  /\ \E envelope \in mail :
       /\ envelope.hash = HashOf(envelope.cmd)
       /\ copy' = [copy EXCEPT ![p] = envelope]
  /\ UNCHANGED <<mail, edits, shown>>

(***************************************************************************)
(* The way between the parties, and what the chain asks for.               *)
(***************************************************************************)

(* Another command, with its hash or the old one, or a damaged signature.  *)
EditsOf(e) ==
  {[e EXCEPT !.cmd = c] : c \in Cmds}
  \cup {[e EXCEPT !.cmd = c, !.hash = HashOf(c)] : c \in Cmds}
  \cup {[e EXCEPT !.sigs[i].sig.by = NoKey] : i \in {j \in DOMAIN e.sigs : FilledAt(e, j)}}

Edit ==
  /\ edits < MaxEdits /\ Cardinality(mail) < MaxMail
  /\ \E e \in mail : \E changed \in EditsOf(e) \ {e} : mail' = mail \cup {changed}
  /\ edits' = edits + 1
  /\ UNCHANGED <<copy, shown>>

(* The chain wants a valid signature of every signer, and none besides. *)
ChainAccepts(tx) ==
  /\ tx.hash = HashOf(tx.cmd)
  /\ DOMAIN tx.sigs = DOMAIN Signers(tx)
  /\ \A i \in DOMAIN Signers(tx) :
       tx.sigs[i].sig = [by |-> Signers(tx)[i], over |-> tx.hash]

Next ==
  \/ \E p \in Parties :
       \/ Create(p) \/ SignPartial(p) \/ QuickSign(p) \/ QuickSignWithEcko(p)
       \/ SignWithEcko(p) \/ Export(p) \/ Import(p)
  \/ Edit

Spec == Init /\ [][Next]_vars

-----------------------------------------------------------------------------
(* Properties *)

(* A party signs transaction.hash but reads transaction.cmd: whatever      *)
(* signatures exist anywhere, each covers a command that the holder of its *)
(* key had before its eyes (partialSig.ts, the tamper guard of             *)
(* deserializePartialTransaction).                                         *)
Copies == {copy[p] : p \in {q \in Parties : Has(q)}}

SignedWasShown ==
  \A tx \in mail \cup Copies : \A i \in DOMAIN tx.sigs :
    LET sig == tx.sigs[i].sig
    IN  Filled(tx.sigs[i]) /\ sig.by # NoKey => <<sig.by, sig.over.of>> \in shown

(* The local checks are enough: a copy with a slot per signer that         *)
(* isFullySigned and verifyExistingSignatures let through is one the chain *)
(* takes, whatever was passed on, edited and signed again.  A surplus slot *)
(* neither of them sees.                                                   *)
VerifiedIsAccepted ==
  \A tx \in Copies :
    IsFullySigned(tx) /\ Verify(tx) /\ Len(tx.sigs) = Len(Signers(tx)) => ChainAccepts(tx)

(* Signing adds: a signature in a slot that names its signer is still      *)
(* there after the next party has signed on top of it, even if the command *)
(* now lists the signers in another order (addSignatures).                 *)
Slots(tx) == {tx.sigs[i] : i \in DOMAIN tx.sigs}

NamedSlotLost(p) ==
  /\ Has(p)
  /\ \E slot \in Slots(copy[p]) :
       Filled(slot) /\ slot.pub \in SignerKeys(copy[p]) /\ slot \notin Slots(copy'[p])

NamedSlotsStay ==
  [][\A p \in Parties :
       NamedSlotLost(p) => ~(SignPartial(p) \/ QuickSign(p) \/ QuickSignWithEcko(p))]_vars

(* partialSig.ts:139-140 says of signPartial that already-filled slots     *)
(* from prior signers stay intact: a signature that is there before is     *)
(* there after.                                                            *)
Signatures(tx) == {slot.sig : slot \in {s \in Slots(tx) : Filled(s)}}

FilledSlotsStay ==
  [][\A p \in Parties :
       SignPartial(p) => Signatures(copy[p]) \subseteq Signatures(copy'[p])]_vars
=============================================================================
