-------------------------- MODULE PartialSigProofs --------------------------
(***************************************************************************)
(* The properties of PartialSig hold for any parties, keys, commands and   *)
(* bounds.  The inductive invariant adds that a party only ever works on a *)
(* transaction whose hash is that of its command, which is what the check  *)
(* in deserializePartialTransaction is for, and that no two slots name the *)
(* same signer, so that addSignatures finds the one there is.              *)
(***************************************************************************)
EXTENDS PartialSig, TLAPS

(* A party's copy is hashed right. *)
HashesMatch == \A tx \in Copies : tx.hash = HashOf(tx.cmd)

(* Slots that name a signer name different ones. *)
DistinctNames(tx) ==
  \A i, j \in DOMAIN tx.sigs :
    tx.sigs[i].pub = tx.sigs[j].pub /\ tx.sigs[i].pub # NoKey => i = j

NamesAreDistinct == \A tx \in mail \cup Copies : DistinctNames(tx)

(* Every signature of a transaction covers a command shown to its signer. *)
WasShown(tx, pairs) ==
  \A i \in DOMAIN tx.sigs :
    Filled(tx.sigs[i]) /\ tx.sigs[i].sig.by # NoKey =>
      <<tx.sigs[i].sig.by, tx.sigs[i].sig.over.of>> \in pairs

IInv == TypeOK /\ HashesMatch /\ NamesAreDistinct /\ SignedWasShown

-----------------------------------------------------------------------------

(* The invariants, read for one transaction. *)
LEMMA IInvOfTx ==
  ASSUME IInv
  PROVE  /\ \A tx \in mail \cup Copies :
              tx \in Transaction /\ DistinctNames(tx) /\ WasShown(tx, shown)
         /\ \A p \in Parties : Has(p) => copy[p] \in Copies
         /\ \A tx \in Copies : tx.hash = HashOf(tx.cmd)
BY AbsentAssumption DEF IInv, TypeOK, HashesMatch, NamesAreDistinct, SignedWasShown,
                        WasShown, Copies, Has

(* What addSignatures finds under a key that one slot names at most. *)
LEMMA NamedSlotIs ==
  ASSUME NEW tx \in Transaction, DistinctNames(tx), NEW k \in Keys
  PROVE  /\ \A i \in DOMAIN tx.sigs : tx.sigs[i].pub = k => NamedSlot(tx.sigs, k) = tx.sigs[i]
         /\ (\A i \in DOMAIN tx.sigs : tx.sigs[i].pub # k) => NamedSlot(tx.sigs, k) = EmptySlot
<1> DEFINE named == {i \in DOMAIN tx.sigs : tx.sigs[i].pub = k}
<1>0. k # NoKey
  BY PartialAssumption
<1>1. ASSUME NEW i \in DOMAIN tx.sigs, tx.sigs[i].pub = k
      PROVE  NamedSlot(tx.sigs, k) = tx.sigs[i]
  <2>1. named = {i}
    BY <1>0, <1>1 DEF DistinctNames
  <2>2. tx.sigs \in Seq(Slot)
    BY DEF Transaction
  <2>3. i \in Nat
    BY <2>2
  <2>4. (CHOOSE m \in named : \A j \in named : m <= j) = i
    BY <2>1, <2>3
  <2>5. QED
    BY <2>1, <2>4 DEF NamedSlot
<1>2. ASSUME \A i \in DOMAIN tx.sigs : tx.sigs[i].pub # k
      PROVE  NamedSlot(tx.sigs, k) = EmptySlot
  BY <1>2 DEF NamedSlot
<1>3. QED
  BY <1>1, <1>2

(* A function on the positions of a sequence is a sequence. *)
LEMMA SeqOnPositions ==
  ASSUME NEW S, NEW T, NEW s \in Seq(S), NEW f \in [DOMAIN s -> T]
  PROVE  f \in Seq(T)
OBVIOUS

(* A command's signers. *)
LEMMA SignersType ==
  ASSUME NEW tx \in Transaction
  PROVE  /\ Signers(tx) \in Seq(Keys)
         /\ \A i \in DOMAIN Signers(tx) : Signers(tx)[i] \in Keys
         /\ \A i, j \in DOMAIN Signers(tx) : Signers(tx)[i] = Signers(tx)[j] => i = j
         /\ SignerKeys(tx) \subseteq Keys
BY PartialAssumption DEF Signers, SignerKeys, Transaction

(* What addSignatures makes of a transaction: the named and filled slots   *)
(* of its signers, and the added signatures under the keys they came with. *)
LEMMA AddSignaturesIs ==
  ASSUME NEW tx \in Transaction, DistinctNames(tx),
         NEW added, \A k \in DOMAIN added : added[k] \in Signature \cup {NoSig}
  PROVE  LET new == AddSignatures(tx, added)
         IN  /\ new \in Transaction
             /\ new.cmd = tx.cmd /\ new.hash = tx.hash
             /\ DOMAIN new.sigs = DOMAIN Signers(tx)
             /\ DistinctNames(new)
             /\ \A i \in DOMAIN new.sigs :
                  \/ \E j \in DOMAIN tx.sigs : new.sigs[i] = tx.sigs[j]
                  \/ /\ Signers(tx)[i] \in DOMAIN added
                     /\ new.sigs[i].sig = added[Signers(tx)[i]]
                  \/ new.sigs[i].sig = NoSig
             /\ \A slot \in Slots(tx) :
                  Filled(slot) /\ slot.pub \in SignerKeys(tx) => slot \in Slots(new)
<1> DEFINE new == AddSignatures(tx, added)
           SlotAt(i) == LET k == Signers(tx)[i]
                            existed == NamedSlot(tx.sigs, k)
                        IN  IF Filled(existed) THEN existed
                            ELSE [pub |-> k, sig |-> IF k \in DOMAIN added THEN added[k] ELSE NoSig]
<1> USE SignersType
<1>1. /\ new = [tx EXCEPT !.sigs = [i \in DOMAIN Signers(tx) |-> SlotAt(i)]]
      /\ tx.sigs \in Seq(Slot) /\ tx.cmd \in Cmds /\ tx.hash \in Hashes
  BY DEF AddSignatures, Transaction
<1>2. /\ new.sigs = [i \in DOMAIN Signers(tx) |-> SlotAt(i)]
      /\ new.cmd = tx.cmd /\ new.hash = tx.hash
      /\ new = [cmd |-> tx.cmd, hash |-> tx.hash, sigs |-> new.sigs]
  BY <1>1 DEF Transaction
<1>3. ASSUME NEW i \in DOMAIN Signers(tx)
      PROVE  /\ SlotAt(i).pub = Signers(tx)[i]
             /\ SlotAt(i) \in Slot
             /\ \/ \E j \in DOMAIN tx.sigs : SlotAt(i) = tx.sigs[j]
                \/ /\ Signers(tx)[i] \in DOMAIN added
                   /\ SlotAt(i).sig = added[Signers(tx)[i]]
                \/ SlotAt(i).sig = NoSig
  <2> DEFINE k == Signers(tx)[i]
             existed == NamedSlot(tx.sigs, k)
  <2>1. k \in Keys
    OBVIOUS
  <2>2. CASE Filled(existed)
    <3>1. PICK j \in DOMAIN tx.sigs : tx.sigs[j].pub = k
      BY <2>1, <2>2, NamedSlotIs DEF EmptySlot, Filled
    <3>2. existed = tx.sigs[j]
      BY <3>1, <2>1, NamedSlotIs
    <3>3. SlotAt(i) = existed
      BY <2>2
    <3>4. tx.sigs[j] \in Slot
      BY <1>1
    <3>5. QED
      BY <3>1, <3>2, <3>3, <3>4
  <2>3. CASE ~Filled(existed)
    <3>1. SlotAt(i) = [pub |-> k, sig |-> IF k \in DOMAIN added THEN added[k] ELSE NoSig]
      BY <2>3
    <3>2. QED
      BY <3>1, <2>1 DEF Slot
  <2>4. QED
    BY <2>2, <2>3
<1> HIDE DEF SlotAt, new
<1>4. new.sigs \in Seq(Slot)
  <2>1. new.sigs \in [DOMAIN Signers(tx) -> Slot]
    BY <1>2, <1>3
  <2>2. QED
    BY <2>1, SeqOnPositions
<1>5. new \in Transaction
  BY <1>1, <1>2, <1>4 DEF Transaction
<1>6. DistinctNames(new)
  BY <1>2, <1>3 DEF DistinctNames
<1>7. ASSUME NEW slot \in Slots(tx), Filled(slot), slot.pub \in SignerKeys(tx)
      PROVE  slot \in Slots(new)
  <2>1. PICK j \in DOMAIN tx.sigs : slot = tx.sigs[j]
    BY <1>7 DEF Slots
  <2>2. PICK i \in DOMAIN Signers(tx) : slot.pub = Signers(tx)[i]
    BY <1>7 DEF SignerKeys
  <2>3. NamedSlot(tx.sigs, Signers(tx)[i]) = slot
    BY <2>1, <2>2, NamedSlotIs
  <2>4. SlotAt(i) = slot
    BY <2>3, <1>7 DEF SlotAt
  <2>5. QED
    BY <2>4, <1>2 DEF Slots
<1>8. QED
  BY <1>2, <1>3, <1>5, <1>6, <1>7 DEF new

-----------------------------------------------------------------------------
(* The steps.                                                              *)

(* A party replaces its copy by a transaction that is hashed right, whose  *)
(* signatures have all been shown.                                         *)
LEMMA StoreInv ==
  ASSUME IInv, NEW p \in Parties, NEW new \in Transaction,
         new.hash = HashOf(new.cmd), DistinctNames(new), WasShown(new, shown'),
         shown \subseteq shown', shown' \subseteq Keys \X Cmds,
         copy' = [copy EXCEPT ![p] = new], UNCHANGED <<mail, edits>>
  PROVE  IInv'
<1>1. copy' \in [Parties -> Transaction \cup {NoTx}] /\ copy'[p] = new
  BY DEF IInv, TypeOK
<1>2. TypeOK'
  BY <1>1 DEF IInv, TypeOK
<1>3. \A tx \in Copies' : tx \in Copies \/ tx = new
  BY <1>1 DEF Copies, Has, IInv, TypeOK
<1>4. \A tx \in (mail \cup Copies)' :
        tx.sigs \in Seq(Slot) /\ DistinctNames(tx) /\ WasShown(tx, shown')
  <2> SUFFICES ASSUME NEW tx \in (mail \cup Copies)'
               PROVE  tx.sigs \in Seq(Slot) /\ DistinctNames(tx) /\ WasShown(tx, shown')
    OBVIOUS
  <2>1. CASE tx = new
    BY <2>1 DEF Transaction
  <2>2. CASE tx \in mail \cup Copies
    <3>1. tx \in Transaction /\ DistinctNames(tx) /\ WasShown(tx, shown)
      BY <2>2, IInvOfTx
    <3>2. QED
      BY <3>1 DEF WasShown, Transaction
  <2>3. QED
    BY <1>3, <2>1, <2>2
<1>5. HashesMatch'
  BY <1>3, IInvOfTx DEF HashesMatch
<1>6. NamesAreDistinct'
  BY <1>4 DEF NamesAreDistinct, DistinctNames
<1>7. SignedWasShown'
  BY <1>4 DEF SignedWasShown, WasShown
<1>8. QED
  BY <1>2, <1>5, <1>6, <1>7 DEF IInv

(* An envelope is posted whose signatures have all been shown. *)
LEMMA PostInv ==
  ASSUME IInv, NEW new \in Transaction, DistinctNames(new), WasShown(new, shown),
         mail' = mail \cup {new}, edits' \in 0..MaxEdits, UNCHANGED <<copy, shown>>
  PROVE  IInv'
<1>1. TypeOK'
  BY DEF IInv, TypeOK
<1>2. Copies' = Copies
  BY DEF Copies, Has
<1>3. \A tx \in (mail \cup Copies)' : DistinctNames(tx) /\ WasShown(tx, shown')
  BY <1>2, IInvOfTx
<1>4. HashesMatch'
  BY <1>2, IInvOfTx DEF HashesMatch
<1>5. NamesAreDistinct'
  BY <1>3 DEF NamesAreDistinct, DistinctNames
<1>6. SignedWasShown'
  BY <1>3 DEF SignedWasShown, WasShown
<1>7. QED
  BY <1>1, <1>4, <1>5, <1>6 DEF IInv

(* A new transaction has nothing in its slots. *)
LEMMA NewTransactionIs ==
  ASSUME NEW c \in Cmds
  PROVE  LET new == NewTransaction(c)
         IN  /\ new \in Transaction /\ new.cmd = c /\ new.hash = HashOf(c)
             /\ DOMAIN new.sigs = DOMAIN SignersOf[c]
             /\ \A i \in DOMAIN new.sigs : new.sigs[i] = EmptySlot
<1>1. SignersOf[c] \in Seq(Keys) /\ HashOf(c) \in Hashes /\ EmptySlot \in Slot
  BY PartialAssumption DEF Hashes, EmptySlot, Slot
<1>2. [i \in DOMAIN SignersOf[c] |-> EmptySlot] \in [DOMAIN SignersOf[c] -> Slot]
  BY <1>1
<1>3. [i \in DOMAIN SignersOf[c] |-> EmptySlot] \in Seq(Slot)
  BY <1>1, <1>2, SeqOnPositions
<1>4. QED
  BY <1>1, <1>3 DEF NewTransaction, Transaction

(* The signatures a signing step adds: the party's own over its copy, or   *)
(* taken from the copy.                                                    *)
OwnOrTaken(tx, ks, added) ==
  /\ DOMAIN added \subseteq Keys
  /\ \A k \in DOMAIN added :
       \/ /\ k \in ks /\ added[k] \in Signature
          /\ added[k].by \in {k, NoKey} /\ added[k].over = HashOf(tx.cmd)
       \/ \E j \in DOMAIN tx.sigs :
            Filled(tx.sigs[j]) /\ added[k] = tx.sigs[j].sig

LEMMA AddedAreSignatures ==
  ASSUME NEW tx \in Transaction, NEW ks, NEW added, OwnOrTaken(tx, ks, added)
  PROVE  \A k \in DOMAIN added : added[k] \in Signature \cup {NoSig}
<1>1. \A j \in DOMAIN tx.sigs : tx.sigs[j] \in Slot
  BY DEF Transaction
<1>2. \A j \in DOMAIN tx.sigs : tx.sigs[j].sig \in Signature \cup {NoSig}
  BY <1>1 DEF Slot
<1>3. QED
  BY <1>2 DEF OwnOrTaken

(* Adding such signatures keeps the invariant. *)
LEMMA AddingSomeInv ==
  ASSUME IInv, NEW p \in Parties, Has(p), NEW ks \in SUBSET SignerKeys(copy[p]),
         NEW added, OwnOrTaken(copy[p], ks, added),
         copy' = [copy EXCEPT ![p] = AddSignatures(copy[p], added)],
         shown' = shown \cup {<<k, copy[p].cmd>> : k \in ks},
         UNCHANGED <<mail, edits>>
  PROVE  IInv'
<1> DEFINE tx == copy[p]
           new == AddSignatures(tx, added)
<1>1. /\ tx \in Transaction /\ DistinctNames(tx) /\ WasShown(tx, shown)
      /\ tx.hash = HashOf(tx.cmd)
  BY IInvOfTx
<1>2. tx.cmd \in Cmds /\ SignerKeys(tx) \subseteq Keys /\ tx.sigs \in Seq(Slot)
  BY <1>1, SignersType DEF Transaction
<1>3. \A k \in DOMAIN added : added[k] \in Signature \cup {NoSig}
  BY <1>1, AddedAreSignatures
<1>4. /\ new \in Transaction
      /\ new.cmd = tx.cmd /\ new.hash = tx.hash
      /\ DistinctNames(new)
      /\ \A i \in DOMAIN new.sigs :
           \/ \E j \in DOMAIN tx.sigs : new.sigs[i] = tx.sigs[j]
           \/ /\ Signers(tx)[i] \in DOMAIN added
              /\ new.sigs[i].sig = added[Signers(tx)[i]]
           \/ new.sigs[i].sig = NoSig
  <2> HIDE DEF tx
  <2>1. QED
    BY <1>1, <1>3, AddSignaturesIs
<1>5. \A j \in DOMAIN tx.sigs :
        Filled(tx.sigs[j]) /\ tx.sigs[j].sig.by # NoKey =>
          <<tx.sigs[j].sig.by, tx.sigs[j].sig.over.of>> \in shown'
  BY <1>1 DEF WasShown
<1>6. \A k \in DOMAIN added : added[k].by # NoKey =>
        <<added[k].by, added[k].over.of>> \in shown'
  <2> SUFFICES ASSUME NEW k \in DOMAIN added, added[k].by # NoKey
               PROVE  <<added[k].by, added[k].over.of>> \in shown'
    OBVIOUS
  <2>1. CASE /\ k \in ks /\ added[k] \in Signature
             /\ added[k].by \in {k, NoKey} /\ added[k].over = HashOf(tx.cmd)
    BY <2>1 DEF HashOf
  <2>2. CASE \E j \in DOMAIN tx.sigs : Filled(tx.sigs[j]) /\ added[k] = tx.sigs[j].sig
    BY <2>2, <1>5
  <2>3. QED
    BY <2>1, <2>2 DEF OwnOrTaken
<1>7. WasShown(new, shown')
  <2> HIDE DEF new, tx
  <2>1. SUFFICES ASSUME NEW i \in DOMAIN new.sigs,
                        Filled(new.sigs[i]), new.sigs[i].sig.by # NoKey
                 PROVE  <<new.sigs[i].sig.by, new.sigs[i].sig.over.of>> \in shown'
    BY DEF WasShown
  <2>2. QED
    BY <1>4, <1>5, <1>6, <2>1 DEF Filled
<1>8. shown \subseteq shown' /\ shown' \subseteq Keys \X Cmds
  BY <1>2 DEF IInv, TypeOK
<1>9. new.hash = HashOf(new.cmd) /\ copy' = [copy EXCEPT ![p] = new]
  BY <1>1, <1>4
<1> HIDE DEF new, tx
<1>10. QED
  BY <1>4, <1>7, <1>8, <1>9, StoreInv

(* What a signing step does: it adds such signatures to the party's copy. *)
Adding(p) ==
  /\ Has(p) /\ UNCHANGED <<mail, edits>>
  /\ \E ks \in SUBSET SignerKeys(copy[p]) : \E added :
       /\ OwnOrTaken(copy[p], ks, added)
       /\ copy' = [copy EXCEPT ![p] = AddSignatures(copy[p], added)]
       /\ shown' = shown \cup {<<k, copy[p].cmd>> : k \in ks}

LEMMA AddingInv ==
  ASSUME IInv, NEW p \in Parties, Adding(p)
  PROVE  IInv'
BY AddingSomeInv DEF Adding

(* A named and filled slot stays where signatures are added. *)
LEMMA AddingKeeps ==
  ASSUME IInv, NEW p \in Parties, Adding(p)
  PROVE  ~NamedSlotLost(p)
<1>1. PICK ks \in SUBSET SignerKeys(copy[p]) : \E added :
         /\ OwnOrTaken(copy[p], ks, added)
         /\ copy' = [copy EXCEPT ![p] = AddSignatures(copy[p], added)]
  BY DEF Adding
<1>2. PICK added :
         /\ OwnOrTaken(copy[p], ks, added)
         /\ copy' = [copy EXCEPT ![p] = AddSignatures(copy[p], added)]
  BY <1>1
<1>3. copy[p] \in Transaction /\ DistinctNames(copy[p])
  BY IInvOfTx DEF Adding
<1>4. \A k \in DOMAIN added : added[k] \in Signature \cup {NoSig}
  BY <1>2, <1>3, AddedAreSignatures
<1>5. copy'[p] = AddSignatures(copy[p], added)
  BY <1>2 DEF IInv, TypeOK
<1>6. QED
  BY <1>3, <1>4, <1>5, AddSignaturesIs DEF NamedSlotLost

(* signPartial: the signatures are made over the hash of the copy. *)
LEMMA SignPartialAdds ==
  ASSUME IInv, NEW p \in Parties, SignPartial(p)
  PROVE  Adding(p)
<1>1. PICK ks \in (SUBSET (Holds[p] \cap SignerKeys(copy[p]))) \ {{}} :
        \E wrong \in SUBSET (ks \cap Raw) :
          /\ copy' = [copy EXCEPT ![p] =
               AddSignatures(copy[p], [k \in ks |-> SignHash(copy[p], k, wrong)])]
          /\ shown' = shown \cup {<<k, copy[p].cmd>> : k \in ks}
  BY DEF SignPartial
<1>2. PICK wrong \in SUBSET (ks \cap Raw) :
        /\ copy' = [copy EXCEPT ![p] =
             AddSignatures(copy[p], [k \in ks |-> SignHash(copy[p], k, wrong)])]
        /\ shown' = shown \cup {<<k, copy[p].cmd>> : k \in ks}
  BY <1>1
<1> DEFINE added == [k \in ks |-> SignHash(copy[p], k, wrong)]
<1>3. Has(p) /\ UNCHANGED <<mail, edits>>
  BY DEF SignPartial
<1>4. copy[p] \in Transaction /\ copy[p].hash = HashOf(copy[p].cmd)
  BY <1>3, IInvOfTx
<1>5. DOMAIN added = ks /\ ks \subseteq Keys /\ ks \in SUBSET SignerKeys(copy[p])
  BY <1>4, SignersType
<1>6. HashOf(copy[p].cmd) \in Hashes
  BY <1>4 DEF Transaction, Hashes
<1>7. \A k \in DOMAIN added :
        /\ k \in ks /\ added[k] \in Signature
        /\ added[k].by \in {k, NoKey} /\ added[k].over = HashOf(copy[p].cmd)
  BY <1>4, <1>5, <1>6 DEF SignHash, Signature
<1>8. copy' = [copy EXCEPT ![p] = AddSignatures(copy[p], added)]
  BY <1>2
<1>9. shown' = shown \cup {<<k, copy[p].cmd>> : k \in ks}
  BY <1>2
<1>10. OwnOrTaken(copy[p], ks, added)
  BY <1>5, <1>7 DEF OwnOrTaken
<1> HIDE DEF added
<1>11. QED
  BY <1>3, <1>5, <1>8, <1>9, <1>10 DEF Adding

(* The quicksign bridges: the answer holds what the copy had, at the same  *)
(* place, and the signatures of the wallet's own keys.                     *)
LEMMA QuickSignAdds ==
  ASSUME IInv, NEW p \in Parties, QuickSign(p) \/ QuickSignWithEcko(p)
  PROVE  Adding(p)
<1> DEFINE tx == copy[p]
           request == [i \in DOMAIN Signers(tx) |->
                         IF FilledAt(tx, i) THEN tx.sigs[i].sig ELSE NoSig]
           Answer(own) == [i \in DOMAIN Signers(tx) |->
                         IF request[i] = NoSig /\ Signers(tx)[i] \in own
                         THEN [by |-> Signers(tx)[i], over |-> HashOf(tx.cmd)]
                         ELSE request[i]]
           Full(own) == {i \in DOMAIN Answer(own) : Answer(own)[i] # NoSig}
           Added(own) == [k \in {Signers(tx)[i] : i \in Full(own)} |->
                         Answer(own)[CHOOSE i \in Full(own) : Signers(tx)[i] = k]]
<1>1. Has(p) /\ UNCHANGED <<mail, edits>>
  BY DEF QuickSign, QuickSignWithEcko, QuickSignBy
<1>2. PICK own \in SUBSET (Holds[p] \cap SignerKeys(tx)) :
        /\ copy' = [copy EXCEPT ![p] = AddSignatures(tx, Added(own))]
        /\ shown' = shown \cup {<<k, tx.cmd>> : k \in own}
  BY DEF QuickSign, QuickSignWithEcko, QuickSignBy, QuickSigned, Answered, Requested
<1>3. tx \in Transaction
  BY <1>1, IInvOfTx
<1>4. own \in SUBSET SignerKeys(tx)
  OBVIOUS
<1> HIDE DEF tx
<1>5. ASSUME NEW k \in DOMAIN Added(own)
      PROVE  /\ k \in Keys
             /\ \/ /\ k \in own /\ Added(own)[k] \in Signature
                   /\ Added(own)[k].by \in {k, NoKey}
                   /\ Added(own)[k].over = HashOf(tx.cmd)
                \/ \E j \in DOMAIN tx.sigs :
                     Filled(tx.sigs[j]) /\ Added(own)[k] = tx.sigs[j].sig
  <2>1. PICK i \in Full(own) : Signers(tx)[i] = k
    OBVIOUS
  <2>2. (CHOOSE n \in Full(own) : Signers(tx)[n] = k) = i
    BY <1>3, <2>1, SignersType
  <2>3. Added(own)[k] = Answer(own)[i]
    BY <2>1, <2>2
  <2>4. i \in DOMAIN Signers(tx) /\ Answer(own)[i] # NoSig /\ k \in Keys
    BY <1>3, <2>1, SignersType
  <2>5. CASE request[i] = NoSig /\ k \in own
    <3>1. Answer(own)[i] = [by |-> k, over |-> HashOf(tx.cmd)]
      BY <2>1, <2>4, <2>5
    <3>2. HashOf(tx.cmd) \in Hashes
      BY <1>3 DEF Transaction, Hashes
    <3>3. Added(own)[k] = [by |-> k, over |-> HashOf(tx.cmd)]
      BY <2>3, <3>1
    <3> HIDE DEF Added
    <3>4. QED
      BY <2>4, <2>5, <3>2, <3>3 DEF Signature
  <2>6. CASE ~(request[i] = NoSig /\ k \in own)
    <3>1. Answer(own)[i] = request[i] /\ request[i] # NoSig
      BY <2>1, <2>4, <2>6
    <3>2. FilledAt(tx, i) /\ request[i] = tx.sigs[i].sig
      BY <2>4, <3>1
    <3>3. Added(own)[k] = tx.sigs[i].sig
      BY <2>3, <3>1, <3>2
    <3>4. i \in DOMAIN tx.sigs /\ Filled(tx.sigs[i])
      BY <3>2 DEF FilledAt
    <3> HIDE DEF Added, request
    <3>5. QED
      BY <2>4, <3>3, <3>4
  <2>7. QED
    BY <2>5, <2>6
<1>6. OwnOrTaken(tx, own, Added(own))
  BY <1>5 DEF OwnOrTaken
<1> HIDE DEF Added
<1>7. QED
  BY <1>1, <1>2, <1>4, <1>6 DEF tx, Adding

(* The Ecko wallet's own command, signed by its keys. *)
LEMMA EckoInv ==
  ASSUME IInv, NEW p \in Parties, SignWithEcko(p)
  PROVE  IInv'
<1> DEFINE Mine(c) == Holds[p] \cap {SignersOf[c][i] : i \in DOMAIN SignersOf[c]}
           SlotOf(c) == [i \in DOMAIN SignersOf[c] |->
                           IF SignersOf[c][i] \in Mine(c)
                           THEN [pub |-> NoKey,
                                 sig |-> [by |-> SignersOf[c][i], over |-> HashOf(c)]]
                           ELSE EmptySlot]
           New(c) == [NewTransaction(c) EXCEPT !.sigs = SlotOf(c)]
<1>1. UNCHANGED <<mail, edits>>
  BY DEF SignWithEcko
<1>2. PICK c \in Cmds : /\ copy' = [copy EXCEPT ![p] = New(c)]
                        /\ shown' = shown \cup {<<k, c>> : k \in Mine(c)}
  BY DEF SignWithEcko
<1>3. SignersOf[c] \in Seq(Keys) /\ HashOf(c) \in Hashes
      /\ \A i \in DOMAIN SignersOf[c] : SignersOf[c][i] \in Keys
  BY PartialAssumption DEF Hashes
<1>4. \A i \in DOMAIN SignersOf[c] :
        /\ SlotOf(c)[i] \in Slot
        /\ SlotOf(c)[i].pub = NoKey
        /\ Filled(SlotOf(c)[i]) =>
             /\ SignersOf[c][i] \in Mine(c)
             /\ SlotOf(c)[i].sig = [by |-> SignersOf[c][i], over |-> HashOf(c)]
  BY <1>3 DEF Slot, Signature, EmptySlot, Filled
<1>5. SlotOf(c) \in Seq(Slot) /\ DOMAIN SlotOf(c) = DOMAIN SignersOf[c]
  <2>1. SlotOf(c) \in [DOMAIN SignersOf[c] -> Slot]
    BY <1>4
  <2>2. QED
    BY <1>3, <2>1, SeqOnPositions
<1>6. New(c) = [cmd |-> c, hash |-> HashOf(c), sigs |-> SlotOf(c)]
  BY DEF NewTransaction
<1>7. Mine(c) \subseteq Keys
  BY <1>3
<1> HIDE DEF Mine, SlotOf
<1>8. New(c) \in Transaction /\ New(c).hash = HashOf(New(c).cmd)
  BY <1>3, <1>5, <1>6 DEF Transaction
<1>9. DistinctNames(New(c))
  BY <1>4, <1>5, <1>6 DEF DistinctNames
<1>10. WasShown(New(c), shown')
  <2>1. \A i \in DOMAIN SignersOf[c] : Filled(SlotOf(c)[i]) =>
          <<SlotOf(c)[i].sig.by, SlotOf(c)[i].sig.over.of>> \in shown'
    <3> SUFFICES ASSUME NEW i \in DOMAIN SignersOf[c], Filled(SlotOf(c)[i])
                 PROVE  <<SlotOf(c)[i].sig.by, SlotOf(c)[i].sig.over.of>> \in shown'
      OBVIOUS
    <3>1. /\ SlotOf(c)[i].sig.by = SignersOf[c][i]
          /\ SlotOf(c)[i].sig.over.of = c
          /\ SignersOf[c][i] \in Mine(c)
      <4> HIDE DEF New
      <4>1. /\ SlotOf(c)[i].sig = [by |-> SignersOf[c][i], over |-> HashOf(c)]
            /\ SignersOf[c][i] \in Mine(c)
        BY <1>4
      <4>2. QED
        BY <4>1 DEF HashOf
    <3>2. QED
      BY <1>2, <3>1
  <2>2. New(c).sigs = SlotOf(c)
    BY <1>6
  <2> HIDE DEF New
  <2>3. QED
    BY <2>1, <2>2, <1>5 DEF WasShown
<1>11. shown \subseteq shown' /\ shown' \subseteq Keys \X Cmds
  BY <1>2, <1>7 DEF IInv, TypeOK
<1> HIDE DEF New
<1>12. QED
  BY <1>1, <1>2, <1>8, <1>9, <1>10, <1>11, StoreInv

(* createTransaction: nothing is signed yet. *)
LEMMA CreateInv ==
  ASSUME IInv, NEW p \in Parties, Create(p)
  PROVE  IInv'
<1> DEFINE new == NewTransaction(Draft)
<1>1. /\ new \in Transaction /\ new.hash = HashOf(new.cmd)
      /\ \A i \in DOMAIN new.sigs : new.sigs[i] = EmptySlot
  BY PartialAssumption, NewTransactionIs
<1>2. DistinctNames(new) /\ WasShown(new, shown')
  BY <1>1 DEF DistinctNames, WasShown, EmptySlot, Filled
<1>3. shown' = shown /\ shown \subseteq Keys \X Cmds
  BY DEF Create, IInv, TypeOK
<1>4. copy' = [copy EXCEPT ![p] = new] /\ UNCHANGED <<mail, edits>>
  BY DEF Create
<1> HIDE DEF new
<1>5. QED
  BY <1>1, <1>2, <1>3, <1>4, StoreInv

(* An export posts the copy as it is. *)
LEMMA ExportInv ==
  ASSUME IInv, NEW p \in Parties, Export(p)
  PROVE  IInv'
<1>1. copy[p] \in Transaction /\ DistinctNames(copy[p]) /\ WasShown(copy[p], shown)
  BY IInvOfTx DEF Export
<1>2. /\ mail' = mail \cup {copy[p]} /\ UNCHANGED <<copy, shown>>
      /\ edits' \in 0..MaxEdits
  BY DEF Export, IInv, TypeOK
<1>3. QED
  BY <1>1, <1>2, PostInv

(* An import stores an envelope whose hash was checked. *)
LEMMA ImportInv ==
  ASSUME IInv, NEW p \in Parties, Import(p)
  PROVE  IInv'
<1>1. PICK envelope \in mail : /\ envelope.hash = HashOf(envelope.cmd)
                               /\ copy' = [copy EXCEPT ![p] = envelope]
  BY DEF Import
<1>2. UNCHANGED <<mail, edits, shown>>
  BY DEF Import
<1>3. /\ envelope \in Transaction /\ DistinctNames(envelope)
      /\ WasShown(envelope, shown')
  BY <1>1, <1>2, IInvOfTx
<1>4. shown' = shown /\ shown \subseteq Keys \X Cmds
  BY <1>2 DEF IInv, TypeOK
<1>5. QED
  BY <1>1, <1>2, <1>3, <1>4, StoreInv

(* An edit leaves the slots alone or takes a signature's signer from it. *)
LEMMA EditsOfIs ==
  ASSUME NEW e \in Transaction, DistinctNames(e), WasShown(e, shown), NEW new \in EditsOf(e)
  PROVE  new \in Transaction /\ DistinctNames(new) /\ WasShown(new, shown)
<1>0. /\ e.cmd \in Cmds /\ e.hash \in Hashes /\ e.sigs \in Seq(Slot)
      /\ e = [cmd |-> e.cmd, hash |-> e.hash, sigs |-> e.sigs]
  BY DEF Transaction
<1>1. CASE new.sigs = e.sigs /\ new \in Transaction
  BY <1>1 DEF DistinctNames, WasShown
<1>2. ASSUME NEW c \in Cmds, new = [e EXCEPT !.cmd = c]
      PROVE  new.sigs = e.sigs /\ new \in Transaction
  BY <1>0, <1>2 DEF Transaction
<1>3. ASSUME NEW c \in Cmds, new = [e EXCEPT !.cmd = c, !.hash = HashOf(c)]
      PROVE  new.sigs = e.sigs /\ new \in Transaction
  BY <1>0, <1>3 DEF Transaction, Hashes
<1>4. ASSUME NEW i \in DOMAIN e.sigs, FilledAt(e, i),
             new = [e EXCEPT !.sigs[i].sig.by = NoKey]
      PROVE  new \in Transaction /\ DistinctNames(new) /\ WasShown(new, shown)
  <2> DEFINE sigs == [e.sigs EXCEPT ![i].sig.by = NoKey]
  <2>1. new = [cmd |-> e.cmd, hash |-> e.hash, sigs |-> sigs]
    BY <1>0, <1>4
  <2>2. e.sigs[i] \in Slot /\ e.sigs[i].sig \in Signature
    <3>1. e.sigs[i] \in Slot
      BY <1>0
    <3>2. e.sigs[i].sig # NoSig
      BY <1>4 DEF FilledAt, Filled
    <3>3. QED
      BY <3>1, <3>2 DEF Slot
  <2>3. /\ DOMAIN sigs = DOMAIN e.sigs
        /\ \A j \in DOMAIN e.sigs : j # i => sigs[j] = e.sigs[j]
        /\ sigs[i] = [e.sigs[i] EXCEPT !.sig.by = NoKey]
    BY <1>0
  <2>4. /\ sigs[i].pub = e.sigs[i].pub /\ sigs[i].sig.by = NoKey /\ sigs[i] \in Slot
    BY <2>2, <2>3 DEF Slot, Signature
  <2> HIDE DEF sigs
  <2>5. sigs \in [DOMAIN e.sigs -> Slot]
    <3>1. \A j \in DOMAIN e.sigs : sigs[j] \in Slot
      BY <1>0, <2>3, <2>4
    <3>2. sigs = [j \in DOMAIN e.sigs |-> sigs[j]]
      BY <2>3 DEF sigs
    <3>3. QED
      BY <3>1, <3>2
  <2>6. sigs \in Seq(Slot)
    BY <1>0, <2>5, SeqOnPositions
  <2>7. new \in Transaction
    BY <1>0, <2>1, <2>6 DEF Transaction
  <2>8. DistinctNames(new)
    <3>1. \A j \in DOMAIN e.sigs : sigs[j].pub = e.sigs[j].pub
      BY <2>3, <2>4
    <3>2. new.sigs = sigs
      BY <2>1
    <3>3. QED
      BY <2>3, <3>1, <3>2 DEF DistinctNames
  <2>9. WasShown(new, shown)
    BY <2>1, <2>3, <2>4 DEF WasShown
  <2>10. QED
    BY <2>7, <2>8, <2>9
<1>5. QED
  BY <1>1, <1>2, <1>3, <1>4 DEF EditsOf

LEMMA EditInv ==
  ASSUME IInv, Edit
  PROVE  IInv'
<1>1. PICK e \in mail : \E changed \in EditsOf(e) \ {e} : mail' = mail \cup {changed}
  BY DEF Edit
<1>2. PICK changed \in EditsOf(e) : mail' = mail \cup {changed}
  BY <1>1
<1>3. e \in Transaction /\ DistinctNames(e) /\ WasShown(e, shown)
  BY IInvOfTx
<1>4. /\ changed \in Transaction /\ DistinctNames(changed) /\ WasShown(changed, shown)
  BY <1>3, EditsOfIs
<1>5. UNCHANGED <<copy, shown>> /\ edits' \in 0..MaxEdits
  BY PartialAssumption DEF Edit, IInv, TypeOK
<1>6. QED
  BY <1>2, <1>4, <1>5, PostInv

-----------------------------------------------------------------------------

(* The inductive invariant. *)
LEMMA InitInv == Init => IInv
<1> SUFFICES ASSUME Init PROVE IInv
  OBVIOUS
<1>1. Copies = {} /\ mail = {}
  BY DEF Init, Copies, Has
<1>2. TypeOK
  BY PartialAssumption DEF Init, TypeOK
<1>3. QED
  BY <1>1, <1>2 DEF IInv, HashesMatch, NamesAreDistinct, SignedWasShown

LEMMA StepInv == IInv /\ [Next]_vars => IInv'
<1> SUFFICES ASSUME IInv, [Next]_vars PROVE IInv'
  OBVIOUS
<1>1. ASSUME NEW p \in Parties,
             \/ Create(p) \/ SignPartial(p) \/ QuickSign(p) \/ QuickSignWithEcko(p)
             \/ SignWithEcko(p) \/ Export(p) \/ Import(p)
      PROVE  IInv'
  BY <1>1, CreateInv, SignPartialAdds, QuickSignAdds, AddingInv, EckoInv, ExportInv, ImportInv
<1>2. CASE Edit
  BY <1>2, EditInv
<1>3. CASE UNCHANGED vars
  BY <1>3 DEF vars, IInv, TypeOK, HashesMatch, NamesAreDistinct, DistinctNames,
              SignedWasShown, Copies, Has
<1>4. QED
  BY <1>1, <1>2, <1>3 DEF Next

(* Every copy a party works on is hashed right, its slots name their       *)
(* signers once, and each signature was made for its command (the checks   *)
(* of deserializePartialTransaction and the slots addSignatures builds).   *)
THEOREM PartialInvariance == Spec => []IInv
BY InitInv, StepInv, PTL DEF Spec

(* Type correctness: every copy and envelope is a transaction of the       *)
(* commands at hand, its slots those of signatures over hashes             *)
(* (createTransaction, addSignatures).                                     *)
THEOREM PartialTypeCorrect == Spec => []TypeOK
<1>1. IInv => TypeOK
  BY DEF IInv
<1>2. QED
  BY <1>1, PartialInvariance, PTL

(* No party's key ever signs a command the party has not read, whatever    *)
(* is posted, edited, imported and signed again (the tamper guard of       *)
(* deserializePartialTransaction).                                         *)
THEOREM SignaturesWereShown == Spec => []SignedWasShown
<1>1. IInv => SignedWasShown
  BY DEF IInv
<1>2. QED
  BY <1>1, PartialInvariance, PTL

(* A copy with a slot per signer that isFullySigned and                    *)
(* verifyExistingSignatures let through is one the chain accepts.          *)
THEOREM VerifiedTransactionsLand == Spec => []VerifiedIsAccepted
<1>1. ASSUME IInv PROVE VerifiedIsAccepted
  <2> SUFFICES ASSUME NEW tx \in Copies, IsFullySigned(tx), Verify(tx),
                      Len(tx.sigs) = Len(Signers(tx))
               PROVE  ChainAccepts(tx)
    BY DEF VerifiedIsAccepted
  <2>1. tx \in Transaction /\ tx.hash = HashOf(tx.cmd)
    BY <1>1, IInvOfTx
  <2>2. tx.sigs \in Seq(Slot) /\ Signers(tx) \in Seq(Keys)
    BY <2>1, SignersType DEF Transaction
  <2>3. DOMAIN tx.sigs = DOMAIN Signers(tx)
    BY <2>2
  <2>4. \A i \in DOMAIN Signers(tx) :
          tx.sigs[i].sig = [by |-> Signers(tx)[i], over |-> tx.hash]
    BY DEF IsFullySigned, FilledAt, Verify
  <2>5. QED
    BY <2>1, <2>3, <2>4 DEF ChainAccepts
<1>2. QED
  BY <1>1, PartialInvariance, PTL

(* Signing adds: a signature in a slot that names its signer stays, for    *)
(* any number of signers and any order of them (addSignatures).            *)
THEOREM NamedSignaturesStay == Spec => NamedSlotsStay
<1>1. ASSUME IInv, NEW p \in Parties, SignPartial(p)
      PROVE  ~NamedSlotLost(p)
  BY <1>1, SignPartialAdds, AddingKeeps
<1>2. ASSUME IInv, NEW p \in Parties, QuickSign(p) \/ QuickSignWithEcko(p)
      PROVE  ~NamedSlotLost(p)
  BY <1>2, QuickSignAdds, AddingKeeps
<1>3. IInv /\ [Next]_vars =>
        [\A p \in Parties :
           NamedSlotLost(p) => ~(SignPartial(p) \/ QuickSign(p) \/ QuickSignWithEcko(p))]_vars
  BY <1>1, <1>2
<1>4. QED
  BY <1>3, PartialInvariance, PTL DEF Spec, NamedSlotsStay
=============================================================================
