------------------------------- MODULE Codex -------------------------------
(***************************************************************************)
(* The secrets of a codex and what the packages do to them over time: HD   *)
(* seeds and key pairs (HdSecrets), each encrypted once more by crypto/    *)
(* (Envelopes).  The consumer keeps the codex through an adapter that      *)
(* saves it whole, and the schema version beside it; it upgrades V1        *)
(* entries one by one, changes the password of every entry, reads backups  *)
(* of older versions, and may be killed at any await.  That order of calls *)
(* is the consumer's; every call is the code's.                            *)
(***************************************************************************)
EXTENDS Envelopes, HdSecrets

CONSTANTS
  Entries, Passwords, Mnemonics,
  BitStrings,    \* DALOS seeds
  Junk,          \* strings a decoder may be given besides the codex's own
  MaxRekeys, MaxRestarts       \* bounds

ASSUME JunkAssumption == \A data \in Junk : data.kdf \in {"V1", "V2"}
ASSUME BoundAssumption == MaxRekeys \in Nat /\ MaxRestarts \in Nat

VARIABLES
  store, version,     \* what the adapter and the schema version key hold
  codex,              \* the codex in memory
  password,           \* the password of the stored codex
  writers,            \* by entry, the schema version its writer has read
  job,                \* the walk over the entries under way
  warned,             \* _v1WarningEmitted
  advised,            \* advisories given by this process
  loggerThrows,       \* what the consumer's logger does
  legacyOpened,       \* has this process opened a V1 string, other than by decryptString
  rekeys, restarts    \* for the bounds

vars == <<store, version, codex, password, writers, job, warned, advised,
          loggerThrows, legacyOpened, rekeys, restarts>>

None == [kind |-> "none"]
Idle == [kind |-> "idle", todo |-> {}, password |-> ""]
NoVersion == "not writing"

(* An entry: a seed or one of its key pairs, of which family, or a DALOS   *)
(* ("stoic") pair, with the public key it is known by and its string.      *)
Entry(kind, extended, publicKey, blob) ==
  [kind |-> kind, extended |-> extended, publicKey |-> publicKey, blob |-> blob]

Index == 0

(* What a writer derives: a seed, or the first of its key pairs. *)
NewSecret(kind, seedType, mnemonic) ==
  LET pair == CreateWalletPairFromMnemonic(password, mnemonic, Index, seedType)
      seed == SeedOf(password, mnemonic, seedType)
  IN IF ~pair.ok THEN None
     ELSE [kind |-> kind, publicKey |-> pair.value.publicKey,
           secret |-> IF kind = "pair" THEN pair.value.secretKey ELSE seed]

(* The signature an entry's secret makes under a password.  A Chainweaver  *)
(* key signs through its library, which returns the bytes alone.           *)
SignExtended(entry, secret, pwd) ==
  LET raw == IF entry.kind = "pair" THEN KadenaSign(pwd, secret)
                                    ELSE KadenaSignFromRootKey(pwd, secret, Index)
  IN IF raw.ok THEN Result(Signature(raw.value, entry.publicKey)) ELSE raw

(* A pair without a key scrambled in it goes to nacl as the hex text that  *)
(* the wallet's own layer was put on.                                      *)
SignRawHex(entry, secret, pwd) ==
  LET opened == KadenaDecrypt(pwd, secret)
  IN IF opened.ok THEN SignHash(entry.publicKey, FromUtf8(opened.value)) ELSE NoResult

(* Which function of the packages signs with which kind of secret.         *)
SignWith(entry, secret, pwd) ==
  CASE entry.extended         -> SignExtended(entry, secret, pwd)
    [] entry.kind = "stoic"   -> SignRawHex(entry, secret, pwd)
    [] entry.kind = "pair" /\ ~entry.extended -> KadenaSignWithKeyPair(pwd, entry.publicKey, secret)
    [] entry.kind = "seed" /\ ~entry.extended -> KadenaSignWithSeed(pwd, secret, Index)

(* The public key the packages read from it, without signing. *)
PublicKeyOf(entry, secret, pwd) ==
  CASE entry.extended /\ entry.kind = "pair" -> Result(GetPublicKeyFromLegacySecretKey(secret))
    [] entry.extended /\ entry.kind = "seed" -> GetPublicFromRootKey(pwd, secret, Harden(Index))
    [] ~entry.extended /\ entry.kind = "seed" -> SlipPublicKey(pwd, secret, Index)
    [] OTHER -> Result(entry.publicKey)

ChangeSecret(entry, secret, new) ==
  IF entry.extended THEN ChangeLegacyPassword(password, secret, new)
                    ELSE KadenaChangePassword(password, secret, new)

Init ==
  /\ store = [e \in Entries |-> None] /\ codex = store /\ version = "absent"
  /\ password \in Passwords
  /\ writers = [e \in Entries |-> NoVersion] /\ job = Idle
  /\ warned = FALSE /\ advised = 0 /\ loggerThrows \in BOOLEAN
  /\ legacyOpened = FALSE /\ rekeys = 0 /\ restarts = 0

Quiet == UNCHANGED <<warned, advised, legacyOpened>>

-----------------------------------------------------------------------------
(* _v1WarningEmitted is set before the logger is called.  decryptStringV2  *)
(* calls it inside the try that classifies failures, smartDecrypt outside. *)

Decode(how, data, pwd) ==
  CASE how = "decryptString"   -> DecryptString(data, pwd)
    [] how = "decryptStringV2" -> DecryptStringV2(data, pwd)
    [] how = "smartDecrypt"    -> SmartDecrypt(data, pwd)

Advice(how, data, pwd) ==
  CASE how = "decryptString"   -> FALSE
    [] how = "decryptStringV2" -> LegacyAdviceV2(data, pwd)
    [] how = "smartDecrypt"    -> LegacyAdviceSmart(data)

EmitV1WarningOnceBug(advice) ==          \* once per call, not per process
  /\ warned' = advice
  /\ advised' = advised + (IF advice THEN 1 ELSE 0)

EmitV1WarningOnce(advice) ==
  /\ warned' = (warned \/ advice)
  /\ advised' = advised + (IF advice /\ ~warned THEN 1 ELSE 0)

LoggerFails(how, data, pwd) == Advice(how, data, pwd) /\ ~warned /\ loggerThrows

Outcome(how, data, pwd) ==
  IF LoggerFails(how, data, pwd) THEN Failed("Error") ELSE Decode(how, data, pwd)

WasLegacyV1(data) == ~IsEncryptedV2(data)

DecodesV1(how, data, pwd) ==
  how # "decryptString" /\ WasLegacyV1(data) /\ Outcome(how, data, pwd).ok

Advise(how, data, pwd) ==
  /\ EmitV1WarningOnce(Advice(how, data, pwd))
  /\ legacyOpened' = (legacyOpened \/ DecodesV1(how, data, pwd))

(* A string is opened, with the ...WithDetails variant where there is one. *)
Open(how, data, pwd) ==
  /\ job = Idle
  /\ Advise(how, data, pwd)
  /\ UNCHANGED <<store, version, codex, password, writers, job, loggerThrows, rekeys, restarts>>

-----------------------------------------------------------------------------
(* A writer reads the schema version and encrypts; the upgrade may end     *)
(* before it puts its entry down.                                          *)

BeginWrite(e) ==
  /\ codex[e] = None /\ writers[e] = NoVersion /\ job.kind # "rekey"
  /\ writers' = [writers EXCEPT ![e] = version]
  /\ UNCHANGED <<store, version, codex, password, job, loggerThrows, rekeys, restarts>> /\ Quiet

Put(e, entry) ==
  /\ codex' = [codex EXCEPT ![e] = entry] /\ store' = codex'
  /\ UNCHANGED <<version, password, job, loggerThrows, rekeys, restarts>> /\ Quiet

EndWrite(e, kind, seedType, mnemonic) ==
  LET new == NewSecret(kind, seedType, mnemonic)
  IN /\ writers[e] # NoVersion /\ new # None
     /\ Put(e, Entry(kind, seedType \in Chainweavers, new.publicKey,
                     SmartEncrypt(new.secret, password, writers[e])))
     /\ writers' = [writers EXCEPT ![e] = NoVersion]

(* A DALOS pair comes unencrypted, as hex; the wallet's own layer is put   *)
(* on that text.                                                           *)
EndStoicWrite(e, bitString) ==
  LET pair == CreateWalletPairFromDalosBitString(bitString, Index)
  IN /\ writers[e] # NoVersion
     /\ Put(e, Entry("stoic", FALSE, pair.publicKey,
                     SmartEncrypt(WalletEncrypt(password, pair.secretKey), password, writers[e])))
     /\ writers' = [writers EXCEPT ![e] = NoVersion]

(* A mnemonic the form refuses, or the derivation does. *)
RefuseWrite(e, kind, seedType, mnemonic) ==
  /\ writers[e] # NoVersion
  /\ ~IsValidMnemonic(mnemonic, "none") \/ NewSecret(kind, seedType, mnemonic) = None
  /\ writers' = [writers EXCEPT ![e] = NoVersion]
  /\ UNCHANGED <<store, version, codex, password, job, loggerThrows, rekeys, restarts>> /\ Quiet

(* An entry of an old backup: V1, perhaps from a browser that stored a     *)
(* whole pooled buffer, its seed perhaps from before iterations were kept. *)
ImportBackup(e, mnemonic, length, before) ==
  LET seed   == MnemonicToSeed(mnemonic)
      secret == IF before THEN KadenaEncryptBefore(password, seed)
                          ELSE KadenaMnemonicToSeed(password, mnemonic)
  IN /\ codex[e] = None /\ writers[e] = NoVersion /\ job.kind # "rekey"
     /\ Put(e, Entry("seed", FALSE, DeriveKeyPair(seed, Index).publicKey,
                     [EncryptString(secret, password) EXCEPT !.length = length]))
     /\ UNCHANGED writers

-----------------------------------------------------------------------------
(* A walk over the entries: each is opened and written anew. *)

Present == {e \in Entries : codex[e] # None}

BeginUpgrade ==
  /\ job = Idle /\ ~IsCodexUpgraded(version)
  /\ job' = [kind |-> "upgrade", todo |-> Present, password |-> password]
  /\ UNCHANGED <<store, version, codex, password, writers, loggerThrows, rekeys, restarts>> /\ Quiet

BeginRekey(new) ==
  /\ job = Idle /\ rekeys < MaxRekeys
  /\ \A e \in Entries : writers[e] = NoVersion
  /\ job' = [kind |-> "rekey", todo |-> Present, password |-> new]
  /\ rekeys' = rekeys + 1
  /\ UNCHANGED <<store, version, codex, password, writers, loggerThrows, restarts>> /\ Quiet

Rewritten(e) ==       \* the entry's secret after this walk
  LET old == SmartDecrypt(codex[e].blob, password).value
  IN IF job.kind = "upgrade" THEN Result(old) ELSE ChangeSecret(codex[e], old, job.password)

Walk(e) ==
  LET data == codex[e].blob IN
  /\ e \in job.todo
  /\ Advise("smartDecrypt", data, password)
  /\ IF LoggerFails("smartDecrypt", data, password) \/ ~Rewritten(e).ok
     THEN codex' = store /\ job' = Idle              \* the walk is given up
     ELSE /\ codex' = [codex EXCEPT ![e].blob =
               SmartEncrypt(Rewritten(e).value, job.password,
                            IF job.kind = "upgrade" THEN "1" ELSE version)]
          /\ job' = [job EXCEPT !.todo = @ \ {e}]
  /\ UNCHANGED <<store, version, password, writers, loggerThrows, rekeys, restarts>>

Save ==
  /\ job # Idle /\ job.todo = {} /\ store # codex
  /\ store' = codex /\ password' = job.password
  /\ UNCHANGED <<version, codex, writers, job, loggerThrows, rekeys, restarts>> /\ Quiet

(* The schema version is written after the codex. *)
Finish ==
  /\ job # Idle /\ job.todo = {} /\ store = codex
  /\ version' = IF job.kind = "upgrade" THEN "1" ELSE version
  /\ job' = Idle
  /\ UNCHANGED <<store, codex, password, writers, loggerThrows, rekeys, restarts>> /\ Quiet

Restart ==
  /\ restarts < MaxRestarts
  /\ codex' = store /\ writers' = [e \in Entries |-> NoVersion] /\ job' = Idle
  /\ warned' = FALSE /\ advised' = 0 /\ legacyOpened' = FALSE /\ loggerThrows' \in BOOLEAN
  /\ restarts' = restarts + 1
  /\ UNCHANGED <<store, version, password, rekeys>>

Ways == {"decryptString", "decryptStringV2", "smartDecrypt"}
Strings == Junk \cup {codex[e].blob : e \in Present}

Next ==
  \/ \E how \in Ways, data \in Strings, pwd \in Passwords : Open(how, data, pwd)
  \/ \E e \in Entries, mnemonic \in Mnemonics :
       \/ \E kind \in {"seed", "pair"}, seedType \in SeedTypes :
            EndWrite(e, kind, seedType, mnemonic) \/ RefuseWrite(e, kind, seedType, mnemonic)
       \/ \E length \in Lengths, before \in BOOLEAN : ImportBackup(e, mnemonic, length, before)
  \/ \E e \in Entries, bitString \in BitStrings : EndStoicWrite(e, bitString)
  \/ \E e \in Entries : BeginWrite(e) \/ Walk(e)
  \/ BeginUpgrade \/ (\E new \in Passwords : BeginRekey(new))
  \/ Save \/ Finish \/ Restart

Spec == Init /\ [][Next]_vars

-----------------------------------------------------------------------------
EntryOK(c, e) ==
  LET data == c[e].blob
  IN /\ c[e].kind \in {"seed", "pair", "stoic"} /\ c[e].extended \in BOOLEAN
     /\ data.password \in Passwords /\ data.kdf \in {"V1", "V2"} /\ data.length \in Lengths
     /\ data.value.cipherText.key \in Passwords \X {DEFAULT_ITERATIONS, LegacyIterations}

(* Type correctness of the codex and of everything kept beside it. *)
TypeOK ==
  /\ \A c \in {codex, store}, e \in Entries : c[e] # None => EntryOK(c, e)
  /\ version \in SchemaVersions /\ password \in Passwords
  /\ writers \in [Entries -> SchemaVersions \cup {NoVersion}]
  /\ job.kind \in {"idle", "upgrade", "rekey"} /\ job.todo \subseteq Present
  /\ warned \in BOOLEAN /\ loggerThrows \in BOOLEAN /\ advised \in Nat /\ legacyOpened \in BOOLEAN
  /\ rekeys \in 0..MaxRekeys /\ restarts \in 0..MaxRestarts

(* Whatever versions, backups, upgrades, changes of password and restarts  *)
(* an entry has been through, the password in force opens it, by           *)
(* smartDecrypt and by decryptStringV2 alike, to a secret that signs as    *)
(* the entry's public key; any other password is WrongPasswordError.       *)
Survives(entry, pwd) ==
  LET now == SmartDecrypt(entry.blob, pwd)
  IN /\ now.ok /\ DecryptStringV2(entry.blob, pwd) = now
     /\ LET signed == SignWith(entry, now.value, pwd)
        IN signed.ok /\ KadenaVerify(signed.value) /\ signed.value.pubKey = entry.publicKey
     /\ PublicKeyOf(entry, now.value, pwd) = Result(entry.publicKey)
     /\ \A other \in Passwords \ {pwd} :
          SmartDecrypt(entry.blob, other) = WrongPasswordError

SecretsSurvive ==
  \A e \in Entries :
    /\ store[e] # None => Survives(store[e], password)
    /\ codex[e] # None =>
         Survives(codex[e], IF job # Idle /\ e \notin job.todo THEN job.password ELSE password)

(* What a decoder says of a string is so: a result is what was encrypted,  *)
(* under that password; a string it calls corrupt no password would open;  *)
(* a sound string and its password fail for a logger that throws only, and *)
(* once.  wasLegacyV1 tells the derivation, and a process that has opened  *)
(* a V1 string has been advised exactly once.                              *)
Sound(data) ==
  /\ data.parses = "object" /\ data.fields = "strings" /\ data.intact
  /\ data.v = IF data.kdf = "V2" THEN "two" ELSE "none"
  /\ data.kdf = "V2" => data.length = "exact"

OpeningsAreHonest ==
  /\ advised <= 1 /\ (advised = 1 <=> warned) /\ (legacyOpened => warned)
  /\ \A how \in Ways, data \in Strings, pwd \in Passwords :
       LET outcome == Outcome(how, data, pwd) IN
       /\ outcome.ok =>
            /\ outcome.value = data.value /\ pwd = data.password
            /\ how # "decryptString" => (WasLegacyV1(data) <=> data.kdf = "V1")
       /\ outcome = CorruptEnvelopeError =>
            \A h \in Ways, p \in Passwords : ~Decode(h, data, p).ok
       /\ outcome.error = "Error" => loggerThrows /\ ~warned
       /\ Sound(data) /\ pwd = data.password =>
            outcome.ok \/ outcome.error = "Error" \/ (how = "decryptString" /\ data.kdf = "V2")
=============================================================================
