----------------------------- MODULE CodexProofs -----------------------------
(***************************************************************************)
(* Proofs about Codex for any entries, passwords, mnemonics and strings,   *)
(* and any number of changes of password and restarts.                     *)
(***************************************************************************)
EXTENDS Codex, TLAPS

-----------------------------------------------------------------------------
(* What the decoders say of any string. *)

LEMMA AesGcmIs ==
  ASSUME NEW data, NEW kdf, NEW pwd, NEW truncated
  PROVE  \/ /\ AesGcm(data, kdf, pwd, truncated) = Opened(data.value)
            /\ data.fields = "strings" /\ data.intact
            /\ data.kdf = kdf /\ data.password = pwd
            /\ truncated \/ data.length = "exact"
         \/ /\ AesGcm(data, kdf, pwd, truncated) = WrongPasswordError
            /\ ~ (/\ data.fields = "strings" /\ data.intact
                  /\ data.kdf = kdf /\ data.password = pwd
                  /\ truncated \/ data.length = "exact")
  BY DEF AesGcm

LEMMA OutcomesDiffer ==
  /\ \A value : Opened(value).ok = TRUE /\ Opened(value).value = value /\ Opened(value).error = "none"
  /\ WrongPasswordError.ok = FALSE /\ WrongPasswordError.error = "WrongPasswordError"
  /\ CorruptEnvelopeError.ok = FALSE /\ CorruptEnvelopeError.error = "CorruptEnvelopeError"
  /\ Failed("Error").ok = FALSE /\ Failed("Error").error = "Error"
  BY DEF Opened, Failed, WrongPasswordError, CorruptEnvelopeError

(* A decoder calls a string corrupt if it is malformed; otherwise it opens *)
(* it with the parameters it takes its version to mean.                    *)
Parameters(how, data) ==
  IF how # "decryptString" /\ IsEncryptedV2(data)
  THEN [kdf |-> "V2", truncated |-> FALSE] ELSE [kdf |-> "V1", truncated |-> TRUE]

LEMMA DecodeIs ==
  ASSUME NEW how \in Ways, NEW data, NEW pwd
  PROVE  /\ Malformed(data) => Decode(how, data, pwd) = CorruptEnvelopeError
         /\ ~Malformed(data) =>
              Decode(how, data, pwd) = AesGcm(data, Parameters(how, data).kdf, pwd,
                                              Parameters(how, data).truncated)
<1>1. CASE how = "decryptString"
  BY <1>1 DEF Decode, DecryptString, Parameters
<1>2. CASE how = "decryptStringV2"
  BY <1>2 DEF Decode, DecryptStringV2, Parameters
<1>3. CASE how = "smartDecrypt"
  BY <1>3 DEF Decode, SmartDecrypt, DecryptString, DecryptStringV2, Parameters
<1> QED
  BY <1>1, <1>2, <1>3 DEF Ways

(* What OpeningsAreHonest says of one opening; it is so of any string that *)
(* was made by one of the two derivations.                                 *)
HonestOutcome(how, data, pwd) ==
  LET outcome == Outcome(how, data, pwd) IN
    /\ outcome.ok =>
         /\ outcome.value = data.value /\ pwd = data.password
         /\ how # "decryptString" => (WasLegacyV1(data) <=> data.kdf = "V1")
    /\ outcome = CorruptEnvelopeError =>
         \A h \in Ways, p \in Passwords : ~Decode(h, data, p).ok
    /\ outcome.error = "Error" => loggerThrows /\ ~warned
    /\ Sound(data) /\ pwd = data.password =>
         outcome.ok \/ outcome.error = "Error" \/ (how = "decryptString" /\ data.kdf = "V2")

LEMMA OutcomesAreHonest ==
  ASSUME NEW how \in Ways, NEW data, NEW pwd, data.kdf \in {"V1", "V2"}
  PROVE  HonestOutcome(how, data, pwd)
<1> DEFINE decoded == Decode(how, data, pwd)
           kdf == Parameters(how, data).kdf
           truncated == Parameters(how, data).truncated
<1>1. CASE LoggerFails(how, data, pwd)
  <2>1. Outcome(how, data, pwd) = Failed("Error") /\ loggerThrows /\ ~warned
    BY <1>1 DEF Outcome, LoggerFails
  <2>2. Failed("Error") # CorruptEnvelopeError
    BY OutcomesDiffer
  <2> QED
    BY <2>1, <2>2, OutcomesDiffer DEF HonestOutcome
<1>2. CASE ~LoggerFails(how, data, pwd) /\ Malformed(data)
  <2>1. Outcome(how, data, pwd) = CorruptEnvelopeError
    BY <1>2, DecodeIs DEF Outcome
  <2>2. \A h \in Ways, p \in Passwords : ~Decode(h, data, p).ok
    BY <1>2, DecodeIs, OutcomesDiffer
  <2>3. ~Sound(data)
    BY <1>2 DEF Sound, Malformed
  <2> QED
    BY <2>1, <2>2, <2>3, OutcomesDiffer DEF HonestOutcome
<1>3. CASE ~LoggerFails(how, data, pwd) /\ ~Malformed(data)
  <2>1. Outcome(how, data, pwd) = AesGcm(data, kdf, pwd, truncated)
    BY <1>3, DecodeIs DEF Outcome
  <2>2. CASE /\ AesGcm(data, kdf, pwd, truncated) = Opened(data.value)
             /\ data.kdf = kdf /\ data.password = pwd
    <3>1. how # "decryptString" => (WasLegacyV1(data) <=> data.kdf = "V1")
      BY <2>2 DEF Parameters, WasLegacyV1
    <3>2. Opened(data.value) # CorruptEnvelopeError
      BY OutcomesDiffer
    <3> QED
      BY <2>1, <2>2, <3>1, <3>2, OutcomesDiffer DEF HonestOutcome
  <2>3. CASE /\ AesGcm(data, kdf, pwd, truncated) = WrongPasswordError
             /\ ~ (/\ data.fields = "strings" /\ data.intact
                   /\ data.kdf = kdf /\ data.password = pwd
                   /\ truncated \/ data.length = "exact")
    <3>1. WrongPasswordError # CorruptEnvelopeError
      BY OutcomesDiffer
    <3>2. ASSUME Sound(data), pwd = data.password
          PROVE  how = "decryptString" /\ data.kdf = "V2"
      <4>1. ~(data.kdf = kdf /\ (truncated \/ data.length = "exact"))
        BY <2>3, <3>2 DEF Sound
      <4> QED
        BY <3>2, <4>1 DEF Sound, Parameters, IsEncryptedV2
    <3> QED
      BY <2>1, <2>3, <3>1, <3>2, OutcomesDiffer DEF HonestOutcome
  <2> QED
    BY <2>2, <2>3, AesGcmIs
<1> QED
  BY <1>1, <1>2, <1>3

-----------------------------------------------------------------------------
(* The advisory *)

AdviceOK ==
  /\ warned \in BOOLEAN /\ legacyOpened \in BOOLEAN
  /\ \/ advised = 0 /\ ~warned
     \/ advised = 1 /\ warned
  /\ legacyOpened => warned

LEMMA AdviseKeeps ==
  ASSUME AdviceOK, NEW how \in Ways, NEW data, NEW pwd, Advise(how, data, pwd)
  PROVE  AdviceOK'
<1> DEFINE advice == Advice(how, data, pwd)
           opens == DecodesV1(how, data, pwd)
<1>1. opens => advice
  <2> SUFFICES ASSUME opens PROVE advice
    OBVIOUS
  <2>1. /\ how # "decryptString" /\ ~IsEncryptedV2(data)
        /\ Outcome(how, data, pwd).ok
    BY DEF DecodesV1, WasLegacyV1
  <2>2. Decode(how, data, pwd).ok
    BY <2>1, OutcomesDiffer DEF Outcome
  <2>3. CASE how = "smartDecrypt"
    BY <2>1, <2>3 DEF Advice, LegacyAdviceSmart
  <2>4. CASE how = "decryptStringV2"
    BY <2>1, <2>2, <2>4 DEF Advice, LegacyAdviceV2, Decode
  <2> QED
    BY <2>1, <2>3, <2>4 DEF Ways
<1>2. /\ warned' = (warned \/ advice)
      /\ advised' = advised + (IF advice /\ ~warned THEN 1 ELSE 0)
      /\ legacyOpened' = (legacyOpened \/ opens)
  BY DEF Advise, EmitV1WarningOnce
<1> HIDE DEF advice, opens
<1>3. warned' \in BOOLEAN /\ legacyOpened' \in BOOLEAN
  BY <1>2
<1>4. legacyOpened' => warned'
  BY <1>1, <1>2, Zenon DEF AdviceOK
<1>5. CASE advice /\ ~warned
  <2>1. advised' = 1
    BY <1>2, <1>5 DEF AdviceOK
  <2> QED
    BY <1>2, <1>3, <1>4, <1>5, <2>1 DEF AdviceOK
<1>6. CASE ~advice \/ warned
  <2>1. advised' = advised
    BY <1>2, <1>6 DEF AdviceOK
  <2>2. warned' <=> warned
    BY <1>2, <1>6
  <2> QED
    BY <1>3, <1>4, <2>1, <2>2, Zenon DEF AdviceOK
<1> QED
  BY <1>5, <1>6

-----------------------------------------------------------------------------
(* The two layers *)

(* An envelope as the code writes it, of value and under p. *)
WellMade(data, value, p) ==
  /\ data.parses = "object" /\ data.fields = "strings" /\ data.intact
  /\ data.password = p /\ data.value = value
  /\ data.length \in Lengths
  /\ \/ data.v = "none" /\ data.kdf = "V1"
     \/ data.v = "two" /\ data.kdf = "V2" /\ data.length = "exact"

LEMMA SmartEncryptIsWellMade ==
  ASSUME NEW value, NEW p, NEW v
  PROVE  WellMade(SmartEncrypt(value, p, v), value, p)
  BY DEF WellMade, SmartEncrypt, EncryptString, EncryptStringV2, Envelope, Lengths

LEMMA BackupIsWellMade ==
  ASSUME NEW value, NEW p, NEW length \in Lengths
  PROVE  WellMade([EncryptString(value, p) EXCEPT !.length = length], value, p)
  BY DEF WellMade, EncryptString, Envelope

(* It opens to its value under its password, in both ways, and no other.   *)
LEMMA WellMadeOpens ==
  ASSUME NEW data, NEW value, NEW p, WellMade(data, value, p)
  PROVE  /\ SmartDecrypt(data, p) = Opened(value)
         /\ DecryptStringV2(data, p) = Opened(value)
         /\ \A other : other # p => SmartDecrypt(data, other) = WrongPasswordError
<1>1. ~Malformed(data)
  BY DEF WellMade, Malformed
<1>2. CASE data.v = "none" /\ data.kdf = "V1"
  <2>1. ~IsEncryptedV2(data)
    BY <1>2 DEF IsEncryptedV2
  <2>2. AesGcm(data, "V1", p, TRUE) = Opened(value)
    BY <1>2 DEF WellMade, AesGcm
  <2>3. \A other : other # p => AesGcm(data, "V1", other, TRUE) = WrongPasswordError
    BY DEF WellMade, AesGcm
  <2> QED
    BY <1>1, <2>1, <2>2, <2>3 DEF SmartDecrypt, DecryptString, DecryptStringV2
<1>3. CASE data.v = "two" /\ data.kdf = "V2" /\ data.length = "exact"
  <2>1. IsEncryptedV2(data)
    BY <1>3 DEF IsEncryptedV2, WellMade
  <2>2. AesGcm(data, "V2", p, FALSE) = Opened(value)
    BY <1>3 DEF WellMade, AesGcm
  <2>3. \A other : other # p => AesGcm(data, "V2", other, FALSE) = WrongPasswordError
    BY DEF WellMade, AesGcm
  <2> QED
    BY <1>1, <2>1, <2>2, <2>3 DEF SmartDecrypt, DecryptStringV2
<1> QED
  BY <1>2, <1>3 DEF WellMade

(* A secret of hd-wallet/ that opens to text under p. *)
Seals(secret, text, p) ==
  /\ secret.cipherText.text = text
  /\ \/ /\ secret.iterations = DEFAULT_ITERATIONS
        /\ secret.cipherText.key = DeriveKey(p, DEFAULT_ITERATIONS)
     \/ /\ secret.iterations = 0
        /\ secret.cipherText.key = DeriveKey(p, LegacyIterations)

LEMMA ResultIs == \A value : Result(value).ok = TRUE /\ Result(value).value = value
  BY DEF Result

LEMMA SealsOpens ==
  ASSUME NEW secret, NEW text, NEW p, Seals(secret, text, p)
  PROVE  KadenaDecrypt(p, secret) = Result(text)
<1>1. DEFAULT_ITERATIONS # 0
  BY DEF DEFAULT_ITERATIONS
<1> QED
  BY <1>1 DEF Seals, KadenaDecrypt, Decrypt

LEMMA EncryptSeals ==
  ASSUME NEW text, NEW p
  PROVE  /\ Seals(KadenaEncrypt(p, text), text, p)
         /\ Seals(KadenaEncryptBefore(p, text), text, p)
  BY DEF Seals, KadenaEncrypt, Encrypt, KadenaEncryptBefore

LEMMA EncryptLegacySeals ==
  ASSUME NEW xprv, NEW p
  PROVE  /\ Seals(EncryptLegacySecretKey(p, xprv), xprv, p)
         /\ EncryptLegacySecretKey(p, xprv).tail = <<xprv.publicKey>>
  BY DEF Seals, EncryptLegacySecretKey, KadenaEncrypt, Encrypt

LEMMA ExtendedIs ==
  ASSUME NEW key, NEW p
  PROVE  /\ Extended(key, p).publicKey = key
         /\ Unscramble(p, Extended(key, p)) = key
         /\ \A new : VendorChangePassword(Extended(key, p), p, new) = Extended(key, new)
<1>1. Extended(key, p).publicKey = key /\ Unscramble(p, Extended(key, p)) = key
  BY DEF Extended, Unscramble
<1>2. ASSUME NEW new
      PROVE  VendorChangePassword(Extended(key, p), p, new) = Extended(key, new)
  <2> DEFINE x == Extended(key, p)
             u == Unscramble(p, x)
  <2>1. u = key /\ x.publicKey = key
    BY <1>1
  <2>2. VendorChangePassword(x, p, new) = [publicKey |-> x.publicKey, key |-> u, scrambled |-> new]
    BY DEF VendorChangePassword
  <2> HIDE DEF x, u
  <2>3. VendorChangePassword(x, p, new) = Extended(key, new)
    BY <2>1, <2>2 DEF Extended
  <2> QED
    BY <2>3 DEF x
<1> QED
  BY <1>1, <1>2

-----------------------------------------------------------------------------
(* The secret of an entry, as the hd-wallet functions made it under p. *)

GoodSecret(entry, secret, p) ==
  IF entry.extended
  THEN IF entry.kind = "pair"
       THEN /\ Seals(secret, Extended(entry.publicKey, p), p)
            /\ secret.tail = <<entry.publicKey>>
       ELSE \E root : /\ Seals(secret, Extended(root, p), p)
                      /\ entry.publicKey = Key("chainweaver", root, Harden(Index))
  ELSE CASE entry.kind = "pair"  -> /\ Seals(secret, entry.publicKey, p)
                                    /\ Length(entry.publicKey) = KeyBytes
         [] entry.kind = "stoic" -> /\ Seals(secret, Utf8(Hex(entry.publicKey)), p)
                                    /\ Length(entry.publicKey) = KeyBytes
         [] OTHER -> \E seed : /\ Seals(secret, seed, p)
                               /\ entry.publicKey = Key("slip10", seed, Index)

(* The conversions lose nothing, and the keys derived are keys of nacl.    *)
LEMMA ConversionsAre ==
  /\ \A bytes : HexToBin(Hex(bytes)) = bytes
  /\ \A text : FromUtf8(Utf8(text)) = text
  /\ \A seed : /\ Length(Key("slip10", seed, Index)) = KeyBytes
               /\ Length(Key("dalos", seed, Index)) = KeyBytes
  BY DEF HexToBin, Hex, FromUtf8, Utf8, Length, Key, KeyBytes

LEMMA SignHashSigns ==
  ASSUME NEW pub, Length(pub) = KeyBytes
  PROVE  SignHash(pub, Hex(pub)) = Result(Signature(pub, pub))
  BY ConversionsAre DEF SignHash, KeyBytes

(* Such a secret signs as its entry's public key, which it also tells. *)
LEMMA GoodSecretSigns ==
  ASSUME NEW entry, NEW secret, NEW p, entry.kind \in {"seed", "pair", "stoic"},
         entry.extended => entry.kind # "stoic", GoodSecret(entry, secret, p)
  PROVE  /\ SignWith(entry, secret, p).ok
         /\ KadenaVerify(SignWith(entry, secret, p).value)
         /\ SignWith(entry, secret, p).value.pubKey = entry.publicKey
         /\ PublicKeyOf(entry, secret, p) = Result(entry.publicKey)
<1> DEFINE pub == entry.publicKey
           signed == Result(Signature(pub, pub))
<1>1. CASE entry.extended /\ entry.kind = "pair"
  <2>1. KadenaDecrypt(p, secret) = Result(Extended(pub, p)) /\ secret.tail = <<pub>>
    BY <1>1, SealsOpens DEF GoodSecret
  <2>2. KadenaSign(p, secret) = Result(pub)
    BY <2>1, ExtendedIs, ResultIs DEF KadenaSign
  <2>3. SignWith(entry, secret, p) = signed
    BY <1>1, <2>2, ResultIs DEF SignWith, SignExtended
  <2>4. PublicKeyOf(entry, secret, p) = Result(pub)
    BY <1>1, <2>1 DEF PublicKeyOf, GetPublicKeyFromLegacySecretKey
  <2> QED
    BY <2>3, <2>4, ResultIs DEF Signature, KadenaVerify
<1>2. CASE entry.extended /\ entry.kind = "seed"
  <2>1. PICK root : /\ Seals(secret, Extended(root, p), p)
                    /\ pub = Key("chainweaver", root, Harden(Index))
    BY <1>2 DEF GoodSecret
  <2>2. KadenaDecrypt(p, secret) = Result(Extended(root, p))
    BY <2>1, SealsOpens
  <2>3. DerivePrivate(p, Extended(root, p), Harden(Index)) = Extended(pub, p)
    BY <2>1, ExtendedIs DEF DerivePrivate
  <2> DEFINE key == EncryptLegacySecretKey(p, Extended(pub, p))
  <2>4. GenKeypair(p, secret, Index) = Result([publicKey |-> pub, secretKey |-> key])
    BY <2>2, <2>3, ExtendedIs, ResultIs DEF GenKeypair
  <2>5. KadenaDecrypt(p, key) = Result(Extended(pub, p))
    BY EncryptLegacySeals, SealsOpens
  <2> HIDE DEF key
  <2>6. KadenaSign(p, key) = Result(pub)
    BY <2>5, ExtendedIs, ResultIs DEF KadenaSign
  <2>7. KadenaSignFromRootKey(p, secret, Index) = Result(pub)
    BY <2>4, <2>6, ResultIs DEF KadenaSignFromRootKey
  <2>8. SignWith(entry, secret, p) = signed
    BY <1>2, <2>7, ResultIs DEF SignWith, SignExtended
  <2>9. PublicKeyOf(entry, secret, p) = Result(pub)
    BY <1>2, <2>2, <2>3, ExtendedIs, ResultIs DEF PublicKeyOf, GetPublicFromRootKey
  <2> QED
    BY <2>8, <2>9, ResultIs DEF Signature, KadenaVerify
<1>3. CASE ~entry.extended /\ entry.kind = "pair"
  <2>1. KadenaDecrypt(p, secret) = Result(pub) /\ Length(pub) = KeyBytes
    BY <1>3, SealsOpens DEF GoodSecret
  <2>2. KadenaSignWithKeyPair(p, pub, secret) = signed
    BY <2>1, SignHashSigns, ResultIs DEF KadenaSignWithKeyPair, SignWithKeyPair
  <2>3. SignWith(entry, secret, p) = signed
    BY <1>3, <2>2 DEF SignWith
  <2>4. PublicKeyOf(entry, secret, p) = Result(pub)
    BY <1>3 DEF PublicKeyOf
  <2> QED
    BY <2>3, <2>4, ResultIs DEF Signature, KadenaVerify
<1>4. CASE ~entry.extended /\ entry.kind = "stoic"
  <2>1. KadenaDecrypt(p, secret) = Result(Utf8(Hex(pub))) /\ Length(pub) = KeyBytes
    BY <1>4, SealsOpens DEF GoodSecret
  <2>2. SignRawHex(entry, secret, p) = signed
    BY <2>1, SignHashSigns, ConversionsAre, ResultIs DEF SignRawHex
  <2>3. SignWith(entry, secret, p) = signed
    BY <1>4, <2>2 DEF SignWith
  <2>4. PublicKeyOf(entry, secret, p) = Result(pub)
    BY <1>4 DEF PublicKeyOf
  <2> QED
    BY <2>3, <2>4, ResultIs DEF Signature, KadenaVerify
<1>5. CASE ~entry.extended /\ entry.kind = "seed"
  <2>1. PICK seed : /\ Seals(secret, seed, p)
                    /\ pub = Key("slip10", seed, Index)
    BY <1>5 DEF GoodSecret
  <2>2. KadenaDecrypt(p, secret) = Result(seed)
    BY <2>1, SealsOpens
  <2>3. DeriveKeyPair(seed, Index) = [publicKey |-> pub, privateKey |-> Hex(pub)]
    BY <2>1 DEF DeriveKeyPair
  <2>4. SignWithSeed(seed, Index) = signed
    BY <2>1, <2>3, SignHashSigns, ConversionsAre DEF SignWithSeed, SignWithKeyPair
  <2>5. KadenaSignWithSeed(p, secret, Index) = signed
    BY <2>2, <2>4, ResultIs DEF KadenaSignWithSeed
  <2>6. SignWith(entry, secret, p) = signed
    BY <1>5, <2>5 DEF SignWith
  <2>7. PublicKeyOf(entry, secret, p) = Result(pub)
    BY <1>5, <2>2, <2>3, ResultIs DEF PublicKeyOf, SlipPublicKey
  <2> QED
    BY <2>6, <2>7, ResultIs DEF Signature, KadenaVerify
<1> QED
  BY <1>1, <1>2, <1>3, <1>5, <1>4

(* What a writer derives, and what a change of password makes of a secret. *)
SameKey(entry, other) ==
  /\ entry.kind = other.kind /\ entry.extended = other.extended
  /\ entry.publicKey = other.publicKey

LEMMA GoodSecretIsOfTheKey ==
  ASSUME NEW entry, NEW other, NEW secret, NEW p,
         SameKey(entry, other), GoodSecret(entry, secret, p)
  PROVE  GoodSecret(other, secret, p)
  BY DEF SameKey, GoodSecret

LEMMA EntryIs ==
  ASSUME NEW kind, NEW extended, NEW publicKey, NEW blob
  PROVE  /\ Entry(kind, extended, publicKey, blob).kind = kind
         /\ Entry(kind, extended, publicKey, blob).extended = extended
         /\ Entry(kind, extended, publicKey, blob).publicKey = publicKey
         /\ Entry(kind, extended, publicKey, blob).blob = blob
  BY DEF Entry

LEMMA NewSecretIsGood ==
  ASSUME NEW kind \in {"seed", "pair"}, NEW seedType, NEW mnemonic,
         NewSecret(kind, seedType, mnemonic) # None,
         NEW entry, entry.kind = kind, entry.extended = (seedType \in Chainweavers),
         entry.publicKey = NewSecret(kind, seedType, mnemonic).publicKey
  PROVE  GoodSecret(entry, NewSecret(kind, seedType, mnemonic).secret, password)
<1> DEFINE pair == CreateWalletPairFromMnemonic(password, mnemonic, Index, seedType)
           seed == SeedOf(password, mnemonic, seedType)
           new == NewSecret(kind, seedType, mnemonic)
<1>1. /\ pair.ok /\ new.publicKey = pair.value.publicKey
      /\ new.secret = IF kind = "pair" THEN pair.value.secretKey ELSE seed
  BY DEF NewSecret
<1>2. CASE seedType \in Chainweavers
  <2> DEFINE root == Key("root", mnemonic, 0)
             key == Key("chainweaver", root, Harden(Index))
             child == Extended(key, password)
  <2>1. seed = KadenaEncrypt(password, Extended(root, password))
    BY <1>2 DEF SeedOf, KadenaMnemonicToRootKeypair
  <2>2. Seals(seed, Extended(root, password), password)
    BY <2>1, EncryptSeals
  <2>3. KadenaDecrypt(password, seed) = Result(Extended(root, password))
    BY <2>2, SealsOpens
  <2>4. DerivePrivate(password, Extended(root, password), Harden(Index)) = child
    BY ExtendedIs DEF DerivePrivate
  <2>5. pair = GenKeypair(password, seed, Index)
    BY <1>1, <1>2 DEF CreateWalletPairFromMnemonic, NoResult
  <2>6. pair = Result([publicKey |-> key, secretKey |-> EncryptLegacySecretKey(password, child)])
    BY <2>3, <2>4, <2>5, ResultIs, ExtendedIs DEF GenKeypair
  <2>7. /\ pair.value.publicKey = key
        /\ pair.value.secretKey = EncryptLegacySecretKey(password, child)
    BY <2>6, ResultIs
  <2> HIDE DEF pair, seed, new, root, key
  <2>8. CASE kind = "pair"
    <3>1. /\ Seals(new.secret, Extended(entry.publicKey, password), password)
          /\ new.secret.tail = <<entry.publicKey>>
      BY <1>1, <2>7, <2>8, EncryptLegacySeals, ExtendedIs DEF new
    <3> QED
      BY <1>2, <2>8, <3>1 DEF GoodSecret, new
  <2>9. CASE kind = "seed"
    <3>1. Seals(new.secret, Extended(root, password), password)
      BY <1>1, <2>2, <2>9
    <3>2. entry.publicKey = Key("chainweaver", root, Harden(Index))
      BY <1>1, <2>7 DEF new, key
    <3> QED
      BY <1>2, <2>9, <3>1, <3>2 DEF GoodSecret, new
  <2> QED
    BY <2>8, <2>9
<1>3. CASE seedType \notin Chainweavers
  <2> DEFINE bytes == MnemonicToSeed(mnemonic)
             key == Key("slip10", bytes, Index)
  <2>1. seed = KadenaEncrypt(password, bytes)
    BY <1>3 DEF SeedOf, KadenaMnemonicToSeed
  <2>2. Seals(seed, bytes, password)
    BY <2>1, EncryptSeals
  <2>3. KadenaDecrypt(password, seed) = Result(bytes)
    BY <2>2, SealsOpens
  <2>4. pair = KadenaGenKeypairFromSeed(password, seed, Index)
    BY <1>1, <1>3 DEF CreateWalletPairFromMnemonic, CreateWalletPair, NoResult
  <2>5. DeriveKeyPair(bytes, Index) = [publicKey |-> key, privateKey |-> Hex(key)]
    BY DEF DeriveKeyPair
  <2>6. HexToBin(Hex(key)) = key /\ Length(key) = KeyBytes
    BY ConversionsAre
  <2>7. pair = Result([publicKey |-> key, secretKey |-> KadenaEncrypt(password, key)])
    BY <2>3, <2>4, <2>5, <2>6, ResultIs DEF KadenaGenKeypairFromSeed
  <2>8. pair.value.publicKey = key /\ pair.value.secretKey = KadenaEncrypt(password, key)
    BY <2>7, ResultIs
  <2> HIDE DEF pair, seed, new, key, bytes
  <2>9. CASE kind = "pair"
    <3>1. Seals(new.secret, entry.publicKey, password) /\ Length(entry.publicKey) = KeyBytes
      BY <1>1, <2>8, <2>9, <2>6, EncryptSeals DEF new
    <3> QED
      BY <1>3, <2>9, <3>1 DEF GoodSecret, new
  <2>10. CASE kind = "seed"
    <3>1. Seals(new.secret, bytes, password)
      BY <1>1, <2>2, <2>10
    <3>2. entry.publicKey = Key("slip10", bytes, Index)
      BY <1>1, <2>8 DEF new, key
    <3> QED
      BY <1>3, <2>10, <3>1, <3>2 DEF GoodSecret, new
  <2> QED
    BY <2>9, <2>10
<1> QED
  BY <1>2, <1>3

LEMMA ChangedSecretIsGood ==
  ASSUME NEW entry, NEW secret, NEW new, entry.kind \in {"seed", "pair", "stoic"},
         entry.extended \in BOOLEAN, entry.extended => entry.kind # "stoic",
         GoodSecret(entry, secret, password), ChangeSecret(entry, secret, new).ok
  PROVE  GoodSecret(entry, ChangeSecret(entry, secret, new).value, new)
<1> DEFINE changed == ChangeSecret(entry, secret, new)
           pub == entry.publicKey
<1>1. ASSUME NEW key, entry.extended, Seals(secret, Extended(key, password), password)
      PROVE  /\ Seals(changed.value, Extended(key, new), new)
             /\ changed.value.tail = <<key>>
  <2>1. KadenaDecrypt(password, secret) = Result(Extended(key, password))
    BY <1>1, SealsOpens
  <2>2. VendorChangePassword(Extended(key, password), password, new) = Extended(key, new)
    BY ExtendedIs
  <2>3. changed = Result(EncryptLegacySecretKey(new, Extended(key, new)))
    BY <1>1, <2>1, <2>2, ResultIs DEF ChangeSecret, ChangeLegacyPassword
  <2>4. changed.value = EncryptLegacySecretKey(new, Extended(key, new))
    BY <2>3, ResultIs
  <2> HIDE DEF changed
  <2> QED
    BY <2>4, EncryptLegacySeals, ExtendedIs
<1>2. ASSUME NEW text, ~entry.extended, Seals(secret, text, password)
      PROVE  Seals(changed.value, text, new)
  <2>1. KadenaDecrypt(password, secret) = Result(text)
    BY <1>2, SealsOpens
  <2>2. changed = Result(KadenaEncrypt(new, text))
    BY <1>2, <2>1, ResultIs DEF ChangeSecret, KadenaChangePassword, NoResult
  <2>3. changed.value = KadenaEncrypt(new, text)
    BY <2>2, ResultIs
  <2> HIDE DEF changed
  <2> QED
    BY <2>3, EncryptSeals
<1> HIDE DEF changed
<1>3. CASE entry.extended
  BY <1>1, <1>3 DEF GoodSecret, changed
<1>4. CASE ~entry.extended
  BY <1>2, <1>4 DEF GoodSecret, changed
<1> QED
  BY <1>3, <1>4

-----------------------------------------------------------------------------
(* The inductive invariant *)

(* An entry as the code writes it, under p in both layers. *)
Good(entry, p) ==
  /\ entry = Entry(entry.kind, entry.extended, entry.publicKey, entry.blob)
  /\ entry.kind \in {"seed", "pair", "stoic"} /\ entry.extended \in BOOLEAN
  /\ entry.extended => entry.kind # "stoic"
  /\ p \in Passwords
  /\ \E secret : WellMade(entry.blob, secret, p) /\ GoodSecret(entry, secret, p)

(* A walk has moved the entries it is done with to its own password. *)
PasswordOf(e) == IF job # Idle /\ e \notin job.todo THEN job.password ELSE password

JobOK ==
  \/ job = Idle
  \/ /\ job = [kind |-> job.kind, todo |-> job.todo, password |-> job.password]
     /\ job.kind \in {"upgrade", "rekey"} /\ job.todo \subseteq Present
     /\ job.password \in Passwords
     /\ job.kind = "upgrade" => job.password = password
     /\ job.kind = "rekey" => \A e \in Entries : writers[e] = NoVersion

KeptOK ==
  /\ version \in SchemaVersions /\ password \in Passwords
  /\ writers \in [Entries -> SchemaVersions \cup {NoVersion}]
  /\ loggerThrows \in BOOLEAN
  /\ rekeys \in 0..MaxRekeys /\ restarts \in 0..MaxRestarts

StoreOK ==
  /\ store = [e \in Entries |-> store[e]]
  /\ \A e \in Entries : store[e] # None => Good(store[e], password)

MemoryOK ==
  /\ codex = [e \in Entries |-> codex[e]]
  /\ \A e \in Entries : codex[e] # None => Good(codex[e], PasswordOf(e))

CInv == KeptOK /\ AdviceOK /\ JobOK /\ StoreOK /\ MemoryOK

LEMMA GoodSurvives ==
  ASSUME NEW entry, NEW p, Good(entry, p)
  PROVE  Survives(entry, p)
<1>1. PICK secret : WellMade(entry.blob, secret, p) /\ GoodSecret(entry, secret, p)
  BY DEF Good
<1>2. /\ SmartDecrypt(entry.blob, p) = Opened(secret)
      /\ DecryptStringV2(entry.blob, p) = Opened(secret)
      /\ \A other \in Passwords \ {p} : SmartDecrypt(entry.blob, other) = WrongPasswordError
  BY <1>1, WellMadeOpens
<1>3. Opened(secret).ok = TRUE /\ Opened(secret).value = secret
  BY OutcomesDiffer
<1>4. /\ SignWith(entry, secret, p).ok
      /\ KadenaVerify(SignWith(entry, secret, p).value)
      /\ SignWith(entry, secret, p).value.pubKey = entry.publicKey
      /\ PublicKeyOf(entry, secret, p) = Result(entry.publicKey)
  BY <1>1, GoodSecretSigns DEF Good
<1> QED
  BY <1>2, <1>3, <1>4 DEF Survives

LEMMA InvImpliesSurvive == CInv => SecretsSurvive
  BY GoodSurvives DEF CInv, StoreOK, MemoryOK, PasswordOf, SecretsSurvive

LEMMA GoodIsEntryOK ==
  ASSUME NEW c, NEW e \in Entries, NEW p, Good(c[e], p)
  PROVE  EntryOK(c, e)
<1> DEFINE entry == c[e]
<1>1. PICK secret : WellMade(entry.blob, secret, p) /\ GoodSecret(entry, secret, p)
  BY DEF Good
<1>2. ASSUME NEW text, Seals(secret, text, p)
      PROVE  secret.cipherText.key \in Passwords \X {DEFAULT_ITERATIONS, LegacyIterations}
  BY <1>2 DEF Seals, DeriveKey, Good
<1>3. secret.cipherText.key \in Passwords \X {DEFAULT_ITERATIONS, LegacyIterations}
  BY <1>1, <1>2 DEF GoodSecret
<1> QED
  BY <1>1, <1>3 DEF EntryOK, WellMade, Good

LEMMA InvImpliesTypeOK == CInv => TypeOK
<1> SUFFICES ASSUME CInv PROVE TypeOK
  OBVIOUS
<1>1. ASSUME NEW e \in Entries
      PROVE  /\ store[e] # None => EntryOK(store, e)
             /\ codex[e] # None => EntryOK(codex, e)
  BY GoodIsEntryOK DEF CInv, StoreOK, MemoryOK
<1>2. job.kind \in {"idle", "upgrade", "rekey"} /\ job.todo \subseteq Present
  <2>1. CASE job = Idle
    BY <2>1 DEF Idle
  <2>2. CASE job.kind \in {"upgrade", "rekey"} /\ job.todo \subseteq Present
    BY <2>2
  <2> QED
    BY <2>1, <2>2 DEF CInv, JobOK
<1>3. advised \in Nat
  BY DEF CInv, AdviceOK
<1> QED
  BY <1>1, <1>2, <1>3 DEF CInv, KeptOK, AdviceOK, TypeOK

LEMMA InvImpliesHonest == CInv => OpeningsAreHonest
<1> SUFFICES ASSUME CInv PROVE OpeningsAreHonest
  OBVIOUS
<1>1. advised <= 1 /\ (advised = 1 <=> warned) /\ (legacyOpened => warned)
  BY DEF CInv, AdviceOK
<1>2. ASSUME NEW data \in Strings PROVE data.kdf \in {"V1", "V2"}
  <2>1. CASE data \in Junk
    BY <2>1, JunkAssumption
  <2>2. CASE data \in {codex[e].blob : e \in Present}
    <3>1. PICK e \in Entries : codex[e] # None /\ data = codex[e].blob
      BY <2>2 DEF Present
    <3> QED
      BY <3>1 DEF CInv, MemoryOK, Good, WellMade
  <2> QED
    BY <2>1, <2>2 DEF Strings
<1>3. ASSUME NEW how \in Ways, NEW data \in Strings, NEW pwd \in Passwords
      PROVE  HonestOutcome(how, data, pwd)
  BY <1>2, OutcomesAreHonest
<1> QED
  BY <1>1, <1>3 DEF HonestOutcome, OpeningsAreHonest

-----------------------------------------------------------------------------
(* The steps *)

LEMMA InitInv == Init => CInv
<1> SUFFICES ASSUME Init PROVE CInv
  OBVIOUS
<1>1. KeptOK
  BY BoundAssumption DEF Init, KeptOK, SchemaVersions
<1>2. AdviceOK
  <2>1. warned = FALSE /\ legacyOpened = FALSE /\ advised = 0
    BY DEF Init
  <2>2. ~warned /\ ~legacyOpened
    BY <2>1, Zenon
  <2>3. warned \in BOOLEAN /\ legacyOpened \in BOOLEAN
    BY <2>1, Zenon
  <2> QED
    BY <2>1, <2>2, <2>3, Zenon DEF AdviceOK
<1>4. JobOK
  BY DEF Init, JobOK
<1>3. /\ store = [e \in Entries |-> None] /\ codex = [e \in Entries |-> None]
  BY DEF Init
<1> QED
  BY <1>1, <1>2, <1>3, <1>4 DEF CInv, StoreOK, MemoryOK

LEMMA OpenKeeps ==
  ASSUME CInv, NEW how \in Ways, NEW data, NEW pwd, Open(how, data, pwd)
  PROVE  CInv'
<1>1. AdviceOK'
  BY AdviseKeeps DEF Open, CInv
<1>2. UNCHANGED <<store, version, codex, password, writers, job, loggerThrows, rekeys, restarts>>
  BY DEF Open
<1>3. KeptOK' /\ JobOK' /\ StoreOK' /\ MemoryOK'
  BY <1>2 DEF CInv, KeptOK, JobOK, StoreOK, MemoryOK, PasswordOf, Present
<1> QED
  BY <1>1, <1>3 DEF CInv

LEMMA QuietKeepsAdvice == AdviceOK /\ Quiet => AdviceOK'
  BY DEF AdviceOK, Quiet

LEMMA BeginWriteKeeps ==
  ASSUME CInv, NEW e \in Entries, BeginWrite(e)
  PROVE  CInv'
<1>1. AdviceOK'
  BY QuietKeepsAdvice DEF CInv, BeginWrite
<1>2. KeptOK'
  BY DEF CInv, BeginWrite, KeptOK
<1>3. JobOK' /\ StoreOK' /\ MemoryOK'
  BY DEF CInv, BeginWrite, JobOK, StoreOK, MemoryOK, PasswordOf, Present
<1> QED
  BY <1>1, <1>2, <1>3 DEF CInv

LEMMA RefuseWriteKeeps ==
  ASSUME CInv, NEW e \in Entries, NEW kind, NEW seedType, NEW mnemonic,
         RefuseWrite(e, kind, seedType, mnemonic)
  PROVE  CInv'
<1>1. AdviceOK'
  BY QuietKeepsAdvice DEF CInv, RefuseWrite
<1>2. KeptOK'
  BY DEF CInv, RefuseWrite, KeptOK
<1>3. JobOK' /\ StoreOK' /\ MemoryOK'
  BY DEF CInv, RefuseWrite, JobOK, KeptOK, StoreOK, MemoryOK, PasswordOf, Present
<1> QED
  BY <1>1, <1>2, <1>3 DEF CInv

(* Outside a change of password there is one password. *)
LEMMA OnePassword ==
  ASSUME CInv, job.kind # "rekey", NEW e
  PROVE  PasswordOf(e) = password
  BY DEF CInv, JobOK, PasswordOf

(* An entry put down outside a change of password, under the password. *)
LEMMA PutKeeps ==
  ASSUME CInv, NEW e \in Entries, NEW entry, Good(entry, password), entry # None,
         job.kind # "rekey", Put(e, entry),
         writers' = writers \/ writers' = [writers EXCEPT ![e] = NoVersion]
  PROVE  CInv'
<1>1. /\ codex' = [codex EXCEPT ![e] = entry] /\ store' = codex'
      /\ UNCHANGED <<version, password, job, loggerThrows, rekeys, restarts>> /\ Quiet
  BY DEF Put
<1>2. AdviceOK' /\ KeptOK'
  BY <1>1, QuietKeepsAdvice DEF CInv, KeptOK
<1>3. codex' = [f \in Entries |-> IF f = e THEN entry ELSE codex[f]]
  BY <1>1 DEF CInv, MemoryOK
<1>4. Present \subseteq Present'
  BY <1>3 DEF Present
<1>5. JobOK'
  BY <1>1, <1>4 DEF CInv, JobOK
<1>6. ASSUME NEW f \in Entries, codex'[f] # None
      PROVE  Good(codex'[f], password)
  <2>1. codex[f] # None => Good(codex[f], password)
    BY OnePassword DEF CInv, MemoryOK
  <2> QED
    BY <1>3, <1>6, <2>1
<1>7. \A f : (PasswordOf(f))' = password
  BY <1>1, OnePassword DEF PasswordOf
<1>8. codex' = [f \in Entries |-> codex'[f]]
  BY <1>3
<1>9. StoreOK' /\ MemoryOK'
  <2>1. \A f \in Entries : (codex[f] # None)' => Good(codex[f], password)'
    BY <1>1, <1>6 DEF Good
  <2>2. MemoryOK'
    BY <1>1, <1>7, <1>8, <2>1 DEF MemoryOK, Good
  <2>3. StoreOK'
    BY <1>1, <1>8, <2>1 DEF StoreOK
  <2> QED
    BY <2>2, <2>3
<1> QED
  BY <1>2, <1>5, <1>9 DEF CInv

(* A sound string around a sound secret makes a good entry. *)
LEMMA GoodEntry ==
  ASSUME NEW kind \in {"seed", "pair", "stoic"}, NEW extended \in BOOLEAN,
         extended => kind # "stoic", NEW publicKey, NEW blob,
         NEW secret, NEW p \in Passwords, WellMade(blob, secret, p),
         GoodSecret(Entry(kind, extended, publicKey, blob), secret, p)
  PROVE  /\ Good(Entry(kind, extended, publicKey, blob), p)
         /\ Entry(kind, extended, publicKey, blob) # None
<1> DEFINE entry == Entry(kind, extended, publicKey, blob)
<1>1. /\ entry.kind = kind /\ entry.extended = extended
      /\ entry.publicKey = publicKey /\ entry.blob = blob
  BY EntryIs
<1>2. None.kind = "none"
  BY DEF None
<1>3. entry = Entry(entry.kind, entry.extended, entry.publicKey, entry.blob)
  BY <1>1
<1> HIDE DEF entry
<1>4. entry # None
  BY <1>1, <1>2
<1>5. Good(entry, p)
  BY <1>1, <1>3 DEF Good, entry
<1> QED
  BY <1>4, <1>5 DEF entry

LEMMA WriterBarsRekey ==
  ASSUME CInv, NEW e \in Entries, writers[e] # NoVersion
  PROVE  job.kind # "rekey"
<1>1. CASE job = Idle
  <2>1. Idle.kind = "idle"
    BY DEF Idle
  <2> QED
    BY <1>1, <2>1
<1>2. CASE job.kind = "rekey" => \A f \in Entries : writers[f] = NoVersion
  BY <1>2
<1> QED
  BY <1>1, <1>2 DEF CInv, JobOK

LEMMA EndWriteKeeps ==
  ASSUME CInv, NEW e \in Entries, NEW kind \in {"seed", "pair"}, NEW seedType, NEW mnemonic,
         EndWrite(e, kind, seedType, mnemonic)
  PROVE  CInv'
<1> DEFINE new == NewSecret(kind, seedType, mnemonic)
           extended == seedType \in Chainweavers
           blob == SmartEncrypt(new.secret, password, writers[e])
           entry == Entry(kind, extended, new.publicKey, blob)
<1>1. /\ writers[e] # NoVersion /\ new # None /\ Put(e, entry)
      /\ writers' = [writers EXCEPT ![e] = NoVersion]
  BY DEF EndWrite
<1>2. WellMade(blob, new.secret, password)
  BY SmartEncryptIsWellMade
<1>3. GoodSecret(entry, new.secret, password)
  BY <1>1, NewSecretIsGood, EntryIs
<1>4. password \in Passwords /\ extended \in BOOLEAN
  BY DEF CInv, KeptOK
<1>5. Good(entry, password) /\ entry # None
  <2> HIDE DEF new, extended, blob
  <2> QED
    BY <1>2, <1>3, <1>4, GoodEntry
<1> HIDE DEF entry
<1> QED
  BY <1>1, <1>5, WriterBarsRekey, PutKeeps

LEMMA EndStoicWriteKeeps ==
  ASSUME CInv, NEW e \in Entries, NEW bitString, EndStoicWrite(e, bitString)
  PROVE  CInv'
<1> DEFINE pair == CreateWalletPairFromDalosBitString(bitString, Index)
           secret == WalletEncrypt(password, pair.secretKey)
           blob == SmartEncrypt(secret, password, writers[e])
           entry == Entry("stoic", FALSE, pair.publicKey, blob)
<1>1. /\ writers[e] # NoVersion /\ Put(e, entry)
      /\ writers' = [writers EXCEPT ![e] = NoVersion]
  BY DEF EndStoicWrite
<1>2. WellMade(blob, secret, password)
  BY SmartEncryptIsWellMade
<1>3. pair.secretKey = Hex(pair.publicKey) /\ Length(pair.publicKey) = KeyBytes
  BY ConversionsAre DEF CreateWalletPairFromDalosBitString
<1>4. GoodSecret(entry, secret, password)
  <2>1. Seals(secret, Utf8(Hex(pair.publicKey)), password)
    BY <1>3, EncryptSeals DEF WalletEncrypt
  <2> HIDE DEF secret, pair, blob
  <2>2. entry.kind = "stoic" /\ entry.extended = FALSE /\ entry.publicKey = pair.publicKey
    BY DEF Entry
  <2> HIDE DEF entry
  <2> QED
    BY <1>3, <2>1, <2>2 DEF GoodSecret
<1>5. password \in Passwords
  BY DEF CInv, KeptOK
<1>6. Good(entry, password) /\ entry # None
  BY <1>2, <1>4, <1>5, GoodEntry
<1> HIDE DEF entry
<1> QED
  BY <1>1, <1>6, WriterBarsRekey, PutKeeps

LEMMA ImportBackupKeeps ==
  ASSUME CInv, NEW e \in Entries, NEW mnemonic, NEW length \in Lengths, NEW before \in BOOLEAN,
         ImportBackup(e, mnemonic, length, before)
  PROVE  CInv'
<1> DEFINE seed == MnemonicToSeed(mnemonic)
           secret == IF before THEN KadenaEncryptBefore(password, seed)
                               ELSE KadenaMnemonicToSeed(password, mnemonic)
           publicKey == DeriveKeyPair(seed, Index).publicKey
           blob == [EncryptString(secret, password) EXCEPT !.length = length]
           entry == Entry("seed", FALSE, publicKey, blob)
<1>1. job.kind # "rekey" /\ Put(e, entry) /\ writers' = writers
  BY DEF ImportBackup
<1>2. WellMade(blob, secret, password)
  BY BackupIsWellMade
<1>3. Seals(secret, seed, password)
  BY EncryptSeals DEF KadenaMnemonicToSeed
<1>4. publicKey = Key("slip10", seed, Index)
  BY DEF DeriveKeyPair
<1>5. GoodSecret(entry, secret, password)
  <2> HIDE DEF secret, publicKey, blob, seed
  <2>1. entry.kind = "seed" /\ entry.extended = FALSE /\ entry.publicKey = publicKey
    BY DEF Entry
  <2> HIDE DEF entry
  <2> QED
    BY <1>3, <1>4, <2>1 DEF GoodSecret
<1>6. password \in Passwords
  BY DEF CInv, KeptOK
<1>7. Good(entry, password) /\ entry # None
  BY <1>2, <1>5, <1>6, GoodEntry
<1> HIDE DEF entry
<1> QED
  BY <1>1, <1>7, PutKeeps

(* Walks *)

LEMMA WalkIsNotIdle ==
  ASSUME NEW kind \in {"upgrade", "rekey"}, NEW todo, NEW p
  PROVE  [kind |-> kind, todo |-> todo, password |-> p] # Idle
<1> DEFINE walk == [kind |-> kind, todo |-> todo, password |-> p]
<1>1. walk.kind = kind /\ Idle.kind = "idle"
  BY DEF Idle
<1> HIDE DEF walk
<1>2. walk # Idle
  BY <1>1
<1> QED
  BY <1>2 DEF walk

(* A walk begins with every entry still under the password in force. *)
LEMMA BeginKeeps ==
  ASSUME CInv, NEW kind \in {"upgrade", "rekey"}, NEW p \in Passwords,
         kind = "upgrade" => p = password,
         kind = "rekey" => \A e \in Entries : writers[e] = NoVersion,
         job = Idle, job' = [kind |-> kind, todo |-> Present, password |-> p],
         rekeys' \in 0..MaxRekeys,
         UNCHANGED <<store, version, codex, password, writers, loggerThrows, restarts>>, Quiet
  PROVE  CInv'
<1>1. AdviceOK' /\ KeptOK' /\ StoreOK'
  BY QuietKeepsAdvice DEF CInv, KeptOK, StoreOK
<1>2. job'.kind = kind /\ job'.todo = Present /\ job'.password = p
  OBVIOUS
<1>3. Present' = Present
  BY DEF Present
<1>4. JobOK'
  BY <1>2, <1>3 DEF JobOK
<1>5. ASSUME NEW f \in Entries, codex[f] # None
      PROVE  Good(codex[f], password) /\ (PasswordOf(f))' = password
  <2>1. f \in Present
    BY <1>5 DEF Present
  <2> QED
    BY <1>2, <1>5, <2>1 DEF CInv, MemoryOK, PasswordOf
<1>6. MemoryOK'
  BY <1>5 DEF CInv, MemoryOK, Good
<1> QED
  BY <1>1, <1>4, <1>6 DEF CInv

LEMMA BeginUpgradeKeeps ==
  ASSUME CInv, BeginUpgrade
  PROVE  CInv'
<1>1. password \in Passwords /\ rekeys \in 0..MaxRekeys
  BY DEF CInv, KeptOK
<1> QED
  BY <1>1, BeginKeeps DEF BeginUpgrade

LEMMA BeginRekeyKeeps ==
  ASSUME CInv, NEW new \in Passwords, BeginRekey(new)
  PROVE  CInv'
<1>1. rekeys' \in 0..MaxRekeys
  BY BoundAssumption DEF CInv, KeptOK, BeginRekey
<1> QED
  BY <1>1, BeginKeeps DEF BeginRekey

(* A process that has dropped its codex for the stored one. *)
LEMMA ReadBackKeeps ==
  ASSUME CInv, codex' = store, job' = Idle, UNCHANGED <<store, password>>
  PROVE  JobOK' /\ StoreOK' /\ MemoryOK'
<1>1. JobOK' /\ StoreOK'
  BY DEF CInv, JobOK, StoreOK
<1>2. \A f : (PasswordOf(f))' = password
  BY DEF PasswordOf
<1>3. MemoryOK'
  BY <1>2 DEF CInv, StoreOK, MemoryOK, Good
<1> QED
  BY <1>1, <1>3

LEMMA RewrittenEntryIs ==
  ASSUME NEW entry, NEW blob,
         entry = Entry(entry.kind, entry.extended, entry.publicKey, entry.blob)
  PROVE  [entry EXCEPT !.blob = blob]
           = Entry(entry.kind, entry.extended, entry.publicKey, blob)
  BY DEF Entry

LEMMA WalkKeeps ==
  ASSUME CInv, NEW e \in Entries, Walk(e)
  PROVE  CInv'
<1> DEFINE data == codex[e].blob
           rewritten == Rewritten(e)
           blob == SmartEncrypt(rewritten.value, job.password,
                                IF job.kind = "upgrade" THEN "1" ELSE version)
           entry == Entry(codex[e].kind, codex[e].extended, codex[e].publicKey, blob)
<1>1. /\ e \in job.todo /\ Advise("smartDecrypt", data, password)
      /\ UNCHANGED <<store, version, password, writers, loggerThrows, rekeys, restarts>>
  BY DEF Walk
<1>2. \/ codex' = store /\ job' = Idle
      \/ /\ rewritten.ok
         /\ codex' = [codex EXCEPT ![e].blob = blob]
         /\ job' = [job EXCEPT !.todo = @ \ {e}]
  BY DEF Walk
<1>3. AdviceOK'
  BY <1>1, AdviseKeeps DEF CInv, Ways
<1>4. KeptOK'
  BY <1>1 DEF CInv, KeptOK
<1>5. CASE codex' = store /\ job' = Idle
  BY <1>1, <1>3, <1>4, <1>5, ReadBackKeeps DEF CInv
<1>6. CASE /\ rewritten.ok
           /\ codex' = [codex EXCEPT ![e].blob = blob]
           /\ job' = [job EXCEPT !.todo = @ \ {e}]
  <2>1. job # Idle
    <3>1. Idle.todo = {}
      BY DEF Idle
    <3> QED
      BY <1>1, <3>1
  <2>2. /\ job = [kind |-> job.kind, todo |-> job.todo, password |-> job.password]
        /\ job.kind \in {"upgrade", "rekey"} /\ job.todo \subseteq Present
        /\ job.password \in Passwords
        /\ job.kind = "upgrade" => job.password = password
        /\ job.kind = "rekey" => \A f \in Entries : writers[f] = NoVersion
    BY <2>1 DEF CInv, JobOK
  <2>3. codex[e] # None
    BY <1>1, <2>2 DEF Present
  <2>4. Good(codex[e], password)
    BY <1>1, <2>3 DEF CInv, MemoryOK, PasswordOf
  <2>5. PICK secret : WellMade(data, secret, password) /\ GoodSecret(codex[e], secret, password)
    BY <2>4 DEF Good
  <2>6. SmartDecrypt(data, password).value = secret
    BY <2>5, WellMadeOpens, OutcomesDiffer
  <2>7. GoodSecret(codex[e], rewritten.value, job.password)
    <3>1. CASE job.kind = "upgrade"
      <4>1. rewritten = Result(secret)
        BY <2>6, <3>1 DEF Rewritten
      <4> HIDE DEF rewritten
      <4> QED
        BY <2>2, <2>5, <3>1, <4>1, ResultIs
    <3>2. CASE job.kind = "rekey"
      <4>1. rewritten = ChangeSecret(codex[e], secret, job.password)
        BY <2>6, <3>2 DEF Rewritten
      <4> HIDE DEF rewritten
      <4> QED
        BY <1>6, <2>4, <2>5, <4>1, ChangedSecretIsGood DEF Good
    <3> QED
      BY <2>2, <3>1, <3>2
  <2>8. WellMade(blob, rewritten.value, job.password)
    BY SmartEncryptIsWellMade
  <2> HIDE DEF rewritten, blob
  <2>9. Good(entry, job.password) /\ entry # None
    <3>1. SameKey(codex[e], entry)
      BY EntryIs DEF SameKey
    <3>2. GoodSecret(entry, rewritten.value, job.password)
      BY <2>7, <3>1, GoodSecretIsOfTheKey
    <3>3. /\ codex[e].kind \in {"seed", "pair", "stoic"} /\ codex[e].extended \in BOOLEAN
          /\ codex[e].extended => codex[e].kind # "stoic"
      BY <2>4 DEF Good
    <3> QED
      BY <2>2, <2>8, <3>2, <3>3, GoodEntry
  <2>10. [codex[e] EXCEPT !.blob = blob] = entry
    BY <2>4, RewrittenEntryIs DEF Good
  <2>11. codex' = [f \in Entries |-> IF f = e THEN entry ELSE codex[f]]
    <3>1. codex' = [codex EXCEPT ![e] = [codex[e] EXCEPT !.blob = blob]]
      BY <1>6
    <3>2. codex' = [codex EXCEPT ![e] = entry]
      BY <2>10, <3>1
    <3>3. codex = [f \in Entries |-> codex[f]]
      BY DEF CInv, MemoryOK
    <3> HIDE DEF entry
    <3> QED
      BY <3>2, <3>3
  <2> HIDE DEF entry
  <2>12. /\ job' = [kind |-> job.kind, todo |-> job.todo \ {e}, password |-> job.password]
         /\ job'.kind = job.kind /\ job'.todo = job.todo \ {e} /\ job'.password = job.password
    BY <1>6, <2>2
  <2>13. job' # Idle
    BY <2>2, <2>12, WalkIsNotIdle
  <2>14. JobOK'
    <3>1. Present \subseteq Present'
      BY <2>9, <2>11 DEF Present
    <3> QED
      BY <1>1, <2>2, <2>12, <3>1 DEF JobOK
  <2>15. ASSUME NEW f \in Entries, codex'[f] # None
         PROVE  Good(codex'[f], (PasswordOf(f))')
    <3>1. CASE f = e
      <4>1. (PasswordOf(f))' = job.password
        BY <2>12, <2>13, <3>1 DEF PasswordOf
      <4>2. codex'[f] = entry
        BY <2>11, <3>1
      <4> QED
        BY <2>9, <4>1, <4>2
    <3>2. CASE f # e
      <4>1. (PasswordOf(f))' = PasswordOf(f)
        BY <1>1, <2>1, <2>12, <2>13, <3>2 DEF PasswordOf
      <4>2. codex'[f] = codex[f]
        BY <2>11, <3>2
      <4> QED
        BY <2>15, <4>1, <4>2 DEF CInv, MemoryOK
    <3> QED
      BY <3>1, <3>2
  <2>16. MemoryOK'
    <3>1. codex' = [f \in Entries |-> codex'[f]]
      BY <2>11
    <3> QED
      BY <2>15, <3>1 DEF MemoryOK, Good
  <2>17. StoreOK'
    BY <1>1 DEF CInv, StoreOK
  <2> QED
    BY <1>3, <1>4, <2>14, <2>16, <2>17 DEF CInv
<1> QED
  BY <1>2, <1>5, <1>6

LEMMA SaveKeeps ==
  ASSUME CInv, Save
  PROVE  CInv'
<1>1. /\ job # Idle /\ job.todo = {}
      /\ store' = codex /\ password' = job.password
      /\ UNCHANGED <<version, codex, writers, job, loggerThrows, rekeys, restarts>> /\ Quiet
  BY DEF Save
<1>2. AdviceOK'
  BY <1>1, QuietKeepsAdvice DEF CInv
<1>3. job.password \in Passwords
  BY <1>1 DEF CInv, JobOK
<1>4. KeptOK'
  BY <1>1, <1>3 DEF CInv, KeptOK
<1>5. Present' = Present
  BY <1>1 DEF Present
<1>6. JobOK'
  BY <1>1, <1>5 DEF CInv, JobOK
<1>7. \A f : PasswordOf(f) = job.password /\ (PasswordOf(f))' = job.password
  BY <1>1 DEF PasswordOf
<1>8. MemoryOK'
  BY <1>1, <1>7 DEF CInv, MemoryOK, Good
<1>9. StoreOK'
  BY <1>1, <1>7 DEF CInv, MemoryOK, StoreOK, Good
<1> QED
  BY <1>2, <1>4, <1>6, <1>8, <1>9 DEF CInv

LEMMA FinishKeeps ==
  ASSUME CInv, Finish
  PROVE  CInv'
<1>1. /\ codex' = store /\ job' = Idle /\ Quiet
      /\ version' = IF job.kind = "upgrade" THEN "1" ELSE version
      /\ UNCHANGED <<store, codex, password, writers, loggerThrows, rekeys, restarts>>
  BY DEF Finish
<1>2. AdviceOK'
  BY <1>1, QuietKeepsAdvice DEF CInv
<1>3. KeptOK'
  BY <1>1 DEF CInv, KeptOK, SchemaVersions
<1> QED
  BY <1>1, <1>2, <1>3, ReadBackKeeps DEF CInv

LEMMA RestartKeeps ==
  ASSUME CInv, Restart
  PROVE  CInv'
<1>1. /\ codex' = store /\ job' = Idle /\ writers' = [e \in Entries |-> NoVersion]
      /\ warned' = FALSE /\ advised' = 0 /\ legacyOpened' = FALSE
      /\ loggerThrows' \in BOOLEAN /\ restarts < MaxRestarts /\ restarts' = restarts + 1
      /\ UNCHANGED <<store, version, password, rekeys>>
  BY DEF Restart
<1>2. AdviceOK'
  <2>1. ~warned' /\ ~legacyOpened' /\ warned' \in BOOLEAN /\ legacyOpened' \in BOOLEAN
    BY <1>1, Zenon
  <2> QED
    BY <1>1, <2>1, Zenon DEF AdviceOK
<1>3. KeptOK'
  BY <1>1, BoundAssumption DEF CInv, KeptOK
<1> QED
  BY <1>1, <1>2, <1>3, ReadBackKeeps DEF CInv

LEMMA StutterKeeps == CInv /\ UNCHANGED vars => CInv'
<1> SUFFICES ASSUME CInv, UNCHANGED vars PROVE CInv'
  OBVIOUS
<1>1. AdviceOK' /\ KeptOK' /\ StoreOK'
  BY QuietKeepsAdvice DEF vars, CInv, Quiet, KeptOK, StoreOK
<1>2. JobOK' /\ MemoryOK'
  BY DEF vars, CInv, JobOK, MemoryOK, PasswordOf, Present
<1> QED
  BY <1>1, <1>2 DEF CInv

LEMMA NextKeeps == CInv /\ [Next]_vars => CInv'
<1> SUFFICES ASSUME CInv, [Next]_vars PROVE CInv'
  OBVIOUS
<1>1. ASSUME NEW how \in Ways, NEW data \in Strings, NEW pwd \in Passwords, Open(how, data, pwd)
      PROVE  CInv'
  BY <1>1, OpenKeeps
<1>2. ASSUME NEW e \in Entries, NEW mnemonic \in Mnemonics, NEW kind \in {"seed", "pair"},
             NEW seedType \in SeedTypes, EndWrite(e, kind, seedType, mnemonic)
      PROVE  CInv'
  BY <1>2, EndWriteKeeps
<1>3. ASSUME NEW e \in Entries, NEW mnemonic \in Mnemonics, NEW kind \in {"seed", "pair"},
             NEW seedType \in SeedTypes, RefuseWrite(e, kind, seedType, mnemonic)
      PROVE  CInv'
  BY <1>3, RefuseWriteKeeps
<1>4. ASSUME NEW e \in Entries, NEW mnemonic \in Mnemonics, NEW length \in Lengths,
             NEW before \in BOOLEAN, ImportBackup(e, mnemonic, length, before)
      PROVE  CInv'
  BY <1>4, ImportBackupKeeps
<1>5. ASSUME NEW e \in Entries, NEW bitString \in BitStrings, EndStoicWrite(e, bitString)
      PROVE  CInv'
  BY <1>5, EndStoicWriteKeeps
<1>6. ASSUME NEW e \in Entries, BeginWrite(e)
      PROVE  CInv'
  BY <1>6, BeginWriteKeeps
<1>7. ASSUME NEW e \in Entries, Walk(e)
      PROVE  CInv'
  BY <1>7, WalkKeeps
<1>8. ASSUME NEW new \in Passwords, BeginRekey(new)
      PROVE  CInv'
  BY <1>8, BeginRekeyKeeps
<1>9. CASE BeginUpgrade
  BY <1>9, BeginUpgradeKeeps
<1>10. CASE Save
  BY <1>10, SaveKeeps
<1>11. CASE Finish
  BY <1>11, FinishKeeps
<1>12. CASE Restart
  BY <1>12, RestartKeeps
<1>13. CASE UNCHANGED vars
  BY <1>13, StutterKeeps
<1> QED
  BY <1>1, <1>2, <1>3, <1>4, <1>5, <1>6, <1>7, <1>8, <1>9, <1>10, <1>11, <1>12, <1>13 DEF Next

-----------------------------------------------------------------------------
(* The theorems *)

(* Every entry, in the store and in memory, is an envelope of crypto/ that *)
(* opens to a secret of hd-wallet/ under one and the same password: that   *)
(* of the codex, or, for what a change of password has already rewritten,  *)
(* the new one; and the advisory flag agrees with the advisories given.    *)
THEOREM CodexInvariance == Spec => []CInv
<1> QED
  BY InitInv, NextKeeps, PTL DEF Spec

(* The codex keeps its shape: smartEncrypt and encryptString's fields, the *)
(* schema versions, the writers and the walk under way.                    *)
THEOREM CodexTypeCorrect == Spec => []TypeOK
<1> QED
  BY CodexInvariance, InvImpliesTypeOK, PTL

(* No upgrade, change of password, backup or restart leaves an entry that  *)
(* smartDecrypt and decryptStringV2 do not open, or that signs as another  *)
(* public key than its own (kadenaChangePassword, changePassword's two     *)
(* layers), and no other password opens one.                               *)
THEOREM SecretsAlwaysSurvive == Spec => []SecretsSurvive
<1> QED
  BY CodexInvariance, InvImpliesSurvive, PTL

(* What decryptString, decryptStringV2 and smartDecrypt say of a string is *)
(* so, whatever string they are given, and a process that has opened a V1  *)
(* string has been advised exactly once (emitV1WarningOnce).               *)
THEOREM OpeningsStayHonest == Spec => []OpeningsAreHonest
<1> QED
  BY CodexInvariance, InvImpliesHonest, PTL
=============================================================================
