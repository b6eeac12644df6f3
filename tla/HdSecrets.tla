----------------------------- MODULE HdSecrets -----------------------------
(***************************************************************************)
(* hd-wallet/: the two families of keys of a codex and their own           *)
(* encryption, an EncryptedString.  A SLIP-10 seed derives private keys    *)
(* that are encrypted as they are.  A Chainweaver key is an extended key   *)
(* that its library has already scrambled under the password, with no tag: *)
(* under another password it becomes some other key, and nothing fails.    *)
(* It is encrypted again, so that two layers have the same password.       *)
(*                                                                         *)
(* Keys are paths from their seed, and a public key goes by the name of    *)
(* its key.  Private keys are 32 bytes; they travel as bytes or as hex     *)
(* text, and a text that is encrypted is its UTF-8 bytes, twice as long:   *)
(* the conversions are kept apart.  Scrambling and AES-GCM are external.   *)
(***************************************************************************)
EXTENDS Integers, Sequences

NoResult == [ok |-> FALSE]
Result(value) == [ok |-> TRUE, value |-> value]

Key(way, from, by) == [way |-> way, from |-> from, by |-> by]

(* cryptography-utils/binToHex and hexToBin; Buffer.from(text), and back.  *)
Hex(bytes) == [hex |-> bytes]
HexToBin(text) == text.hex

Utf8(text) == Key("utf8", text, 0)
FromUtf8(bytes) == bytes.from

KeyBytes == 32
Length(bytes) == IF bytes.way = "utf8" THEN 2 * KeyBytes ELSE KeyBytes

-----------------------------------------------------------------------------
(* utils/: salt, IV, ciphertext and iterations joined by dots.  Older      *)
(* versions wrote no iterations and used 1000; a Chainweaver key has its   *)
(* public key as a fifth part.                                             *)

DEFAULT_ITERATIONS == 310000
LegacyIterations   == 1000

DeriveKey(password, iterations) == <<password, iterations>>

Encrypt(text, password) ==
  [cipherText |-> [key |-> DeriveKey(password, DEFAULT_ITERATIONS), text |-> text],
   iterations |-> DEFAULT_ITERATIONS, tail |-> << >>]

DecryptBug(encrypted, password) ==       \* today's iterations, always
  IF encrypted.cipherText.key = DeriveKey(password, DEFAULT_ITERATIONS)
  THEN Result(encrypted.cipherText.text) ELSE NoResult

Decrypt(encrypted, password) ==
  LET iterations == IF encrypted.iterations = 0 THEN LegacyIterations ELSE encrypted.iterations
  IN IF encrypted.cipherText.key = DeriveKey(password, iterations)
     THEN Result(encrypted.cipherText.text) ELSE NoResult

KadenaEncrypt(password, bytes) == Encrypt(bytes, password)

(* KadenaWalletBuilder.encrypt takes a text, which kadenaEncrypt makes its *)
(* UTF-8 bytes; what decrypt gives back are bytes.                         *)
WalletEncrypt(password, text) == KadenaEncrypt(password, Utf8(text))

(* What a version before the iterations were recorded wrote. *)
KadenaEncryptBefore(password, message) ==
  [cipherText |-> [key |-> DeriveKey(password, LegacyIterations), text |-> message],
   iterations |-> 0, tail |-> << >>]

KadenaDecrypt(password, encryptedData) == Decrypt(encryptedData, password)

(* kadenaChangePassword of the package: for what only it encrypted. *)
MayChange(password, newPassword) ==
  /\ password # "" /\ newPassword # ""
  /\ password # newPassword

KadenaChangePassword(password, data, newPassword) ==
  LET opened == KadenaDecrypt(password, data)
  IN IF MayChange(password, newPassword) /\ opened.ok
     THEN Result(KadenaEncrypt(newPassword, opened.value)) ELSE NoResult

-----------------------------------------------------------------------------
(* SLIP10/: m'/44'/626'/<index>'. *)

MnemonicToSeed(mnemonic) == Key("bip39", mnemonic, 0)

DeriveKeyPair(seed, index) ==
  LET key == Key("slip10", seed, index) IN [publicKey |-> key, privateKey |-> Hex(key)]

KadenaMnemonicToSeed(password, mnemonic) == KadenaEncrypt(password, MnemonicToSeed(mnemonic))

KadenaGenKeypairFromSeedBug(password, seed, index) ==   \* the text, not Buffer.from(.., 'hex')
  LET opened == KadenaDecrypt(password, seed)
      pair == DeriveKeyPair(opened.value, index)
  IN IF opened.ok
     THEN Result([publicKey |-> pair.publicKey,
                  secretKey |-> WalletEncrypt(password, pair.privateKey)])
     ELSE NoResult

KadenaGenKeypairFromSeed(password, seed, index) ==
  LET opened == KadenaDecrypt(password, seed)
      pair == DeriveKeyPair(opened.value, index)
  IN IF opened.ok
     THEN Result([publicKey |-> pair.publicKey,
                  secretKey |-> KadenaEncrypt(password, HexToBin(pair.privateKey))])
     ELSE NoResult

SlipPublicKey(password, seed, index) ==
  LET opened == KadenaDecrypt(password, seed)
  IN IF opened.ok THEN Result(DeriveKeyPair(opened.value, index).publicKey) ELSE NoResult

(* A signature is the key that made it, and the public key it is said of.  *)
Signature(sig, publicKey) == [sig |-> sig, pubKey |-> publicKey]

(* nacl wants the 64 bytes of the private key and the public key.          *)
SignHash(publicKey, secretKey) ==
  LET bytes == HexToBin(secretKey)
  IN IF Length(bytes) + KeyBytes = 64 THEN Result(Signature(bytes, publicKey)) ELSE NoResult

SignWithKeyPair(publicKey, secretKey) == SignHash(publicKey, secretKey)

SignWithSeed(seed, index) ==
  LET pair == DeriveKeyPair(seed, index) IN SignWithKeyPair(pair.publicKey, pair.privateKey)

KadenaVerify(signed) == signed.sig = signed.pubKey

KadenaSignWithKeyPair(password, publicKey, encryptedPrivateKey) ==
  LET opened == KadenaDecrypt(password, encryptedPrivateKey)
  IN IF opened.ok THEN SignWithKeyPair(publicKey, Hex(opened.value)) ELSE NoResult

KadenaSignWithSeed(password, seed, index) ==
  LET opened == KadenaDecrypt(password, seed)
  IN IF opened.ok THEN SignWithSeed(opened.value, index) ELSE NoResult

-----------------------------------------------------------------------------
(* chainweaver/: an extended key [publicKey, key, scrambled]. *)

Unscramble(password, xprv) ==
  IF xprv.scrambled = password THEN xprv.key
  ELSE Key("noise", xprv.key, password)

Extended(key, password) == [publicKey |-> key, key |-> key, scrambled |-> password]

HARDENED_OFFSET == 1000
Harden(n) == HARDENED_OFFSET + n

DerivePrivate(password, xprv, index) ==
  Extended(Key("chainweaver", Unscramble(password, xprv), index), password)

VendorChangePassword(xprv, oldPassword, newPassword) ==   \* keeps the public key
  [publicKey |-> xprv.publicKey, key |-> Unscramble(oldPassword, xprv), scrambled |-> newPassword]

EncryptLegacySecretKey(password, xprv) ==
  [KadenaEncrypt(password, xprv) EXCEPT !.tail = <<xprv.publicKey>>]

GetPublicKeyFromLegacySecretKey(data) == data.tail[1]

KadenaMnemonicToRootKeypair(password, mnemonic) ==
  KadenaEncrypt(password, Extended(Key("root", mnemonic, 0), password))

GenKeypair(password, rootKey, index) ==
  LET opened == KadenaDecrypt(password, rootKey)
      child == DerivePrivate(password, opened.value, Harden(index))
  IN IF opened.ok
     THEN Result([publicKey |-> child.publicKey,
                  secretKey |-> EncryptLegacySecretKey(password, child)])
     ELSE NoResult

(* The index is the library's own here: the caller hardens it. *)
GetPublicFromRootKey(password, rootKey, index) ==
  LET opened == KadenaDecrypt(password, rootKey)
  IN IF opened.ok THEN Result(DerivePrivate(password, opened.value, index).publicKey)
                  ELSE NoResult

ChangeLegacyPasswordBug(password, data, newPassword) ==   \* the outer layer only
  LET opened == KadenaDecrypt(password, data)
  IN IF opened.ok THEN Result(EncryptLegacySecretKey(newPassword, opened.value)) ELSE NoResult

ChangeLegacyPassword(password, data, newPassword) ==
  LET opened == KadenaDecrypt(password, data)
  IN IF opened.ok
     THEN Result(EncryptLegacySecretKey(newPassword,
                   VendorChangePassword(opened.value, password, newPassword)))
     ELSE NoResult

KadenaSign(password, secretKey) ==
  LET opened == KadenaDecrypt(password, secretKey)
  IN IF opened.ok THEN Result(Unscramble(password, opened.value)) ELSE NoResult

KadenaSignFromRootKey(password, rootKey, index) ==
  LET pair == GenKeypair(password, rootKey, index)
  IN IF pair.ok THEN KadenaSign(password, pair.value.secretKey) ELSE NoResult

-----------------------------------------------------------------------------
(* wallet/KadenaWalletBuilder.ts.  Both checks of a mnemonic are those of   *)
(* BIP39, whatever the number of its words; koala is the default branch,   *)
(* which "stoic" falls into.                                               *)

Chainweavers == {"chainweaver", "eckowallet"}
SeedTypes == Chainweavers \cup {"koala", "stoic"}

KadenaCheckMnemonic(mnemonic) == mnemonic.checks
ValidateMnemonic(mnemonic)    == mnemonic.checks

IsValidMnemonic(mnemonic, seedType) ==   \* "none": dispatch on the words
  CASE seedType \in Chainweavers -> KadenaCheckMnemonic(mnemonic)
    [] seedType = "stoic"        -> FALSE
    [] seedType = "none"         -> mnemonic.words \in {12, 24} /\ mnemonic.checks
    [] OTHER                     -> ValidateMnemonic(mnemonic)

GenerateMnemonic(length) ==
  IF length \in {12, 24} THEN Result([words |-> length, checks |-> TRUE]) ELSE NoResult

CreateWalletPair(password, seed, index) == KadenaGenKeypairFromSeed(password, seed, index)

SeedOf(password, mnemonic, seedType) ==
  IF seedType \in Chainweavers THEN KadenaMnemonicToRootKeypair(password, mnemonic)
                               ELSE KadenaMnemonicToSeed(password, mnemonic)

MayDerive(mnemonic, seedType) ==
  IF seedType \in Chainweavers THEN KadenaCheckMnemonic(mnemonic)
                               ELSE ValidateMnemonic(mnemonic)

CreateWalletPairFromMnemonic(password, mnemonic, index, seedType) ==
  LET seed == SeedOf(password, mnemonic, seedType)
  IN IF ~MayDerive(mnemonic, seedType) THEN NoResult
     ELSE IF seedType \in Chainweavers THEN GenKeypair(password, seed, index)
          ELSE CreateWalletPair(password, seed, index)

CreateWalletPairFromDalosBitString(bitString, index) ==
  LET key == Key("dalos", bitString, index)
  IN [publicKey |-> key, secretKey |-> Hex(key), address |-> [prefix |-> "k:", of |-> key]]
=============================================================================
