----------------------------- MODULE Envelopes -----------------------------
(***************************************************************************)
(* crypto/v1.ts and crypto/v2.ts: the encrypted strings of a codex.  An    *)
(* envelope is base64 of JSON with a version marker, an initialisation     *)
(* vector, a salt and a ciphertext.  PBKDF2 and AES-GCM are external: a    *)
(* ciphertext opens under the derivation, the password and the IV and salt *)
(* it was made with, and otherwise fails its authentication tag.           *)
(*                                                                         *)
(* Everything here is an operator; Codex is the state machine that uses    *)
(* them.  An outcome is [ok, value, error].                                *)
(***************************************************************************)

(* How a string can parse, how its three fields can decode from base64 (an *)
(* absent one does not: atob reads the word undefined; null and some       *)
(* numbers do), and whether its IV and salt have the bytes of a pooled     *)
(* buffer behind their own.                                                *)
Parses  == {"object", "other", "fails"}
Fields  == {"strings", "absent", "null"}
Lengths == {"exact", "pooled"}
Marks   == {"none", "two", "other"}   \* the member v

EncryptedData(passwords, values) ==
  [parses : Parses, v : Marks, fields : Fields, length : Lengths,
   kdf : {"V1", "V2"}, password : passwords, value : values, intact : BOOLEAN]

Opened(value) == [ok |-> TRUE, value |-> value, error |-> "none"]
Failed(error) == [ok |-> FALSE, value |-> [none |-> TRUE], error |-> error]
CorruptEnvelopeError == Failed("CorruptEnvelopeError")
WrongPasswordError   == Failed("WrongPasswordError")

Envelope(v, kdf, value, password) ==
  [parses |-> "object", v |-> v, fields |-> "strings", length |-> "exact",
   kdf |-> kdf, password |-> password, value |-> value, intact |-> TRUE]

EncryptString(value, password)   == Envelope("none", "V1", value, password)
EncryptStringV2(value, password) == Envelope("two", "V2", value, password)

(* deriveKey and decrypt with the parameters of kdf; truncated: the IV was *)
(* cut to 12 bytes and the salt to 16.                                     *)
AesGcm(data, kdf, password, truncated) ==
  IF /\ data.fields = "strings" /\ data.intact
     /\ data.kdf = kdf /\ data.password = password
     /\ truncated \/ data.length = "exact"
  THEN Opened(data.value) ELSE WrongPasswordError

(* The three checks both decoders make before any key is derived. *)
Malformed(data) ==
  data.parses # "object" \/ data.fields = "absent"

DecryptStringBug(data, password) ==      \* no truncation of pooled buffers
  IF Malformed(data) THEN CorruptEnvelopeError ELSE AesGcm(data, "V1", password, FALSE)

DecryptString(data, password) ==
  IF Malformed(data) THEN CorruptEnvelopeError ELSE AesGcm(data, "V1", password, TRUE)

IsEncryptedV2(data) == data.parses = "object" /\ data.v = "two"

DecryptStringV2(data, password) ==
  IF Malformed(data) THEN CorruptEnvelopeError
  ELSE IF IsEncryptedV2(data) THEN AesGcm(data, "V2", password, FALSE)
       ELSE AesGcm(data, "V1", password, TRUE)

(* The advisory about V1: decryptStringV2 gives it once a V1 string has    *)
(* opened, smartDecrypt before it tries.                                   *)
LegacyAdviceV2(data, password) ==
  ~IsEncryptedV2(data) /\ DecryptStringV2(data, password).ok

LegacyAdviceSmart(data) == ~IsEncryptedV2(data)

SmartDecryptBug(data, password) == DecryptString(data, password)

SmartDecrypt(data, password) ==
  IF IsEncryptedV2(data) THEN DecryptStringV2(data, password)
                         ELSE DecryptString(data, password)

(* What isCodexUpgraded makes of the stored version: absent, zero, one or  *)
(* more, or no number at all (parseInt gives NaN, which is not >= 1).      *)
SchemaVersions == {"absent", "0", "1", "2", "garbage"}

IsCodexUpgraded(version) == version \in {"1", "2"}

SmartEncryptBug(value, password, version) ==      \* arguments in the wrong order
  IF IsCodexUpgraded(version) THEN EncryptStringV2(value, version)
                              ELSE EncryptString(value, version)

SmartEncrypt(value, password, version) ==
  IF IsCodexUpgraded(version) THEN EncryptStringV2(value, password)
                              ELSE EncryptString(value, password)
=============================================================================
