------------------------------ MODULE MCCodex ------------------------------
(* Small instances of Codex: two entries, two passwords, and strings that   *)
(* fail to parse, lack a field or have one that is null, say another        *)
(* version, are pooled, or have a damaged ciphertext.                       *)
EXTENDS Codex, TLC

CONSTANTS e1, e2
MCEntries == {e1, e2}
Symmetry == Permutations(MCEntries)
MCPasswords == {"old", "new"}
MCMnemonics == {GenerateMnemonic(24).value, [words |-> 12, checks |-> FALSE]}
MCBitStrings == {[bits |-> "genesis"]}

V1 == EncryptString([name |-> "text"], "old")
V2 == EncryptStringV2([name |-> "text"], "old")
MCJunk ==
  {[V1 EXCEPT !.parses = "fails"], [V1 EXCEPT !.parses = "other"],
   [V1 EXCEPT !.fields = "absent"], [V2 EXCEPT !.fields = "null"],
   [V2 EXCEPT !.intact = FALSE], [V2 EXCEPT !.v = "other"], [V1 EXCEPT !.v = "other"],
   [V1 EXCEPT !.length = "pooled"], [V2 EXCEPT !.length = "pooled"]}
=============================================================================
