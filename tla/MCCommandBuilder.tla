-------------------------- MODULE MCCommandBuilder --------------------------
(* Small instances of CommandBuilder: two keys, two capabilities, and       *)
(* templates with and without signers.                                      *)
EXTENDS CommandBuilder

CONSTANTS a, b, gas, b1, b2, d

MCKeys == {a, b}
MCCaps == {gas}
MCBuilders == {b1, b2}
MCData == {d}

Unscoped == [listed |-> FALSE, caps |-> << >>]
Scoped(c) == [listed |-> TRUE, caps |-> <<c>>]

(* A continuation without signers, and signers alone, one key listed twice. *)
Bare == [cmd |-> [meta |-> [chainId |-> Given],
                  payload |-> [kind |-> "cont", code |-> << >>, data |-> {d}, proof |-> "undefined"]],
         heap |-> << >>]
Signed == [cmd |-> [signers |-> <<1, 2>>],
           heap |-> <<[key |-> a, clist |-> Scoped(gas)], [key |-> a, clist |-> Unscoped]>>]
MCTemplates == {Bare, Signed}

MCSteps ==
  {[op |-> "addData", key |-> d],
   [op |-> "addSigner", keys |-> <<a>>, clist |-> Scoped(gas)],
   [op |-> "addSigner", keys |-> <<b, a>>, clist |-> Unscoped],
   [op |-> "addVerifier", clist |-> Scoped(gas)],
   [op |-> "setMeta", fields |-> {"chainId", "creationTime"}],
   [op |-> "setNetworkId"],
   [op |-> "setNonce", own |-> FALSE]}

Symmetry == Permutations(MCBuilders)
=============================================================================
