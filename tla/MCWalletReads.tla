--------------------------- MODULE MCWalletReads ---------------------------
(* Small instances of WalletReads: two nodes, two calls, an account that is *)
(* created, funded and spent from, with balances of one and of two groups   *)
(* of three digits, of three decimals and of more than a literal may have.  *)
EXTENDS WalletReads

CONSTANTS n1, n2, c1, c2
MCHosts == {n1, n2}
MCCalls == {c1, c2}
Symmetry == Permutations(MCCalls)
MCPins == {"none", "", n1}
MCMessages == {{"balance", "keyset"}, {"Gas limit", "exceeded", "row not found"}}

Wrapped(text) == [status |-> "success", data |-> [shape |-> "wrapped", decimal |-> text]]
Plain(text) == [status |-> "success", data |-> [shape |-> "plain", plain |-> text]]
MCLedger ==
  <<[status |-> "failure", phrases |-> {"row not found"}],
    Wrapped(Decimal(<<1, 2, 3, 4, 5, 6, 7>>, <<0, 4, 0, 0, 5>>)),
    Plain(Decimal(<<6, 0, 8>>, <<1, 2, 5>>))>>
Round == <<MCLedger[1], Wrapped(Integer(<<1, 2, 3, 4, 5, 6, 7>>))>>
=============================================================================
