-------------------------- MODULE MCCodexStrategy --------------------------
(* Small instances of CodexStrategy: four keys, one of them foreign to     *)
(* every codex, and jobs that set their guards against each other.         *)
EXTENDS CodexStrategy

CONSTANTS a, b, c, f, e1, e2

MCKeys == {a, b, c, f}
MCExecutions == {e1, e2}
OneExecution == {e1}
MCCodexes == {{a, b, c}, {a, b}}
TwoKeys == {{a, b}}

Guard(pred, keys) == [pred |-> pred, keys |-> keys, ref |-> ""]
SmartGuard(pred, keys) == [pred |-> pred, keys |-> keys, ref |-> "smart account"]
Pasting(S, how) == [k \in Keys |-> IF k \in S THEN how ELSE "absent"]

Job(guards, payment) ==
  [guards |-> guards, payment |-> payment, pasted |-> Pasting({}, "given"),
   wired |-> {}, extra |-> {}, canAsk |-> FALSE]

(* Two guards share a key; the payment key is one of the guard's keys. *)
Overlap == [Job(<<Guard("keys-2", <<c, a, b>>), Guard("keys-any", <<a, b>>)>>, c)
              EXCEPT !.canAsk = TRUE]
(* The guard takes two keys, of which one is the payment key. *)
PayerSigns == Job(<<Guard("keys-2", <<a, b>>)>>, a)
(* The guard's foreign key was pasted, and an extra signer carries the     *)
(* payment.                                                                *)
PastedKey == [Job(<<Guard("keys-all", <<f, a>>)>>, a) EXCEPT
                !.pasted = Pasting({f}, "given"), !.wired = {b}, !.extra = {b}]
(* It was not, but the closure names it and the resolver asks for it. *)
AskedKey == [Job(<<Guard("keys-all", <<f>>)>>, a) EXCEPT
               !.wired = {f}, !.canAsk = TRUE]
(* Nobody can provide it. *)
MissingKey == [Job(<<Guard("keys-all", <<a, f>>)>>, a) EXCEPT !.canAsk = TRUE]
UnaskedKey == Job(<<Guard("keys-all", <<a, f>>)>>, a)
SmartUnsigned == Job(<<SmartGuard("keys-any", <<f>>)>>, a)
Blank == [Job(<<Guard("keys-any", <<f, a>>)>>, NoKey) EXCEPT
            !.pasted = Pasting({f}, "blank")]

MCJobs == {Overlap, PayerSigns, PastedKey, AskedKey, MissingKey, UnaskedKey,
           SmartUnsigned, Blank}

(* Jobs the documentation says more of than the code does. *)
PlainJob    == {Job(<<Guard("keys-all", <<a>>)>>, b)}
Greedy      == {Job(<<Guard("keys-any", <<a, b>>), Guard("keys-all", <<b>>)>>, a)}
=============================================================================
