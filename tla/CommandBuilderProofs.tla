------------------------ MODULE CommandBuilderProofs ------------------------
(***************************************************************************)
(* Proofs about CommandBuilder, for every set of builders, keys,           *)
(* capabilities, paths, steps and templates.  A run of reducers is a fold  *)
(* over folds, so most lemmas say what one stage of one of them keeps:     *)
(*   - Keeps, Spares, Apart: which signer objects it writes to;            *)
(*   - View, Carries: what its signers are, without references;            *)
(*   - Same: in what two runs of the same calls differ.                    *)
(* BInv with them is the inductive invariant; CodeInv, AllSigned and       *)
(* NothingInvented are added to it for one theorem each.                   *)
(***************************************************************************)
EXTENDS CommandBuilder, FoldTheorems

(* The commands there are, the fields of which are of any of their types. *)
Metas == UNION {[D -> Int] : D \in SUBSET MetaFields}
Value == Payloads \cup Metas \cup Seq(Seq(Caps)) \cup Seq(Nat) \cup Int
Cmds == UNION {[D -> Value] : D \in SUBSET Fields}
RunRecords == [cmd : Cmds, heap : Seq(Signers), ok : BOOLEAN]

(* The fields of a command, or of a patch, whose signers are among refs.   *)
Typed(cmd, refs) ==
  /\ DOMAIN cmd \subseteq Fields
  /\ "payload" \in DOMAIN cmd => cmd["payload"] \in Payloads
  /\ "meta" \in DOMAIN cmd => cmd["meta"] \in Metas
  /\ "nonce" \in DOMAIN cmd => cmd["nonce"] \in Int
  /\ "networkId" \in DOMAIN cmd => cmd["networkId"] = Given
  /\ "signers" \in DOMAIN cmd => cmd["signers"] \in Seq(refs)
  /\ "verifiers" \in DOMAIN cmd => cmd["verifiers"] \in Seq(Seq(Caps))

(* A function that is typed as a command is one of the set of commands,    *)
(* which the folds need.                                                   *)
LEMMA FunctionIsCmd ==
  ASSUME NEW D, NEW cmd, cmd = [f \in D |-> cmd[f]], NEW refs \in SUBSET Nat, Typed(cmd, refs)
  PROVE  cmd \in Cmds
<1>1. DOMAIN cmd = D /\ D \in SUBSET Fields
  BY DEF Typed
<1>2. \A f \in D : cmd[f] \in Value
  <2>1. \A f \in D : f \in {"payload", "meta", "nonce", "networkId", "signers", "verifiers"}
    BY <1>1 DEF Fields
  <2>2. "signers" \in D => cmd["signers"] \in Seq(Nat)
    BY <1>1 DEF Typed
  <2>3. "networkId" \in D => cmd["networkId"] \in Int
    BY <1>1 DEF Typed, Given
  <2> QED
    BY <1>1, <2>1, <2>2, <2>3 DEF Typed, Value
<1>3. cmd \in [D -> Value]
  BY <1>2
<1> QED
  BY <1>1, <1>3 DEF Cmds

(* A record of these three fields. *)
IsRun(run) == run \in [cmd : {run.cmd}, heap : {run.heap}, ok : {run.ok}]

ListOf(run) == Field(run.cmd, "signers", << >>)

RunTyped(run) ==
  /\ run \in RunRecords
  /\ Typed(run.cmd, DOMAIN run.heap)

LEMMA ListIsTyped ==
  ASSUME NEW run, RunTyped(run)
  PROVE  /\ ListOf(run) \in Seq(DOMAIN run.heap)
         /\ DOMAIN run.heap = 1..Len(run.heap) /\ Len(run.heap) \in Nat
         /\ run.heap \in Seq(Signers)
<1> DEFINE heap0 == run.heap
           cmd   == run.cmd
           refs  == DOMAIN heap0
<1>1. heap0 \in Seq(Signers) /\ Typed(cmd, refs)
  BY DEF RunTyped, RunRecords
<1>2. ListOf(run) = IF "signers" \in DOMAIN cmd THEN cmd["signers"] ELSE << >>
  BY DEF ListOf, Field
<1> HIDE DEF heap0, cmd
<1>3. refs = 1..Len(heap0) /\ Len(heap0) \in Nat
  BY <1>1
<1> HIDE DEF refs
<1>4. ListOf(run) \in Seq(refs)
  BY <1>1, <1>2 DEF Typed
<1> QED
  BY <1>1, <1>3, <1>4 DEF refs, heap0

-----------------------------------------------------------------------------
(* patchCommand, signer by signer *)

(* The least of some positions. *)
LEMMA LeastPosition ==
  ASSUME NEW T, T \subseteq Nat, T # {}
  PROVE  Min(T) \in T /\ \A n \in T : Min(T) <= n
<1>1. PICK n \in T : \A m \in T : n <= m
  BY LeastNat
<1>2. Min(T) = CHOOSE x \in T : \A y \in T : x <= y
  BY Zenon DEF Min
<1> QED
  BY <1>1, <1>2

(* The two outcomes of patching in a signer: it is listed ... *)
Joined(run, ref, new) ==
  /\ new.heap = run.heap /\ new.ok = run.ok
  /\ new.cmd = Over([signers |-> Append(ListOf(run), ref)], run.cmd)

(* ... or the one at position i is given its capabilities. *)
Merged(run, ref, i, new) ==
  /\ new.cmd = run.cmd /\ new.ok = run.ok
  /\ new.heap = [run.heap EXCEPT ![ListOf(run)[i]] =
       [key |-> run.heap[ListOf(run)[i]].key,
        clist |-> [listed |-> TRUE,
                   caps |-> run.heap[ListOf(run)[i]].clist.caps \o run.heap[ref].clist.caps]]]

(* A signer is joined to the list, or merged into the first with its key. *)
LEMMA PatchSignerIs ==
  ASSUME NEW run, RunTyped(run), NEW ref \in DOMAIN run.heap
  PROVE  LET found == WithKey(ListOf(run), run.heap, run.heap[ref].key)
             new   == PatchSigner(run, ref)
         IN  /\ IsRun(new)
             /\ found = {} => Joined(run, ref, new)
             /\ found # {} => Min(found) \in found /\ Merged(run, ref, Min(found), new)
<1> DEFINE list  == ListOf(run)
           found == WithKey(list, run.heap, run.heap[ref].key)
<1>0. list \in Seq(DOMAIN run.heap) /\ run.heap \in Seq(Signers) /\ run \in RunRecords
  BY ListIsTyped DEF RunTyped
<1>1. found \subseteq DOMAIN list /\ DOMAIN list = 1..Len(list) /\ Len(list) \in Nat
  BY <1>0 DEF WithKey
<1>2. found # {} => Min(found) \in found
  BY <1>1, LeastPosition
<1>3. PatchSigner(run, ref) =
        IF found = {} THEN Join(run, list, ref)
        ELSE [run EXCEPT !.heap[list[Min(found)]].clist =
                [listed |-> TRUE, caps |-> @.caps \o run.heap[ref].clist.caps]]
  BY Zenon DEF PatchSigner, ListOf
<1>4. CASE found = {}
  BY <1>0, <1>3, <1>4 DEF Join, Joined, RunRecords, IsRun
<1>5. CASE found # {}
  <2> DEFINE at == list[Min(found)]
             both == [listed |-> TRUE, caps |-> run.heap[at].clist.caps \o run.heap[ref].clist.caps]
  <2>1. at \in DOMAIN run.heap
    BY <1>0, <1>1, <1>2, <1>5
  <2>2. PatchSigner(run, ref) = [run EXCEPT !.heap[at].clist = both]
    BY <1>3, <1>5
  <2>3. run.heap[at] \in Signers
    BY <2>1, <1>0
  <2> HIDE DEF at, both, found, list
  <2>4. [run.heap[at] EXCEPT !.clist = both] = [key |-> run.heap[at].key, clist |-> both]
    BY <2>3 DEF Signers
  <2>5. PatchSigner(run, ref).heap = [run.heap EXCEPT ![at] = [run.heap[at] EXCEPT !.clist = both]]
    BY <1>0, <2>2 DEF RunRecords
  <2>6. PatchSigner(run, ref).cmd = run.cmd /\ PatchSigner(run, ref).ok = run.ok
    BY <1>0, <2>2 DEF RunRecords
  <2>7. IsRun(PatchSigner(run, ref))
    BY <1>0, <2>2 DEF RunRecords, IsRun
  <2> QED
    BY <1>2, <1>5, <2>4, <2>5, <2>6, <2>7 DEF Merged, at, both, list, found
<1> QED
  BY <1>4, <1>5

(* What patching in signers of refs leaves of a run: all but its list of    *)
(* signers, and the signers that the list or refs name.                     *)
Keeps(old, refs, new) ==
  /\ new.ok = old.ok /\ Len(new.heap) = Len(old.heap)
  /\ DOMAIN old.cmd \subseteq DOMAIN new.cmd
  /\ DOMAIN new.cmd \subseteq DOMAIN old.cmd \cup {"signers"}
  /\ \A f \in DOMAIN old.cmd \ {"signers"} : new.cmd[f] = old.cmd[f]
  /\ ToSet(ListOf(new)) \subseteq ToSet(ListOf(old)) \cup refs
  /\ \A r \in DOMAIN old.heap : new.heap[r].key = old.heap[r].key
  /\ \A r \in DOMAIN old.heap \ (ToSet(ListOf(old)) \cup refs) : new.heap[r] = old.heap[r]

LEMMA KeepsItself ==
  ASSUME NEW run PROVE Keeps(run, {}, run)
BY DEF Keeps

(* Two signers patched in one after the other. *)
LEMMA KeepsMore ==
  ASSUME NEW old, RunTyped(old), NEW refs, NEW mid, RunTyped(mid), Keeps(old, refs, mid),
         NEW more, NEW new, Keeps(mid, more, new)
  PROVE  Keeps(old, refs \cup more, new)
<1>1. DOMAIN mid.heap = DOMAIN old.heap
  BY ListIsTyped DEF Keeps
<1>2. ToSet(ListOf(mid)) \subseteq ToSet(ListOf(old)) \cup refs
  BY DEF Keeps
<1> QED
  BY <1>1, <1>2 DEF Keeps

LEMMA JoinedKeeps ==
  ASSUME NEW run, RunTyped(run), NEW ref \in DOMAIN run.heap, NEW new, IsRun(new),
         Joined(run, ref, new)
  PROVE  /\ RunTyped(new) /\ Keeps(run, {ref}, new) /\ "signers" \in DOMAIN new.cmd
         /\ ListOf(new) = Append(ListOf(run), ref)
<1> DEFINE list == ListOf(run)
           refs == DOMAIN run.heap
<1>1. list \in Seq(refs) /\ refs = 1..Len(run.heap) /\ Len(run.heap) \in Nat
  BY ListIsTyped
<1>2. /\ DOMAIN new.cmd = DOMAIN run.cmd \cup {"signers"}
      /\ new.cmd["signers"] = Append(list, ref)
      /\ \A f \in DOMAIN run.cmd \ {"signers"} : new.cmd[f] = run.cmd[f]
  BY DEF Joined, Over
<1>3. ListOf(new) = Append(list, ref)
  BY <1>2 DEF ListOf, Field
<1>4. Typed(run.cmd, refs) /\ ref \in refs
  BY DEF RunTyped
<1>5. Append(list, ref) \in Seq(refs)
  BY <1>1, <1>4
<1>6. ToSet(Append(list, ref)) = ToSet(list) \cup {ref}
  BY <1>1, <1>4, AppendHolds
<1> DEFINE cmd  == run.cmd
           cmd1 == new.cmd
           more == Append(list, ref)
<1>7. cmd1 = [f \in DOMAIN cmd1 |-> cmd1[f]]
  BY DEF Joined, Over
<1>8. Typed(cmd1, refs)
  <2>1. /\ DOMAIN cmd1 = DOMAIN cmd \cup {"signers"} /\ cmd1["signers"] = more
        /\ \A f \in DOMAIN cmd \ {"signers"} : cmd1[f] = cmd[f]
        /\ Typed(cmd, refs) /\ more \in Seq(refs)
    BY <1>2, <1>4, <1>5
  <2> HIDE DEF cmd1, cmd, more, refs
  <2> QED
    BY <2>1 DEF Typed, Fields
<1>9. cmd1 \in Cmds
  <2>1. refs \in SUBSET Nat
    BY <1>1
  <2> HIDE DEF cmd1, refs
  <2> QED
    BY <1>7, <1>8, <2>1, FunctionIsCmd
<1>10. run \in RunRecords /\ new.heap = run.heap /\ new.ok = run.ok
  BY DEF RunTyped, Joined
<1>11. RunTyped(new)
  BY <1>8, <1>9, <1>10 DEF RunTyped, RunRecords, IsRun
<1>12. Keeps(run, {ref}, new)
  BY <1>2, <1>3, <1>6, <1>10 DEF Keeps
<1> QED
  BY <1>2, <1>3, <1>11, <1>12

LEMMA MergedKeeps ==
  ASSUME NEW run, RunTyped(run), NEW ref \in DOMAIN run.heap,
         NEW i \in DOMAIN ListOf(run),
         NEW new, IsRun(new), Merged(run, ref, i, new)
  PROVE  /\ RunTyped(new) /\ Keeps(run, {ref}, new) /\ "signers" \in DOMAIN new.cmd
         /\ ListOf(new) = ListOf(run)
<1> DEFINE list == ListOf(run)
           objects == run.heap
           at == list[i]
           caps1 == objects[at].clist.caps
           caps2 == objects[ref].clist.caps
           one == [key |-> objects[at].key, clist |-> [listed |-> TRUE, caps |-> caps1 \o caps2]]
<1>1. /\ list \in Seq(DOMAIN objects) /\ objects \in Seq(Signers) /\ i \in DOMAIN list
      /\ ref \in DOMAIN objects /\ run \in RunRecords
      /\ DOMAIN objects = 1..Len(objects) /\ Len(objects) \in Nat
  BY ListIsTyped DEF RunTyped
<1>2. new.cmd = run.cmd /\ new.ok = run.ok /\ new.heap = [objects EXCEPT ![at] = one]
  BY DEF Merged
<1>3. ListOf(new) = list
  BY <1>2 DEF ListOf
<1>4. "signers" \in DOMAIN run.cmd
  <2>1. list # << >>
    BY <1>1
  <2> QED
    BY <2>1 DEF ListOf, Field
<1> HIDE DEF list
<1>5. at \in DOMAIN objects /\ at \in ToSet(list)
  BY <1>1 DEF ToSet
<1> HIDE DEF at
<1>6. objects[at] \in Signers /\ objects[ref] \in Signers
  BY <1>1, <1>5
<1>7. caps1 \in Seq(Caps) /\ caps2 \in Seq(Caps) /\ objects[at].key \in Keys
  BY <1>6 DEF Signers, CapList
<1>8. caps1 \o caps2 \in Seq(Caps)
  <2> HIDE DEF caps1, caps2
  <2> QED
    BY <1>7
<1>9. one \in Signers /\ one.key = objects[at].key
  <2> HIDE DEF caps1, caps2
  <2> QED
    BY <1>7, <1>8 DEF Signers, CapList
<1> HIDE DEF one, objects
<1>10. new.heap \in Seq(Signers) /\ Len(new.heap) = Len(objects) /\ DOMAIN new.heap = DOMAIN objects
  BY <1>1, <1>2, <1>5, <1>9
<1>11. RunTyped(new)
  <2>1. Typed(run.cmd, DOMAIN objects)
    BY DEF RunTyped, objects
  <2> QED
    BY <1>1, <1>2, <1>10, <2>1 DEF RunTyped, RunRecords, IsRun
<1>12. \A r \in DOMAIN objects : new.heap[r].key = objects[r].key /\ (r # at => new.heap[r] = objects[r])
  BY <1>2, <1>5, <1>9, <1>1
<1>13. Keeps(run, {ref}, new)
  BY <1>2, <1>3, <1>4, <1>5, <1>10, <1>12 DEF Keeps, objects, list
<1> QED
  BY <1>2, <1>3, <1>4, <1>11, <1>13 DEF list

(* A signer patched in changes the list and what the list names only. *)
LEMMA PatchSignerKeeps ==
  ASSUME NEW run, RunTyped(run), NEW ref \in DOMAIN run.heap
  PROVE  /\ RunTyped(PatchSigner(run, ref)) /\ Keeps(run, {ref}, PatchSigner(run, ref))
         /\ "signers" \in DOMAIN PatchSigner(run, ref).cmd
<1> DEFINE found == WithKey(ListOf(run), run.heap, run.heap[ref].key)
           new   == PatchSigner(run, ref)
<1>1. /\ IsRun(new)
      /\ found = {} => Joined(run, ref, new)
      /\ found # {} => Min(found) \in found /\ Merged(run, ref, Min(found), new)
  BY PatchSignerIs
<1>2. found \subseteq DOMAIN ListOf(run)
  BY DEF WithKey
<1> HIDE DEF found, new
<1>3. CASE found = {}
  BY <1>1, <1>3, JoinedKeeps DEF new
<1>4. CASE found # {}
  BY <1>1, <1>2, <1>4, MergedKeeps DEF new
<1> QED
  BY <1>3, <1>4

(* No two signers of the list have one key. *)
KeysDiffer(run) ==
  LET list == ListOf(run)
  IN  \A p, q \in DOMAIN list : run.heap[list[p]].key = run.heap[list[q]].key => p = q

(* The signers of a run, without references.                               *)
View(run) == [p \in DOMAIN ListOf(run) |-> run.heap[ListOf(run)[p]]]

(* What a signer does to them when it is patched in. *)
PatchView(view, signer) ==
  LET found == {p \in DOMAIN view : view[p].key = signer.key}
  IN  IF found = {} THEN Append(view, signer)
      ELSE [view EXCEPT ![Min(found)] =
             [key |-> view[Min(found)].key,
              clist |-> [listed |-> TRUE,
                         caps |-> view[Min(found)].clist.caps \o signer.clist.caps]]]

LEMMA ViewIsTyped ==
  ASSUME NEW run, RunTyped(run)
  PROVE  /\ View(run) \in Seq(Signers) /\ Len(View(run)) = Len(ListOf(run))
         /\ DOMAIN View(run) = DOMAIN ListOf(run)
<1> DEFINE list == ListOf(run)
           objects == run.heap
           refs == DOMAIN objects
<1>1. list \in Seq(refs) /\ objects \in Seq(Signers)
  BY ListIsTyped
<1>2. \A r \in refs : objects[r] \in Signers
  BY <1>1
<1> HIDE DEF list, objects, refs
<1>3. \A p \in DOMAIN list : list[p] \in refs
  BY <1>1
<1>4. View(run) = [p \in DOMAIN list |-> objects[list[p]]]
  BY DEF View, list, objects
<1>5. \A p \in DOMAIN list : objects[list[p]] \in Signers
  BY <1>2, <1>3
<1>6. DOMAIN list = 1..Len(list) /\ Len(list) \in Nat
  BY <1>1
<1> QED
  BY <1>4, <1>5, <1>6 DEF list

(* Without references, patchCommand's step over a signer is PatchView,     *)
(* and no two signers get one key.                                         *)
LEMMA PatchSignerView ==
  ASSUME NEW run, RunTyped(run), KeysDiffer(run), NEW ref \in DOMAIN run.heap
  PROVE  /\ KeysDiffer(PatchSigner(run, ref))
         /\ View(PatchSigner(run, ref)) = PatchView(View(run), run.heap[ref])
<1> DEFINE list  == ListOf(run)
           objects == run.heap
           found == WithKey(list, objects, objects[ref].key)
           new   == PatchSigner(run, ref)
           view  == View(run)
<1>1. /\ IsRun(new)
      /\ found = {} => Joined(run, ref, new)
      /\ found # {} => Min(found) \in found /\ Merged(run, ref, Min(found), new)
  BY PatchSignerIs
<1>2. /\ list \in Seq(DOMAIN objects) /\ objects \in Seq(Signers) /\ ref \in DOMAIN objects
      /\ DOMAIN list = 1..Len(list) /\ Len(list) \in Nat
  BY ListIsTyped
<1>3. /\ DOMAIN view = DOMAIN list /\ view \in Seq(Signers) /\ Len(view) = Len(list)
      /\ \A p \in DOMAIN list : view[p] = objects[list[p]]
  BY ViewIsTyped DEF View
<1>4. found = {p \in DOMAIN view : view[p].key = objects[ref].key}
  BY <1>3 DEF WithKey
<1>5. \A p, q \in DOMAIN list : objects[list[p]].key = objects[list[q]].key => p = q
  BY DEF KeysDiffer
<1>6. CASE found = {}
  <2>1. ListOf(new) = Append(list, ref) /\ new.heap = objects
    BY <1>1, <1>6, JoinedKeeps DEF Joined
  <2>2. PatchView(view, objects[ref]) = Append(view, objects[ref])
    BY <1>4, <1>6 DEF PatchView
  <2>3. View(new) = [p \in DOMAIN Append(list, ref) |-> objects[Append(list, ref)[p]]]
    BY <2>1 DEF View
  <2>a. \A p \in DOMAIN list : objects[list[p]].key # objects[ref].key
    BY <1>6 DEF WithKey
  <2>b. KeysDiffer(new) <=> \A p, q \in DOMAIN Append(list, ref) :
              objects[Append(list, ref)[p]].key = objects[Append(list, ref)[q]].key => p = q
    BY <2>1 DEF KeysDiffer
  <2> HIDE DEF list, objects, found, new, view
  <2>4. /\ DOMAIN Append(list, ref) = 1..(Len(list) + 1)
        /\ \A p \in 1..Len(list) : Append(list, ref)[p] = list[p]
        /\ Append(list, ref)[Len(list) + 1] = ref
    BY <1>2
  <2>5. /\ DOMAIN Append(view, objects[ref]) = 1..(Len(list) + 1)
        /\ \A p \in 1..Len(list) : Append(view, objects[ref])[p] = view[p]
        /\ Append(view, objects[ref])[Len(list) + 1] = objects[ref]
    BY <1>2, <1>3
  <2>6. View(new) = Append(view, objects[ref])
    <3>1. \A p \in 1..(Len(list) + 1) : objects[Append(list, ref)[p]] = Append(view, objects[ref])[p]
      BY <1>2, <1>3, <2>4, <2>5
    <3>2. objects[ref] \in Signers
      BY <1>2
    <3>3. Append(view, objects[ref]) \in Seq(Signers)
      BY <1>3, <3>2
    <3> QED
      BY <2>3, <2>4, <2>5, <3>1, <3>3
  <2>7. KeysDiffer(new)
    <3> SUFFICES ASSUME NEW p \in 1..(Len(list) + 1), NEW q \in 1..(Len(list) + 1),
                   objects[Append(list, ref)[p]].key = objects[Append(list, ref)[q]].key
                 PROVE p = q
      BY <2>4, <2>b
    <3>1. \A k \in 1..(Len(list) + 1) : k \in 1..Len(list) \/ k = Len(list) + 1
      BY <1>2
    <3> QED
      BY <1>2, <1>5, <2>4, <2>a, <3>1
  <2> QED
    BY <2>2, <2>6, <2>7 DEF new, view, objects
<1>7. CASE found # {}
  <2> DEFINE i == Min(found)
             at == list[i]
             one == [key |-> objects[at].key,
                     clist |-> [listed |-> TRUE,
                                caps |-> objects[at].clist.caps \o objects[ref].clist.caps]]
  <2>1. i \in found /\ i \in DOMAIN list
    BY <1>1, <1>7 DEF WithKey
  <2>2. ListOf(new) = list /\ new.heap = [objects EXCEPT ![at] = one]
    <3>1. Merged(run, ref, i, new)
      BY <1>1, <1>7
    <3> QED
      BY <3>1 DEF Merged, ListOf
  <2>3. at \in DOMAIN objects
    BY <1>2, <2>1
  <2>4. PatchView(view, objects[ref]) =
          [view EXCEPT ![i] = [key |-> view[i].key,
                clist |-> [listed |-> TRUE, caps |-> view[i].clist.caps \o objects[ref].clist.caps]]]
    BY <1>4, <1>7, Zenon DEF PatchView
  <2>5. PatchView(view, objects[ref]) = [view EXCEPT ![i] = one]
    BY <1>3, <2>1, <2>4
  <2>6. View(new) = [p \in DOMAIN list |-> [objects EXCEPT ![at] = one][list[p]]]
    BY <2>2 DEF View
  <2>7. \A p \in DOMAIN list : list[p] \in DOMAIN objects /\ (list[p] = at => p = i)
    BY <1>2, <1>5, <2>1
  <2>8. KeysDiffer(new) <=> \A p, q \in DOMAIN list : 
          [objects EXCEPT ![at] = one][list[p]].key = [objects EXCEPT ![at] = one][list[q]].key => p = q
    BY <2>2 DEF KeysDiffer
  <2>9. one.key = objects[at].key
    OBVIOUS
  <2> HIDE DEF one
  <2>10. at = list[i]
    OBVIOUS
  <2> HIDE DEF found, at, i, view, list, objects, new
  <2>11. \A p \in DOMAIN list : [objects EXCEPT ![at] = one][list[p]] = [view EXCEPT ![i] = one][p]
    BY <1>3, <2>1, <2>3, <2>7, <2>10
  <2>12. \A p \in DOMAIN list : [objects EXCEPT ![at] = one][list[p]].key = objects[list[p]].key
    BY <2>7, <2>3, <2>9
  <2>13. View(new) = [view EXCEPT ![i] = one]
    BY <1>3, <2>6, <2>11
  <2>14. KeysDiffer(new)
    BY <1>5, <2>8, <2>12
  <2> QED
    BY <2>5, <2>13, <2>14 DEF new, view, objects
<1> QED
  BY <1>6, <1>7

-----------------------------------------------------------------------------
(* patchCommand's loop over signers *)

(* FoldLeft with PatchSigner, stage by stage. *)
PatchThrough(f, T, run, refs) ==
  /\ f \in [0..Len(refs) -> T]
  /\ f[0] = run /\ FoldLeft(PatchSigner, run, refs) = f[Len(refs)]
  /\ \A n \in 1..Len(refs) : f[n] = PatchSigner(f[n-1], refs[n])

LEMMA PatchStages ==
  ASSUME NEW T, NEW R, NEW run \in T, NEW refs \in Seq(R),
         \A x \in T, r \in R : PatchSigner(x, r) \in T
  PROVE  \E f : PatchThrough(f, T, run, refs)
<1> DEFINE g == [x \in T \X R |-> PatchSigner(x[1], x[2])]
           Is(iter) == iter = [t \in SUBSET DOMAIN refs |->
             IF t = {} THEN run
             ELSE PatchSigner(iter[t \ {Greatest(t)}], refs[Greatest(t)])]
<1>1. Len(refs) \in Nat /\ DOMAIN refs = 1..Len(refs)
  OBVIOUS
<1>2. /\ g \in [T \X R -> T]
      /\ \A x \in T, r \in R : Step1(g, x, r) = PatchSigner(x, r)
  BY DEF Step1
<1>3. ASSUME NEW t \in SUBSET (1..Len(refs)), t # {} PROVE refs[Greatest(t)] \in R
  <2>1. Greatest(t) \in t
    BY <1>1, <1>3, GreatestOf
  <2>2. Greatest(t) \in 1..Len(refs)
    BY <2>1
  <2> HIDE DEF g, Is
  <2> QED
    BY <2>2
<1> HIDE DEF g
<1>4. PICK any \in [SUBSET DOMAIN refs -> T] : FoldsOver(any, Len(refs), run, g, refs)
  BY <1>1, <1>2, FoldExists
<1>5. Is(any)
  <2>1. \A t \in SUBSET (1..Len(refs)) : t # {} =>
          any[t \ {Greatest(t)}] \in T /\ refs[Greatest(t)] \in R
    BY <1>1, <1>3, <1>4
  <2>2. \A t \in SUBSET (1..Len(refs)) : t # {} =>
          Step1(g, any[t \ {Greatest(t)}], refs[Greatest(t)])
            = PatchSigner(any[t \ {Greatest(t)}], refs[Greatest(t)])
    BY <1>2, <2>1
  <2> QED
    BY <1>1, <1>4, <2>2 DEF FoldsOver
<1>6. PICK iter : Is(iter) /\ FoldLeft(PatchSigner, run, refs) = iter[DOMAIN refs]
  <2>1. FoldLeft(PatchSigner, run, refs) = (CHOOSE iter : Is(iter))[DOMAIN refs]
    BY Zenon DEF FoldLeft, MapThenFoldSet, Max, Greatest
  <2> QED
    BY <1>5, <2>1
<1>7. iter[{}] = run
  BY <1>6
<1>8. FoldsLike(iter, Len(refs), T, g, refs)
  <2>1. ASSUME NEW t \in SUBSET (1..Len(refs)), t # {}, iter[t \ {Greatest(t)}] \in T
        PROVE  iter[t] = Step1(g, iter[t \ {Greatest(t)}], refs[Greatest(t)])
    <3>1. refs[Greatest(t)] \in R
      BY <1>3, <2>1
    <3>2. iter[t] = PatchSigner(iter[t \ {Greatest(t)}], refs[Greatest(t)])
      BY <1>1, <1>6, <2>1
    <3> HIDE DEF Is
    <3> QED
      BY <1>2, <2>1, <3>1, <3>2
  <2> HIDE DEF Is
  <2> QED
    BY <2>1 DEF FoldsLike
<1> HIDE DEF Is
<1>9. PICK f : StagesOf(f, run, T, g, refs) /\ iter[DOMAIN refs] = f[Len(refs)]
  <2>1. Staged(iter, run, T, g, refs)
    BY <1>2, <1>7, <1>8, FoldStages
  <2> QED
    BY <2>1 DEF Staged
<1>10. ASSUME NEW n \in 1..Len(refs) PROVE f[n] = PatchSigner(f[n-1], refs[n])
  <2>1. n - 1 \in 0..Len(refs) /\ refs[n] \in R
    BY <1>1
  <2>2. f[n-1] \in T /\ f[n] = Step1(g, f[n-1], refs[n])
    BY <1>9, <2>1 DEF StagesOf
  <2> QED
    BY <1>2, <2>1, <2>2
<1> QED
  BY <1>6, <1>9, <1>10 DEF StagesOf, PatchThrough

(* What holds after every signer. *)
PatchedSoFar(f, run, refs) ==
  /\ f[0] = run /\ FoldLeft(PatchSigner, run, refs) = f[Len(refs)]
  /\ \A n \in 1..Len(refs) : f[n] = PatchSigner(f[n-1], refs[n])
  /\ \A n \in 0..Len(refs) :
       /\ RunTyped(f[n]) /\ Keeps(run, First(refs, n), f[n])
       /\ KeysDiffer(run) => KeysDiffer(f[n])
       /\ n > 0 => "signers" \in DOMAIN f[n].cmd

(* patchCommand's loop keeps the types and all but the list. *)
LEMMA PatchedStages ==
  ASSUME NEW run, RunTyped(run), NEW refs \in Seq(DOMAIN run.heap)
  PROVE  \E f : PatchedSoFar(f, run, refs)
<1> DEFINE R == DOMAIN run.heap
           T == {x \in RunRecords : RunTyped(x) /\ DOMAIN x.heap = R}
           N == Len(refs)
<1>1. run \in T /\ R = 1..Len(run.heap) /\ Len(run.heap) \in Nat
  BY ListIsTyped DEF RunTyped
<1>2. \A x \in T, r \in R : PatchSigner(x, r) \in T
  <2> SUFFICES ASSUME NEW x \in T, NEW r \in R PROVE PatchSigner(x, r) \in T
    OBVIOUS
  <2>1. RunTyped(PatchSigner(x, r)) /\ Keeps(x, {r}, PatchSigner(x, r))
    BY PatchSignerKeeps
  <2>2. DOMAIN PatchSigner(x, r).heap = DOMAIN x.heap
    BY <2>1, ListIsTyped DEF Keeps
  <2> QED
    BY <2>1, <2>2 DEF RunTyped
<1>3. refs \in Seq(R)
  OBVIOUS
<1> HIDE DEF R, T
<1>4. PICK f : PatchThrough(f, T, run, refs)
  BY <1>1, <1>2, <1>3, PatchStages
<1>5. N \in Nat /\ DOMAIN refs = 1..N /\ \A n \in 1..N : refs[n] \in R
  BY <1>3
<1>6. /\ f \in [0..N -> T] /\ f[0] = run /\ FoldLeft(PatchSigner, run, refs) = f[N]
      /\ \A n \in 1..N : f[n] = PatchSigner(f[n-1], refs[n])
  BY <1>4 DEF PatchThrough
<1> HIDE DEF N
<1> DEFINE U == {n \in 0..N : /\ Keeps(run, First(refs, n), f[n])
                              /\ KeysDiffer(run) => KeysDiffer(f[n])
                              /\ n > 0 => "signers" \in DOMAIN f[n].cmd}
<1>7. 0 \in U
  BY <1>5, <1>6, KeepsItself, FirstGrows
<1>8. ASSUME NEW n \in 0..N, n < N, n \in U PROVE n + 1 \in U
  <2>1. n + 1 \in 1..N /\ (n + 1) - 1 = n /\ n \in Nat /\ n + 1 \in 0..N
    BY <1>5, <1>8
  <2> DEFINE mid == f[n]
             new == f[n+1]
             ref == refs[n+1]
  <2>2. new = PatchSigner(mid, ref) /\ mid \in T /\ ref \in R
    BY <1>5, <1>6, <2>1
  <2>3. Keeps(run, First(refs, n), mid) /\ (KeysDiffer(run) => KeysDiffer(mid))
    BY <1>8
  <2>4. First(refs, n + 1) = First(refs, n) \cup {ref}
    BY <2>1, FirstGrows
  <2> HIDE DEF mid, new, ref
  <2>5. RunTyped(mid) /\ ref \in DOMAIN mid.heap
    BY <2>2 DEF T
  <2>6. Keeps(mid, {ref}, new) /\ "signers" \in DOMAIN new.cmd
    BY <2>2, <2>5, PatchSignerKeeps
  <2>7. Keeps(run, First(refs, n + 1), new)
    BY <2>3, <2>4, <2>5, <2>6, KeepsMore
  <2>8. KeysDiffer(run) => KeysDiffer(new)
    BY <2>2, <2>3, <2>5, PatchSignerView
  <2> QED
    BY <2>1, <2>6, <2>7, <2>8 DEF new
<1> HIDE DEF U
<1>9. 0..N \subseteq U
  BY <1>5, <1>7, <1>8, BoundedInduction
<1>10. \A n \in 0..N : RunTyped(f[n])
  BY <1>6 DEF T
<1> QED
  BY <1>6, <1>9, <1>10 DEF U, PatchedSoFar, N

LEMMA OverIs ==
  ASSUME NEW new, NEW old
  PROVE  /\ DOMAIN Over(new, old) = DOMAIN new \cup DOMAIN old
         /\ \A f \in DOMAIN new : Over(new, old)[f] = new[f]
         /\ \A f \in DOMAIN old \ DOMAIN new : Over(new, old)[f] = old[f]
         /\ Over(new, old) = [f \in DOMAIN Over(new, old) |-> Over(new, old)[f]]
BY DEF Over

LEMMA MetaMerges ==
  ASSUME NEW meta \in Metas, NEW more \in Metas
  PROVE  Over(more, meta) \in Metas
<1>1. /\ DOMAIN meta \subseteq MetaFields /\ DOMAIN more \subseteq MetaFields
      /\ \A f \in DOMAIN meta : meta[f] \in Int
      /\ \A f \in DOMAIN more : more[f] \in Int
  BY DEF Metas
<1>2. Over(more, meta) \in [DOMAIN more \cup DOMAIN meta -> Int]
  BY <1>1 DEF Over
<1> QED
  BY <1>1, <1>2 DEF Metas

LEMMA NoMeta == << >> \in Metas
<1>1. << >> \in [{} -> Int] /\ {} \in SUBSET MetaFields
  OBVIOUS
<1> QED
  BY <1>1 DEF Metas

(* Merged payloads are a payload: code joined, data united. *)
LEMMA PayloadMerges ==
  ASSUME NEW old \in Payloads, NEW new \in Payloads
  PROVE  MergePayload(old, new) \in Payloads
<1>1. old.code \in Seq(Paths) /\ new.code \in Seq(Paths)
  BY DEF Payloads
<1> DEFINE p == old.code
           q == new.code
<1>2. p \o q \in Seq(Paths)
  <2> HIDE DEF p, q
  <2> QED
    BY <1>1 DEF p, q
<1> QED
  BY <1>2 DEF MergePayload, Payloads

(* The fields of a patch merged into those of a command. *)
Based(run, patch, base) ==
  /\ RunTyped(base) /\ base.heap = run.heap /\ base.ok = run.ok
  /\ ListOf(base) = ListOf(run)
  /\ DOMAIN base.cmd = DOMAIN run.cmd \cup (DOMAIN patch \ {"signers"})
  /\ \A f \in DOMAIN patch \ {"signers"} : base.cmd[f] = PatchOne(run.cmd, patch, f)
  /\ \A f \in DOMAIN run.cmd : f \notin DOMAIN patch \ {"signers"} => base.cmd[f] = run.cmd[f]

Base(run, patch) ==
  [run EXCEPT !.cmd = Over([f \in DOMAIN patch \ {"signers"} |-> PatchOne(run.cmd, patch, f)], run.cmd)]

LEMMA PatchOneTyped ==
  ASSUME NEW cmd, NEW refs, Typed(cmd, refs), NEW patch, NEW more, Typed(patch, more)
  PROVE  /\ "payload" \in DOMAIN patch => PatchOne(cmd, patch, "payload") \in Payloads
         /\ "meta" \in DOMAIN patch => PatchOne(cmd, patch, "meta") \in Metas
         /\ "nonce" \in DOMAIN patch => PatchOne(cmd, patch, "nonce") = patch["nonce"]
         /\ "networkId" \in DOMAIN patch => PatchOne(cmd, patch, "networkId") = patch["networkId"]
         /\ "verifiers" \in DOMAIN patch => PatchOne(cmd, patch, "verifiers") \in Seq(Seq(Caps))
<1>1. "payload" \in DOMAIN patch => PatchOne(cmd, patch, "payload") \in Payloads
  BY PayloadMerges DEF PatchOne, Typed
<1>2. "meta" \in DOMAIN patch => PatchOne(cmd, patch, "meta") \in Metas
  <2> SUFFICES ASSUME "meta" \in DOMAIN patch PROVE PatchOne(cmd, patch, "meta") \in Metas
    OBVIOUS
  <2>1. PatchOne(cmd, patch, "meta") = Over(patch.meta, Field(cmd, "meta", << >>))
    BY DEF PatchOne
  <2>2. patch.meta \in Metas /\ Field(cmd, "meta", << >>) \in Metas
    BY NoMeta DEF Typed, Field
  <2> QED
    BY <2>1, <2>2, MetaMerges
<1>3. /\ "nonce" \in DOMAIN patch => PatchOne(cmd, patch, "nonce") = patch["nonce"]
      /\ "networkId" \in DOMAIN patch => PatchOne(cmd, patch, "networkId") = patch["networkId"]
  BY DEF PatchOne
<1>4. "verifiers" \in DOMAIN patch => PatchOne(cmd, patch, "verifiers") \in Seq(Seq(Caps))
  <2> SUFFICES ASSUME "verifiers" \in DOMAIN patch
               PROVE  PatchOne(cmd, patch, "verifiers") \in Seq(Seq(Caps))
    OBVIOUS
  <2> DEFINE V == Seq(Caps)
             p == Field(cmd, "verifiers", << >>)
             q == patch.verifiers
  <2>1. PatchOne(cmd, patch, "verifiers") = p \o q
    BY DEF PatchOne
  <2>2. q \in Seq(V)
    BY DEF Typed
  <2>3. p = (IF "verifiers" \in DOMAIN cmd THEN cmd["verifiers"] ELSE << >>)
    BY DEF Field
  <2>4. "verifiers" \in DOMAIN cmd => cmd["verifiers"] \in Seq(V)
    BY DEF Typed
  <2> HIDE DEF p, q, V
  <2>5. p \in Seq(V)
    BY <2>3, <2>4
  <2>6. p \o q \in Seq(V)
    BY <2>2, <2>5
  <2> QED
    BY <2>1, <2>6 DEF V
<1> QED
  BY <1>1, <1>2, <1>3, <1>4

(* The fields other than signers of a patch, merged into a command. *)
LEMMA BaseIs ==
  ASSUME NEW run, RunTyped(run), NEW patch, Typed(patch, DOMAIN run.heap)
  PROVE  Based(run, patch, Base(run, patch))
<1> DEFINE refs == DOMAIN run.heap
           patched == DOMAIN patch \ {"signers"}
           made == [f \in patched |-> PatchOne(run.cmd, patch, f)]
           old  == run.cmd
           cmd  == Over(made, old)
           base == Base(run, patch)
<1>1. run \in RunRecords /\ Typed(old, refs)
  BY DEF RunTyped
<1>2. base.cmd = cmd /\ base.heap = run.heap /\ base.ok = run.ok /\ IsRun(base)
  BY <1>1 DEF Base, RunRecords, IsRun
<1>3. /\ DOMAIN cmd = DOMAIN old \cup patched
      /\ \A f \in patched : cmd[f] = PatchOne(old, patch, f)
      /\ \A f \in DOMAIN old : f \notin patched => cmd[f] = old[f]
      /\ cmd = [f \in DOMAIN cmd |-> cmd[f]]
  <2>1. DOMAIN made = patched /\ \A f \in patched : made[f] = PatchOne(old, patch, f)
    OBVIOUS
  <2> HIDE DEF made, old, patched
  <2>2. /\ DOMAIN cmd = DOMAIN made \cup DOMAIN old
        /\ \A f \in DOMAIN made : cmd[f] = made[f]
        /\ \A f \in DOMAIN old \ DOMAIN made : cmd[f] = old[f]
        /\ cmd = [f \in DOMAIN cmd |-> cmd[f]]
    BY OverIs
  <2> HIDE DEF cmd
  <2> QED
    BY <2>1, <2>2
<1>4. Typed(cmd, refs)
  <2>1. /\ "payload" \in patched => PatchOne(old, patch, "payload") \in Payloads
        /\ "meta" \in patched => PatchOne(old, patch, "meta") \in Metas
        /\ "nonce" \in patched => PatchOne(old, patch, "nonce") \in Int
        /\ "networkId" \in patched => PatchOne(old, patch, "networkId") = Given
        /\ "verifiers" \in patched => PatchOne(old, patch, "verifiers") \in Seq(Seq(Caps))
        /\ patched \subseteq Fields /\ "signers" \notin patched
    <3>1. Typed(patch, refs)
      OBVIOUS
    <3> HIDE DEF old, refs
    <3>2. /\ "nonce" \in DOMAIN patch => patch["nonce"] \in Int
          /\ "networkId" \in DOMAIN patch => patch["networkId"] = Given
          /\ DOMAIN patch \subseteq Fields
      BY DEF Typed
    <3> QED
      BY <1>1, <3>1, <3>2, PatchOneTyped
  <2> HIDE DEF cmd, old, patched, refs
  <2>2. DOMAIN cmd \subseteq Fields
    BY <1>1, <1>3, <2>1 DEF Typed
  <2> QED
    BY <1>1, <1>3, <2>1, <2>2 DEF Typed
<1>5. cmd \in Cmds
  <2>1. refs \in SUBSET Nat
    BY ListIsTyped
  <2> HIDE DEF cmd, refs
  <2> QED
    BY <1>3, <1>4, <2>1, FunctionIsCmd
<1>6. RunTyped(base)
  BY <1>1, <1>2, <1>4, <1>5 DEF RunTyped, RunRecords, IsRun
<1>7. ListOf(base) = ListOf(run)
  BY <1>2, <1>3 DEF ListOf, Field
<1> QED
  BY <1>2, <1>3, <1>6, <1>7 DEF Based

(* What patchCommand returns: nothing is merged once it has thrown. *)
LEMMA PatchCommandIs ==
  ASSUME NEW run, RunTyped(run), NEW patch, Typed(patch, DOMAIN run.heap)
  PROVE  /\ ~run.ok \/ ~Mergeable(run.cmd, patch) =>
              /\ RunTyped(PatchCommand(run, patch)) /\ ~PatchCommand(run, patch).ok
              /\ PatchCommand(run, patch).cmd = run.cmd
              /\ PatchCommand(run, patch).heap = run.heap
         /\ run.ok /\ Mergeable(run.cmd, patch) =>
              LET refs == Field(patch, "signers", << >>)
              IN  \E f : /\ PatchedSoFar(f, Base(run, patch), refs)
                         /\ PatchCommand(run, patch) = f[Len(refs)]
<1> DEFINE refs == Field(patch, "signers", << >>)
           base == Base(run, patch)
<1>1. CASE ~run.ok \/ ~Mergeable(run.cmd, patch)
  <2>1. PatchCommand(run, patch) = [run EXCEPT !.ok = FALSE]
    BY <1>1 DEF PatchCommand
  <2> QED
    BY <1>1, <2>1 DEF RunTyped, RunRecords
<1>2. CASE run.ok /\ Mergeable(run.cmd, patch)
  <2>1. PatchCommand(run, patch) = FoldLeft(PatchSigner, base, refs)
    BY <1>2, Zenon DEF PatchCommand, Base
  <2>2. RunTyped(base) /\ base.heap = run.heap
    BY BaseIs DEF Based
  <2>3. refs \in Seq(DOMAIN base.heap)
    <3> DEFINE R == DOMAIN run.heap
    <3>1. "signers" \in DOMAIN patch => patch["signers"] \in Seq(R)
      BY DEF Typed
    <3>2. refs = IF "signers" \in DOMAIN patch THEN patch["signers"] ELSE << >>
      BY DEF Field
    <3> HIDE DEF R, refs
    <3>3. refs \in Seq(R)
      BY <3>1, <3>2
    <3> QED
      BY <2>2, <3>3 DEF R
  <2> HIDE DEF base, refs
  <2>4. PICK f : PatchedSoFar(f, base, refs)
    BY <2>2, <2>3, PatchedStages
  <2> QED
    BY <1>2, <2>1, <2>4 DEF PatchedSoFar, base, refs
<1> QED
  BY <1>1, <1>2

(* A patch without signers. *)
LEMMA PlainPatch ==
  ASSUME NEW run, RunTyped(run), NEW patch, Typed(patch, {}), "signers" \notin DOMAIN patch
  PROVE  /\ ~run.ok \/ ~Mergeable(run.cmd, patch) =>
              /\ RunTyped(PatchCommand(run, patch)) /\ ~PatchCommand(run, patch).ok
              /\ PatchCommand(run, patch).cmd = run.cmd
              /\ PatchCommand(run, patch).heap = run.heap
         /\ run.ok /\ Mergeable(run.cmd, patch) => Based(run, patch, PatchCommand(run, patch))
<1>1. Typed(patch, DOMAIN run.heap)
  BY DEF Typed
<1>2. Field(patch, "signers", << >>) = << >> /\ Len(<< >>) = 0
  BY DEF Field
<1>3. ASSUME run.ok /\ Mergeable(run.cmd, patch) PROVE PatchCommand(run, patch) = Base(run, patch)
  <2>1. PICK f : PatchedSoFar(f, Base(run, patch), << >>) /\ PatchCommand(run, patch) = f[Len(<< >>)]
    BY <1>1, <1>2, <1>3, PatchCommandIs
  <2> QED
    BY <1>2, <2>1 DEF PatchedSoFar
<1> QED
  BY <1>1, <1>3, PatchCommandIs, BaseIs

-----------------------------------------------------------------------------
(* finalizeCommand *)

(* What finalizeCommand makes sure of. *)
Complete(cmd) ==
  /\ {"nonce", "signers"} \subseteq DOMAIN cmd
  /\ "payload" \in DOMAIN cmd /\ cmd.payload.kind = "cont" => cmd.payload.proof # "undefined"
  /\ "meta" \in DOMAIN cmd => MetaFields \ {"chainId"} \subseteq DOMAIN cmd.meta

Settled(payload) ==
  IF payload.kind = "cont" /\ payload.proof = "undefined"
  THEN [payload EXCEPT !.proof = "null"] ELSE payload

Finalized(run, time, new) ==
  /\ RunTyped(new) /\ Complete(new.cmd)
  /\ new.heap = run.heap /\ new.ok = run.ok
  /\ DOMAIN new.cmd = DOMAIN run.cmd \cup {"nonce", "signers"}
  /\ new.cmd["nonce"] = Field(run.cmd, "nonce", time)
  /\ new.cmd["signers"] = ListOf(run) /\ ListOf(new) = ListOf(run)
  /\ "meta" \in DOMAIN run.cmd => new.cmd["meta"] = Over(run.cmd["meta"], DefaultMeta(time))
  /\ "payload" \in DOMAIN run.cmd => new.cmd["payload"] = Settled(run.cmd["payload"])
  /\ \A f \in {"networkId", "verifiers"} \cap DOMAIN run.cmd : new.cmd[f] = run.cmd[f]

LEMMA SettledIs ==
  ASSUME NEW payload \in Payloads
  PROVE  /\ Settled(payload) \in Payloads
         /\ Settled(payload).kind = "cont" => Settled(payload).proof # "undefined"
BY DEF Settled, Payloads

(* finalizeCommand fills in what is missing, field by field. *)
LEMMA FinalizeIs ==
  ASSUME NEW run, RunTyped(run), NEW time \in Nat
  PROVE  Finalized(run, time, Finalize(run, time))
<1> DEFINE old == run.cmd
           rest == [nonce |-> DefaultNonce(time), signers |-> << >>]
           cmd == Over(old, rest)
           Default(f) ==
             CASE f = "meta" -> Over(cmd.meta, DefaultMeta(time))
               [] f = "payload" /\ cmd.payload.kind = "cont" ->
                    [cmd.payload EXCEPT !.proof = IF @ = "undefined" THEN "null" ELSE @]
               [] OTHER -> cmd[f]
           done == [f \in DOMAIN cmd |-> Default(f)]
           new == Finalize(run, time)
           refs == DOMAIN run.heap
<1>1. run \in RunRecords /\ Typed(old, refs)
  BY DEF RunTyped
<1>2. new = [run EXCEPT !.cmd = done]
  BY Zenon DEF Finalize
<1>3. new.cmd = done /\ new.heap = run.heap /\ new.ok = run.ok /\ IsRun(new)
  BY <1>1, <1>2 DEF RunRecords, IsRun
<1>4. /\ DOMAIN rest = {"nonce", "signers"} /\ rest["nonce"] = time /\ rest["signers"] = << >>
  BY DEF DefaultNonce
<1>5. /\ DOMAIN cmd = DOMAIN old \cup {"nonce", "signers"}
      /\ \A f \in DOMAIN old : cmd[f] = old[f]
      /\ \A f \in {"nonce", "signers"} : f \notin DOMAIN old => cmd[f] = rest[f]
  <2> HIDE DEF rest, old
  <2>1. /\ DOMAIN cmd = DOMAIN old \cup DOMAIN rest
        /\ \A f \in DOMAIN old : cmd[f] = old[f]
        /\ \A f \in DOMAIN rest \ DOMAIN old : cmd[f] = rest[f]
    BY DEF Over
  <2> HIDE DEF cmd
  <2> QED
    BY <1>4, <2>1
<1>6. DOMAIN done = DOMAIN cmd /\ \A f \in DOMAIN cmd : done[f] = Default(f)
  OBVIOUS
<1>7. done = [f \in DOMAIN done |-> done[f]]
  OBVIOUS
<1>8. "meta" \in DOMAIN old => done["meta"] = Over(old["meta"], DefaultMeta(time))
  <2> HIDE DEF done, cmd, old
  <2> QED
    BY <1>5, <1>6
<1>9. ASSUME "payload" \in DOMAIN old
      PROVE  done["payload"] = Settled(old["payload"]) /\ old["payload"] \in Payloads
  <2>1. old["payload"] \in Payloads
    BY <1>1, <1>9 DEF Typed
  <2> HIDE DEF done, cmd, old
  <2>2. cmd["payload"] = old["payload"] /\ done["payload"] = Default("payload")
    BY <1>5, <1>6, <1>9
  <2>3. Default("payload") = IF cmd["payload"].kind = "cont"
             THEN [cmd["payload"] EXCEPT !.proof = IF @ = "undefined" THEN "null" ELSE @]
             ELSE cmd["payload"]
    OBVIOUS
  <2> DEFINE p == old["payload"]
  <2>4. done["payload"] = IF p.kind = "cont"
             THEN [p EXCEPT !.proof = IF @ = "undefined" THEN "null" ELSE @] ELSE p
    BY <2>2, <2>3
  <2>5. p \in Payloads
    BY <2>1
  <2> HIDE DEF p
  <2>6. done["payload"] = Settled(p)
    BY <2>4, <2>5 DEF Settled, Payloads
  <2> QED
    BY <2>5, <2>6 DEF p
<1>10. \A f \in DOMAIN cmd \ {"meta", "payload"} : done[f] = cmd[f]
  <2> HIDE DEF done, cmd, old
  <2> QED
    BY <1>6
<1>11. done["signers"] = ListOf(run) /\ done["nonce"] = Field(old, "nonce", time)
  <2> HIDE DEF done, cmd
  <2> QED
    BY <1>4, <1>5, <1>10 DEF ListOf, Field
<1>12. DefaultMeta(time) \in Metas /\ DOMAIN DefaultMeta(time) = MetaFields \ {"chainId"}
  <2>1. DefaultMeta(time) \in [MetaFields \ {"chainId"} -> Int]
    BY DEF DefaultMeta
  <2> QED
    BY <2>1 DEF Metas
<1>13. "meta" \in DOMAIN old =>
         /\ Over(old["meta"], DefaultMeta(time)) \in Metas
         /\ MetaFields \ {"chainId"} \subseteq DOMAIN Over(old["meta"], DefaultMeta(time))
  <2> DEFINE m == old["meta"]
             d == DefaultMeta(time)
  <2>1. "meta" \in DOMAIN old => m \in Metas
    BY <1>1 DEF Typed
  <2>2. d \in Metas /\ DOMAIN d = MetaFields \ {"chainId"}
    BY <1>12
  <2> HIDE DEF m, d
  <2>3. "meta" \in DOMAIN old => Over(m, d) \in Metas
    BY <2>1, <2>2, MetaMerges
  <2>4. DOMAIN Over(m, d) = DOMAIN m \cup DOMAIN d
    BY OverIs
  <2> QED
    BY <2>2, <2>3, <2>4 DEF m, d
<1>14. ListOf(run) \in Seq(refs) /\ refs \in SUBSET Nat
  BY ListIsTyped
<1>15. \A f \in {"networkId", "verifiers"} \cap DOMAIN old : done[f] = old[f]
  <2> HIDE DEF done, cmd, old
  <2> QED
    BY <1>5, <1>10
<1> HIDE DEF done, cmd, rest, refs, new
<1>16. Typed(done, refs)
  <2> HIDE DEF old
  <2>1. "payload" \in DOMAIN old => done["payload"] \in Payloads
    BY <1>9, SettledIs
  <2>2. Field(old, "nonce", time) \in Int
    BY <1>1 DEF Typed, Field
  <2>3. DOMAIN old \subseteq Fields /\ DOMAIN done = DOMAIN old \cup {"nonce", "signers"}
    BY <1>1, <1>5, <1>6 DEF Typed
  <2>4. /\ "networkId" \in DOMAIN old => done["networkId"] = Given
        /\ "verifiers" \in DOMAIN old => done["verifiers"] \in Seq(Seq(Caps))
    BY <1>1, <1>15 DEF Typed
  <2> QED
    BY <1>8, <1>11, <1>13, <1>14, <2>1, <2>2, <2>3, <2>4 DEF Typed, Fields
<1>17. done \in Cmds
  BY <1>7, <1>14, <1>16, FunctionIsCmd
<1>18. RunTyped(new)
  BY <1>1, <1>3, <1>16, <1>17 DEF RunTyped, RunRecords, IsRun, refs
<1>19. Complete(done)
  <2> HIDE DEF old
  <2>1. DOMAIN done = DOMAIN old \cup {"nonce", "signers"}
    BY <1>5, <1>6
  <2> QED
    BY <1>8, <1>9, <1>13, <2>1, SettledIs DEF Complete
<1>20. ListOf(new) = ListOf(run)
  BY <1>3, <1>5, <1>6, <1>11 DEF ListOf, Field
<1> QED
  BY <1>3, <1>5, <1>6, <1>8, <1>9, <1>11, <1>15, <1>18, <1>19, <1>20 DEF Finalized, new

-----------------------------------------------------------------------------
(* The reducers *)

(* The patch of a reducer that adds no signer. *)
PatchOf(run, step) ==
  CASE step.op = "addData" ->
         [payload |-> [kind |-> run.cmd.payload.kind, code |-> << >>, data |-> {step.key}, proof |-> "undefined"]]
    [] step.op = "addVerifier"  -> [verifiers |-> <<step.clist.caps>>]
    [] step.op = "setMeta"      -> [meta |-> [f \in step.fields |-> Given]]
    [] step.op = "setNetworkId" -> [networkId |-> Given]
    [] step.op = "setNonce"     -> [nonce |-> IF step.own THEN run.cmd.nonce ELSE Given]

Throws(run, step) ==
  ~run.ok \/ (step.op = "addData" /\ step.key \in run.cmd.payload.data)

Thrown(run, new) == RunTyped(new) /\ ~new.ok /\ new.cmd = run.cmd /\ new.heap = run.heap

Ready(run) == RunTyped(run) /\ Complete(run.cmd) /\ "payload" \in DOMAIN run.cmd

(* A reducer that adds no signer patches one field, or throws and leaves   *)
(* all as it was.                                                          *)
LEMMA PlainReduce ==
  ASSUME NEW run, Ready(run), NEW step \in StepRecords, step.op # "addSigner"
  PROVE  /\ Throws(run, step) => Thrown(run, Reduce(run, step))
         /\ ~Throws(run, step) =>
              /\ Based(run, PatchOf(run, step), Reduce(run, step))
              /\ "signers" \notin DOMAIN PatchOf(run, step)
<1> DEFINE patch == PatchOf(run, step)
           new   == Reduce(run, step)
           p     == run.cmd.payload
<1>1. run \in RunRecords /\ RunTyped(run) /\ p \in Payloads /\ run.cmd.nonce \in Int /\ "payload" \in DOMAIN run.cmd
  BY DEF Ready, RunTyped, Typed, Complete
<1>2. CASE ~run.ok
  <2>1. new = run
    BY <1>2 DEF Reduce
  <2> QED
    BY <1>1, <1>2, <2>1 DEF Throws, Thrown
<1>3. CASE run.ok /\ step.op = "addData" /\ step.key \in p.data
  <2>1. new = [run EXCEPT !.ok = FALSE]
    BY <1>3 DEF Reduce, AddData
  <2>2. RunTyped(new) /\ ~new.ok /\ new.cmd = run.cmd /\ new.heap = run.heap
    BY <1>1, <2>1 DEF RunTyped, RunRecords
  <2> QED
    BY <1>3, <2>2 DEF Throws, Thrown
<1>4. CASE run.ok /\ ~(step.op = "addData" /\ step.key \in p.data)
  <2>1. new = PatchCommand(run, patch) /\ Typed(patch, {}) /\ Mergeable(run.cmd, patch) /\ "signers" \notin DOMAIN patch
    <3>1. CASE step.op = "addData"
      <4> DEFINE q == [kind |-> p.kind, code |-> << >>, data |-> {step.key}, proof |-> "undefined"]
      <4>1. new = PatchCommand(run, [payload |-> q]) /\ patch = [payload |-> q]
        BY <1>4, <3>1 DEF Reduce, AddData, PatchOf
      <4>2. step.key \in DataKeys
        BY <3>1 DEF StepRecords, DataStep, SignerStep, VerifierStep, MetaStep, NetworkStep, NonceStep
      <4>3. q \in Payloads /\ q.kind = p.kind
        BY <1>1, <4>2 DEF Payloads
      <4> HIDE DEF q
      <4> QED
        BY <4>1, <4>3 DEF Typed, Fields, Mergeable
    <3>2. CASE step.op = "addVerifier"
      <4> DEFINE q == <<step.clist.caps>>
      <4>1. new = PatchCommand(run, [verifiers |-> q]) /\ patch = [verifiers |-> q]
        BY <1>4, <3>2 DEF Reduce, AddVerifier, PatchOf
      <4>2. step.clist.caps \in Seq(Caps)
        BY <3>2 DEF StepRecords, DataStep, SignerStep, VerifierStep, MetaStep, NetworkStep, NonceStep, CapList
      <4>3. q \in Seq(Seq(Caps))
        BY <4>2
      <4> HIDE DEF q
      <4> QED
        BY <4>1, <4>3 DEF Typed, Fields, Mergeable
    <3>3. CASE step.op = "setMeta"
      <4> DEFINE q == [f \in step.fields |-> Given]
      <4>1. new = PatchCommand(run, [meta |-> q]) /\ patch = [meta |-> q]
        BY <1>4, <3>3 DEF Reduce, SetMeta, PatchOf
      <4>2. step.fields \in SUBSET MetaFields
        BY <3>3 DEF StepRecords, DataStep, SignerStep, VerifierStep, MetaStep, NetworkStep, NonceStep
      <4>3. q \in [step.fields -> Int]
        BY DEF Given
      <4>4. q \in Metas
        BY <4>2, <4>3 DEF Metas
      <4> HIDE DEF q
      <4> QED
        BY <4>1, <4>4 DEF Typed, Fields, Mergeable
    <3>4. CASE step.op = "setNetworkId"
      <4>1. new = PatchCommand(run, [networkId |-> Given]) /\ patch = [networkId |-> Given]
        BY <1>4, <3>4 DEF Reduce, SetNetworkId, PatchOf
      <4> QED
        BY <4>1 DEF Typed, Fields, Mergeable
    <3>5. CASE step.op = "setNonce"
      <4> DEFINE q == IF step.own THEN run.cmd.nonce ELSE Given
      <4>1. new = PatchCommand(run, [nonce |-> q]) /\ patch = [nonce |-> q]
        BY <1>4, <3>5 DEF Reduce, SetNonce, PatchOf
      <4>2. q \in Int
        BY <1>1 DEF Given
      <4> HIDE DEF q
      <4> QED
        BY <4>1, <4>2 DEF Typed, Fields, Mergeable
    <3> QED
      BY <3>1, <3>2, <3>3, <3>4, <3>5
         DEF StepRecords, DataStep, SignerStep, VerifierStep, MetaStep, NetworkStep, NonceStep
  <2>2. Based(run, patch, PatchCommand(run, patch))
    <3> HIDE DEF patch, new
    <3> QED
      BY <1>1, <1>4, <2>1, PlainPatch
  <2> QED
    BY <1>4, <2>1, <2>2 DEF Throws
<1> QED
  BY <1>2, <1>3, <1>4

LEMMA ElementsOf ==
  ASSUME NEW R, NEW s \in Seq(R)
  PROVE  ToSet(s) \subseteq R /\ \A p \in DOMAIN s : s[p] \in R
BY DEF ToSet

LEMMA WiderRefs ==
  ASSUME NEW cmd, NEW refs, Typed(cmd, refs), NEW more, refs \subseteq more
  PROVE  Typed(cmd, more)
<1>1. "signers" \in DOMAIN cmd => cmd["signers"] \in Seq(more)
  <2> DEFINE s == cmd["signers"]
  <2>1. "signers" \in DOMAIN cmd => s \in Seq(refs)
    BY DEF Typed
  <2> HIDE DEF s
  <2>2. "signers" \in DOMAIN cmd => s \in Seq(more)
    BY <2>1
  <2> QED
    BY <2>2 DEF s
<1> QED
  BY <1>1 DEF Typed

(* What addSigner makes ... *)
Made(keys, clist) == [i \in DOMAIN keys |-> [key |-> keys[i], clist |-> clist]]

(* ... and the run before and after each of them is patched in. *)
Fresh(run, keys) == [i \in DOMAIN keys |-> Len(run.heap) + i]

Extended(run, objects, base) ==
  /\ RunTyped(base) /\ base.heap = run.heap \o objects /\ base.ok = run.ok
  /\ ListOf(base) = ListOf(run) /\ DOMAIN base.cmd = DOMAIN run.cmd
  /\ \A f \in DOMAIN run.cmd : base.cmd[f] = run.cmd[f]

LEMMA MadeIs ==
  ASSUME NEW keys \in Seq(Keys), NEW clist \in CapList, NEW run, RunTyped(run)
  PROVE  /\ Made(keys, clist) \in Seq(Signers) /\ Len(Made(keys, clist)) = Len(keys)
         /\ \A i \in 1..Len(keys) : Made(keys, clist)[i] = [key |-> keys[i], clist |-> clist]
         /\ Fresh(run, keys) \in Seq(1..(Len(run.heap) + Len(keys)))
         /\ Len(Fresh(run, keys)) = Len(keys)
         /\ \A i \in 1..Len(keys) : Fresh(run, keys)[i] = Len(run.heap) + i
<1>1. DOMAIN keys = 1..Len(keys) /\ Len(keys) \in Nat /\ \A i \in 1..Len(keys) : keys[i] \in Keys
  OBVIOUS
<1> DEFINE n == Len(run.heap)
           k == Len(keys)
<1>2. n \in Nat
  BY ListIsTyped
<1>3. Made(keys, clist) = [i \in 1..k |-> [key |-> keys[i], clist |-> clist]]
  BY <1>1 DEF Made
<1>4. Fresh(run, keys) = [i \in 1..k |-> n + i]
  BY <1>1 DEF Fresh
<1>5. \A i \in 1..k : [key |-> keys[i], clist |-> clist] \in Signers
  BY <1>1 DEF Signers
<1> HIDE DEF n, k
<1>6. k \in Nat
  BY <1>1 DEF k
<1>7. \A i \in 1..k : n + i \in 1..(n + k)
  BY <1>2, <1>6
<1> QED
  BY <1>2, <1>3, <1>4, <1>5, <1>6, <1>7 DEF n, k

LEMMA HeapGrows ==
  ASSUME NEW run, RunTyped(run), NEW objects \in Seq(Signers)
  PROVE  /\ RunTyped([run EXCEPT !.heap = @ \o objects])
         /\ [run EXCEPT !.heap = @ \o objects].heap = run.heap \o objects
         /\ [run EXCEPT !.heap = @ \o objects].cmd = run.cmd
         /\ [run EXCEPT !.heap = @ \o objects].ok = run.ok
         /\ Len(run.heap \o objects) = Len(run.heap) + Len(objects)
         /\ DOMAIN (run.heap \o objects) = 1..(Len(run.heap) + Len(objects))
         /\ \A i \in 1..Len(run.heap) : (run.heap \o objects)[i] = run.heap[i]
         /\ \A i \in 1..Len(objects) : (run.heap \o objects)[Len(run.heap) + i] = objects[i]
<1> DEFINE h == run.heap
           all == h \o objects
           new == [run EXCEPT !.heap = @ \o objects]
<1>1. run \in RunRecords /\ Typed(run.cmd, DOMAIN h) /\ h \in Seq(Signers)
  BY DEF RunTyped, RunRecords
<1>2. new.heap = all /\ new.cmd = run.cmd /\ new.ok = run.ok /\ IsRun(new)
  BY <1>1 DEF RunRecords, IsRun
<1> HIDE DEF h, new
<1>3. /\ all \in Seq(Signers) /\ Len(all) = Len(h) + Len(objects)
      /\ DOMAIN all = 1..(Len(h) + Len(objects)) /\ DOMAIN h = 1..Len(h)
      /\ Len(h) \in Nat /\ Len(objects) \in Nat
  BY <1>1
<1>4. /\ \A i \in 1..Len(h) : all[i] = h[i]
      /\ \A i \in 1..Len(objects) : all[Len(h) + i] = objects[i]
  BY <1>1
<1> HIDE DEF all
<1>5. DOMAIN h \subseteq DOMAIN all
  BY <1>3
<1>6. Typed(run.cmd, DOMAIN all)
  BY <1>1, <1>5, WiderRefs
<1>7. RunTyped(new)
  BY <1>1, <1>2, <1>3, <1>6 DEF RunTyped, RunRecords, IsRun
<1> QED
  BY <1>2, <1>3, <1>4, <1>7 DEF h, all, new

AddedThrough(f, run, keys, clist) ==
  /\ Extended(run, Made(keys, clist), f[0])
  /\ PatchedSoFar(f, f[0], Fresh(run, keys))
  /\ AddSigner(run, keys, clist) = f[Len(keys)]

(* addSigner makes its signers, then patches them in one by one. *)
LEMMA AddSignerStages ==
  ASSUME NEW run, RunTyped(run), run.ok, NEW keys \in Seq(Keys), NEW clist \in CapList
  PROVE  \E f : AddedThrough(f, run, keys, clist)
<1> DEFINE objects == Made(keys, clist)
           refs == Fresh(run, keys)
           wide == [run EXCEPT !.heap = @ \o objects]
           patch == [signers |-> refs]
           base == Base(wide, patch)
<1>1. /\ objects \in Seq(Signers) /\ Len(objects) = Len(keys) /\ Len(refs) = Len(keys)
      /\ refs \in Seq(1..(Len(run.heap) + Len(keys)))
  BY MadeIs
<1>2. AddSigner(run, keys, clist) = PatchCommand(wide, patch)
  BY Zenon DEF AddSigner, Made, Fresh
<1> HIDE DEF objects
<1>3. /\ RunTyped(wide) /\ wide.heap = run.heap \o objects /\ wide.cmd = run.cmd /\ wide.ok = run.ok
      /\ DOMAIN wide.heap = 1..(Len(run.heap) + Len(keys))
  <2>1. /\ RunTyped(wide) /\ wide.heap = run.heap \o objects /\ wide.cmd = run.cmd /\ wide.ok = run.ok
        /\ DOMAIN (run.heap \o objects) = 1..(Len(run.heap) + Len(objects))
    BY <1>1, Zenon, HeapGrows
  <2> HIDE DEF wide
  <2> QED
    BY <1>1, <2>1
<1> HIDE DEF wide, refs
<1>4. DOMAIN patch = {"signers"} /\ patch["signers"] = refs
  OBVIOUS
<1>5. Typed(patch, DOMAIN wide.heap)
  BY <1>1, <1>3, <1>4 DEF Typed, Fields
<1>6. Mergeable(wide.cmd, patch) /\ Field(patch, "signers", << >>) = refs
  BY <1>4 DEF Mergeable, Field
<1>7. PICK f : PatchedSoFar(f, base, refs) /\ PatchCommand(wide, patch) = f[Len(refs)]
  <2> HIDE DEF patch, base
  <2>1. LET s == Field(patch, "signers", << >>)
        IN  \E f : PatchedSoFar(f, Base(wide, patch), s) /\ PatchCommand(wide, patch) = f[Len(s)]
    BY <1>3, <1>5, <1>6, PatchCommandIs
  <2> QED
    BY <1>6, <2>1 DEF base
<1>8. Based(wide, patch, base)
  <2> HIDE DEF patch
  <2> QED
    BY <1>3, <1>5, BaseIs
<1>9. Extended(run, objects, base)
  <2> HIDE DEF base
  <2>1. ListOf(wide) = ListOf(run)
    BY <1>3 DEF ListOf
  <2> QED
    BY <1>3, <1>4, <1>8, <2>1 DEF Extended, Based
<1>10. f[0] = base
  BY <1>7 DEF PatchedSoFar
<1> QED
  BY <1>1, <1>2, <1>7, <1>9, <1>10 DEF AddedThrough, objects, refs

(* The objects that existed change only if the command lists them. *)
LEMMA AddSignerKeeps ==
  ASSUME NEW run, RunTyped(run), run.ok, NEW keys \in Seq(Keys), NEW clist \in CapList
  PROVE  LET new == AddSigner(run, keys, clist)
         IN  /\ RunTyped(new) /\ new.ok /\ Len(new.heap) = Len(run.heap) + Len(keys)
             /\ DOMAIN run.cmd \subseteq DOMAIN new.cmd
             /\ DOMAIN new.cmd \subseteq DOMAIN run.cmd \cup {"signers"}
             /\ \A f \in DOMAIN run.cmd \ {"signers"} : new.cmd[f] = run.cmd[f]
             /\ \A r \in ToSet(ListOf(new)) : r \in ToSet(ListOf(run)) \/ r > Len(run.heap)
             /\ \A r \in DOMAIN run.heap \ ToSet(ListOf(run)) : new.heap[r] = run.heap[r]
<1> DEFINE objects == Made(keys, clist)
           refs == Fresh(run, keys)
           k == Len(keys)
           n == Len(run.heap)
           new == AddSigner(run, keys, clist)
<1>1. PICK f : AddedThrough(f, run, keys, clist)
  BY AddSignerStages
<1>2. /\ objects \in Seq(Signers) /\ Len(objects) = k /\ Len(refs) = k
      /\ \A i \in 1..k : refs[i] = n + i
  BY MadeIs
<1>3. k \in Nat /\ n \in Nat /\ DOMAIN run.heap = 1..n
  BY ListIsTyped
<1>4. new = f[k] /\ PatchedSoFar(f, f[0], refs) /\ Extended(run, objects, f[0])
  BY <1>1 DEF AddedThrough
<1> DEFINE base == f[0]
<1> HIDE DEF new, refs, objects
<1>5. RunTyped(new) /\ Keeps(base, First(refs, k), new)
  <2>1. k \in 0..Len(refs)
    BY <1>2, <1>3
  <2> HIDE DEF k
  <2> QED
    BY <1>4, <2>1 DEF PatchedSoFar
<1>6. /\ Len(base.heap) = n + k /\ DOMAIN base.heap = 1..(n + k)
      /\ \A i \in 1..n : base.heap[i] = run.heap[i]
  <2>1. base.heap = run.heap \o objects
    BY <1>4 DEF Extended
  <2> HIDE DEF base, k
  <2>2. /\ Len(run.heap \o objects) = n + Len(objects)
        /\ DOMAIN (run.heap \o objects) = 1..(n + Len(objects))
        /\ \A i \in 1..n : (run.heap \o objects)[i] = run.heap[i]
    BY <1>2, HeapGrows
  <2> QED
    BY <1>2, <2>1, <2>2
<1>7. \A r \in First(refs, k) : r > n
  BY <1>2, <1>3 DEF First
<1> HIDE DEF base, n, k
<1>8. /\ ListOf(base) = ListOf(run) /\ DOMAIN base.cmd = DOMAIN run.cmd /\ base.ok = run.ok
      /\ \A x \in DOMAIN run.cmd : base.cmd[x] = run.cmd[x]
  BY <1>4 DEF Extended, base
<1>9. /\ new.ok /\ Len(new.heap) = n + k
      /\ DOMAIN run.cmd \subseteq DOMAIN new.cmd
      /\ DOMAIN new.cmd \subseteq DOMAIN run.cmd \cup {"signers"}
      /\ \A x \in DOMAIN run.cmd \ {"signers"} : new.cmd[x] = run.cmd[x]
  BY <1>5, <1>6, <1>8 DEF Keeps
<1>10. \A r \in ToSet(ListOf(new)) : r \in ToSet(ListOf(run)) \/ r > n
  BY <1>5, <1>7, <1>8 DEF Keeps
<1>11. \A r \in DOMAIN run.heap \ ToSet(ListOf(run)) : new.heap[r] = run.heap[r]
  <2> SUFFICES ASSUME NEW r \in DOMAIN run.heap \ ToSet(ListOf(run))
               PROVE  new.heap[r] = run.heap[r]
    OBVIOUS
  <2>1. r \in 1..n /\ r \in DOMAIN base.heap
    BY <1>3, <1>6
  <2>2. r \notin First(refs, k)
    BY <1>3, <1>7, <2>1
  <2> QED
    BY <1>5, <1>6, <1>8, <2>1, <2>2 DEF Keeps
<1> QED
  BY <1>5, <1>9, <1>10, <1>11 DEF new, n, k

-----------------------------------------------------------------------------
(* The signers a run has, without references *)

(* One after the other, the signers of a sequence are patched in. *)
ViewThrough(v, view, signers) ==
  /\ v[0] = view
  /\ \A n \in 1..Len(signers) : v[n] = PatchView(v[n-1], signers[n])

(* Patching the same signers into the same list has one outcome. *)
LEMMA ViewThroughIsOne ==
  ASSUME NEW signers, Len(signers) \in Nat, NEW view, NEW v, NEW w,
         ViewThrough(v, view, signers), ViewThrough(w, view, signers)
  PROVE  v[Len(signers)] = w[Len(signers)]
<1> DEFINE N == Len(signers)
           T == {n \in 0..N : v[n] = w[n]}
<1>1. 0 \in T
  BY DEF ViewThrough
<1>2. ASSUME NEW n \in 0..N, n < N, n \in T PROVE n + 1 \in T
  <2>1. n + 1 \in 1..N /\ (n + 1) - 1 = n
    BY <1>2
  <2> QED
    BY <1>2, <2>1 DEF ViewThrough
<1> HIDE DEF T
<1>3. 0..N \subseteq T
  BY <1>1, <1>2, BoundedInduction
<1> QED
  BY <1>3 DEF T

(* What addSigner does to the signers of a run, without references. *)
LEMMA AddSignerView ==
  ASSUME NEW run, RunTyped(run), run.ok, KeysDiffer(run), NEW keys \in Seq(Keys), NEW clist \in CapList
  PROVE  /\ KeysDiffer(AddSigner(run, keys, clist))
         /\ \E v : /\ ViewThrough(v, View(run), Made(keys, clist))
                   /\ \A n \in 0..Len(keys) :
                        v[n] \in Seq(Signers) /\ \A p, q \in DOMAIN v[n] : v[n][p].key = v[n][q].key => p = q
                   /\ View(AddSigner(run, keys, clist)) = v[Len(keys)]
<1> DEFINE objects == Made(keys, clist)
           refs == Fresh(run, keys)
           k == Len(keys)
           m == Len(run.heap)
           new == AddSigner(run, keys, clist)
<1>1. PICK f : AddedThrough(f, run, keys, clist)
  BY AddSignerStages
<1>2. /\ objects \in Seq(Signers) /\ Len(objects) = k /\ Len(refs) = k
      /\ \A i \in 1..k : refs[i] = m + i
  BY MadeIs
<1>3. k \in Nat /\ m \in Nat /\ DOMAIN run.heap = 1..m
  BY ListIsTyped
<1>4. new = f[k] /\ PatchedSoFar(f, f[0], refs) /\ Extended(run, objects, f[0])
  BY <1>1 DEF AddedThrough
<1> DEFINE base == f[0]
           v == [n \in 0..k |-> View(f[n])]
<1>5. /\ Len(base.heap) = m + k /\ DOMAIN base.heap = 1..(m + k)
      /\ \A i \in 1..m : base.heap[i] = run.heap[i]
      /\ \A i \in 1..k : base.heap[m + i] = objects[i]
  BY <1>2, <1>4, HeapGrows DEF Extended
<1>6. ListOf(base) = ListOf(run) /\ RunTyped(base)
  BY <1>4 DEF Extended
<1>7. ListOf(run) \in Seq(1..m)
  BY <1>3, ListIsTyped
<1> HIDE DEF base, m, k, new, refs, objects
<1>8. \A p \in DOMAIN ListOf(run) : base.heap[ListOf(run)[p]] = run.heap[ListOf(run)[p]]
  <2> DEFINE list == ListOf(run)
  <2>1. \A p \in DOMAIN list : list[p] \in 1..m
    BY <1>7, ElementsOf
  <2> HIDE DEF list
  <2> QED
    BY <1>5, <2>1 DEF list
<1>9. View(base) = View(run) /\ KeysDiffer(base)
  BY <1>6, <1>8 DEF View, KeysDiffer
<1>10. ASSUME NEW n \in 0..k
       PROVE RunTyped(f[n]) /\ Keeps(base, First(refs, n), f[n]) /\ KeysDiffer(f[n])
  <2>1. n \in 0..Len(refs)
    BY <1>2
  <2> QED
    BY <1>4, <1>9, <2>1 DEF PatchedSoFar, base
<1>11. ASSUME NEW n \in 1..k PROVE View(f[n]) = PatchView(View(f[n-1]), objects[n])
  <2> DEFINE mid == f[n-1]
             ref == refs[n]
  <2>1. n - 1 \in 0..k /\ n - 1 \in Nat
    BY <1>3
  <2>2. f[n] = PatchSigner(mid, ref) /\ ref = m + n /\ ref \in DOMAIN base.heap
    <3>1. n \in 1..Len(refs) /\ ref = m + n
      BY <1>2
    <3>2. f[n] = PatchSigner(mid, ref)
      BY <1>4, <3>1 DEF PatchedSoFar
    <3>3. m + n \in 1..(m + k)
      BY <1>3
    <3> QED
      BY <1>5, <3>1, <3>2, <3>3
  <2>3. RunTyped(mid) /\ Keeps(base, First(refs, n - 1), mid) /\ KeysDiffer(mid)
    BY <1>10, <2>1
  <2>4. ref \notin First(refs, n - 1)
    BY <1>2, <1>3, <2>1, <2>2 DEF First
  <2>5. ref \notin ToSet(ListOf(base))
    <3>1. ToSet(ListOf(base)) \subseteq 1..m
      BY <1>6, <1>7, ElementsOf
    <3> QED
      BY <1>3, <2>2, <3>1
  <2> HIDE DEF mid, ref
  <2>6. mid.heap[ref] = base.heap[ref]
    BY <2>2, <2>3, <2>4, <2>5 DEF Keeps
  <2>7. base.heap[ref] = objects[n]
    BY <1>5, <2>2
  <2>8. ref \in DOMAIN mid.heap
    BY <1>6, <2>2, <2>3, ListIsTyped DEF Keeps
  <2>9. View(PatchSigner(mid, ref)) = PatchView(View(mid), mid.heap[ref])
    BY <2>3, <2>8, PatchSignerView
  <2> QED
    BY <2>2, <2>6, <2>7, <2>9 DEF mid
<1>12. /\ v[0] = View(run) /\ v[k] = View(new)
       /\ \A n \in 0..k : v[n] = View(f[n])
  BY <1>3, <1>4, <1>9 DEF base
<1> HIDE DEF v
<1>13. ViewThrough(v, View(run), objects)
  <2>1. \A n \in 1..k : n \in 0..k /\ n - 1 \in 0..k
    BY <1>3
  <2> QED
    BY <1>2, <1>11, <1>12, <2>1 DEF ViewThrough
<1>14. ASSUME NEW n \in 0..k
       PROVE  v[n] \in Seq(Signers) /\ \A p, q \in DOMAIN v[n] : v[n][p].key = v[n][q].key => p = q
  <2> DEFINE x == f[n]
  <2>1. RunTyped(x) /\ KeysDiffer(x)
    BY <1>10
  <2>2. v[n] = View(x)
    BY <1>12
  <2> HIDE DEF x
  <2> QED
    BY <2>1, <2>2, ViewIsTyped DEF View, KeysDiffer
<1>15. KeysDiffer(new)
  <2>1. k \in 0..k
    BY <1>3
  <2> QED
    BY <1>4, <1>10, <2>1
<1> QED
  BY <1>12, <1>13, <1>14, <1>15 DEF objects, new, k

(* The capabilities the signer of a key has, none if the key has no signer. *)
Carries(view, key, caps) ==
  /\ \A p \in DOMAIN view : view[p].key = key => view[p].clist.caps = caps
  /\ (\A p \in DOMAIN view : view[p].key # key) => caps = << >>

(* A signer adds its capabilities to those of its key, and to no other. *)
LEMMA PatchViewCarries ==
  ASSUME NEW view \in Seq(Signers), \A p, q \in DOMAIN view : view[p].key = view[q].key => p = q,
         NEW s \in Signers, NEW key, NEW caps \in Seq(Caps), Carries(view, key, caps)
  PROVE  Carries(PatchView(view, s), key, IF key = s.key THEN caps \o s.clist.caps ELSE caps)
<1> DEFINE found == {p \in DOMAIN view : view[p].key = s.key}
           more == s.clist.caps
           N == Len(view)
<1>1. /\ more \in Seq(Caps) /\ N \in Nat /\ DOMAIN view = 1..N
      /\ \A p \in 1..N : view[p] \in Signers
  <2>1. more \in Seq(Caps)
    BY DEF Signers, CapList
  <2> HIDE DEF more
  <2> QED
    BY <2>1
<1>2. /\ \A p \in 1..N : view[p].key = key => view[p].clist.caps = caps
      /\ (\A p \in 1..N : view[p].key # key) => caps = << >>
  BY <1>1 DEF Carries
<1>3. CASE found = {}
  <2> DEFINE new == Append(view, s)
  <2>1. PatchView(view, s) = new
    BY <1>3, Zenon DEF PatchView
  <2>2. /\ DOMAIN new = 1..(N + 1) /\ new[N + 1] = s
        /\ \A p \in 1..N : new[p] = view[p]
    BY <1>1
  <2>3. \A p \in 1..N : view[p].key # s.key
    BY <1>1, <1>3
  <2>4. caps \o more = more \/ key # s.key
    <3>1. key = s.key => caps = << >>
      BY <1>2, <2>3
    <3> HIDE DEF more
    <3> QED
      BY <1>1, <3>1
  <2> HIDE DEF new, N
  <2>5. \A p \in 1..(N + 1) : p \in 1..N \/ p = N + 1
    BY <1>1
  <2>6. N + 1 \in 1..(N + 1) /\ \A p \in 1..N : p \in 1..(N + 1)
    BY <1>1
  <2>7. CASE key = s.key
    <3>1. Carries(new, key, more)
      BY <2>2, <2>3, <2>5, <2>6, <2>7 DEF Carries
    <3> QED
      BY <2>1, <2>4, <2>7, <3>1
  <2>8. CASE key # s.key
    <3>1. Carries(new, key, caps)
      BY <1>2, <2>2, <2>5, <2>6, <2>8 DEF Carries
    <3> QED
      BY <2>1, <2>8, <3>1
  <2> QED
    BY <2>7, <2>8
<1>4. CASE found # {}
  <2> DEFINE i == Min(found)
             old == view[i].clist.caps
             one == [key |-> view[i].key, clist |-> [listed |-> TRUE, caps |-> old \o more]]
             new == [view EXCEPT ![i] = one]
  <2>1. PatchView(view, s) = new
    BY <1>4, Zenon DEF PatchView
  <2>2. i \in found
    <3>1. found \subseteq Nat
      BY <1>1
    <3> HIDE DEF found
    <3> QED
      BY <1>4, <3>1, LeastPosition
  <2> HIDE DEF i
  <2>3. i \in 1..N /\ view[i].key = s.key /\ \A p \in 1..N : view[p].key = s.key => p = i
    BY <1>1, <2>2
  <2>4. one.key = s.key /\ one.clist.caps = old \o more
    BY <2>3
  <2> HIDE DEF one
  <2>5. DOMAIN new = 1..N /\ new[i] = one /\ \A p \in 1..N : p # i => new[p] = view[p]
    BY <1>1, <2>3
  <2> HIDE DEF new, N, more, old
  <2>6. CASE key = s.key
    <3>1. caps = old
      BY <1>2, <2>3, <2>6 DEF old
    <3>2. Carries(new, key, caps \o more)
      BY <2>3, <2>4, <2>5, <2>6, <3>1 DEF Carries
    <3> QED
      BY <2>1, <2>6, <3>2 DEF more
  <2>7. CASE key # s.key
    <3>1. Carries(new, key, caps)
      BY <1>2, <2>3, <2>4, <2>5, <2>7 DEF Carries
    <3> QED
      BY <2>1, <2>7, <3>1
  <2> QED
    BY <2>6, <2>7
<1> QED
  BY <1>3, <1>4

(* addSigner gives its capabilities to each key it names, after those the  *)
(* key already has.                                                        *)
LEMMA AddSignerCarries ==
  ASSUME NEW run, RunTyped(run), run.ok, KeysDiffer(run),
         NEW keys \in Seq(Keys), Distinct(keys), NEW clist \in CapList,
         NEW key, NEW caps \in Seq(Caps), Carries(View(run), key, caps)
  PROVE  Carries(View(AddSigner(run, keys, clist)), key,
                 IF key \in ToSet(keys) THEN caps \o clist.caps ELSE caps)
<1> DEFINE k == Len(keys)
           objects == Made(keys, clist)
           new == View(AddSigner(run, keys, clist))
           both == caps \o clist.caps
           Got(n) == IF key \in First(keys, n) THEN both ELSE caps
<1>1. PICK v : /\ ViewThrough(v, View(run), objects) /\ new = v[k]
               /\ \A n \in 0..k : /\ v[n] \in Seq(Signers)
                                  /\ \A p, q \in DOMAIN v[n] : v[n][p].key = v[n][q].key => p = q
  BY AddSignerView
<1>2. /\ Len(objects) = k /\ objects \in Seq(Signers)
      /\ \A n \in 1..k : objects[n] = [key |-> keys[n], clist |-> clist]
  BY MadeIs
<1>3. k \in Nat /\ DOMAIN keys = 1..k
  OBVIOUS
<1>4. /\ v[0] = View(run)
      /\ \A n \in 1..k : v[n] = PatchView(v[n-1], objects[n])
  BY <1>1, <1>2 DEF ViewThrough
<1>5. clist.caps \in Seq(Caps)
  BY DEF CapList
<1> HIDE DEF k, objects, new
<1>6. both \in Seq(Caps)
  <2> DEFINE more == clist.caps
  <2>1. more \in Seq(Caps)
    BY <1>5
  <2> HIDE DEF more
  <2>2. caps \o more \in Seq(Caps)
    BY <2>1
  <2> QED
    BY <2>2 DEF more
<1> DEFINE T == {n \in 0..k : Carries(v[n], key, Got(n))}
<1>7. 0 \in T
  BY <1>3, <1>4, FirstGrows
<1>8. ASSUME NEW n \in 0..k, n < k, n \in T PROVE n + 1 \in T
  <2>1. n + 1 \in 1..k /\ (n + 1) - 1 = n /\ n \in Nat /\ n + 1 \in 0..k
    BY <1>3, <1>8
  <2> DEFINE view == v[n]
             s == objects[n+1]
             got == Got(n)
  <2>2. v[n+1] = PatchView(view, s) /\ s.key = keys[n+1] /\ s.clist = clist /\ s \in Signers
    BY <1>2, <1>4, <2>1
  <2>3. /\ view \in Seq(Signers) /\ \A p, q \in DOMAIN view : view[p].key = view[q].key => p = q
    BY <1>1
  <2>4. got \in Seq(Caps) /\ Carries(view, key, got)
    BY <1>6, <1>8
  <2>5. keys[n+1] \notin First(keys, n)
    <3> SUFFICES ASSUME NEW i \in 1..n, keys[i] = keys[n+1] PROVE FALSE
      BY DEF First
    <3>1. i \in DOMAIN keys /\ n + 1 \in DOMAIN keys /\ i # n + 1
      BY <1>3, <2>1
    <3> QED
      BY <3>1 DEF Distinct
  <2>6. First(keys, n + 1) = First(keys, n) \cup {keys[n+1]}
    BY <2>1, FirstGrows
  <2>7. Got(n + 1) = IF key = keys[n+1] THEN got \o clist.caps ELSE got
    BY <2>5, <2>6
  <2> HIDE DEF view, s, got, T, both
  <2>8. Carries(PatchView(view, s), key, IF key = s.key THEN got \o s.clist.caps ELSE got)
    BY <2>2, <2>3, <2>4, PatchViewCarries
  <2>9. Carries(v[n+1], key, Got(n + 1))
    BY <2>2, <2>7, <2>8
  <2> QED
    BY <2>1, <2>9 DEF T
<1> HIDE DEF T
<1>9. 0..k \subseteq T
  BY <1>3, <1>7, <1>8, BoundedInduction
<1>10. Carries(v[k], key, Got(k))
  BY <1>3, <1>9 DEF T
<1>11. First(keys, k) = ToSet(keys)
  BY <1>3 DEF First, ToSet
<1> QED
  BY <1>1, <1>10, <1>11 DEF new

-----------------------------------------------------------------------------
(* One method of a builder at a run, and the finalisation after it *)

(* The objects a run changes are its own, and those its list names. *)
Spares(old, new) ==
  /\ Len(old.heap) <= Len(new.heap)
  /\ \A r \in ToSet(ListOf(new)) : r \in ToSet(ListOf(old)) \/ r > Len(old.heap)
  /\ \A r \in DOMAIN old.heap \ ToSet(ListOf(old)) : new.heap[r] = old.heap[r]

Done(run, step, time) == Finalize(Reduce(run, step), time)

LEMMA SparesSame ==
  ASSUME NEW old, RunTyped(old), NEW new, new.heap = old.heap, ListOf(new) = ListOf(old)
  PROVE  Spares(old, new) /\ View(new) = View(old) /\ (KeysDiffer(old) <=> KeysDiffer(new))
<1>1. Len(old.heap) \in Nat
  BY ListIsTyped
<1> QED
  BY <1>1 DEF Spares, View, KeysDiffer

(* A reducer writes to the objects of its own run only. *)
LEMMA ReduceKeeps ==
  ASSUME NEW run, Ready(run), NEW step \in StepRecords
  PROVE  LET new == Reduce(run, step)
         IN  /\ RunTyped(new) /\ Spares(run, new) /\ "payload" \in DOMAIN new.cmd
             /\ KeysDiffer(run) => KeysDiffer(new)
             /\ new.ok => run.ok
             /\ step.op # "addSigner" => View(new) = View(run)
<1> DEFINE new == Reduce(run, step)
<1>1. RunTyped(run) /\ "payload" \in DOMAIN run.cmd
  BY DEF Ready
<1>2. CASE step.op # "addSigner"
  <2>1. CASE Throws(run, step)
    <3>1. Thrown(run, new)
      BY <1>2, <2>1, PlainReduce
    <3>2. new.heap = run.heap /\ ListOf(new) = ListOf(run)
      BY <3>1 DEF Thrown, ListOf
    <3> HIDE DEF new
    <3> QED
      BY <1>1, <3>1, <3>2, SparesSame DEF Thrown, new
  <2>2. CASE ~Throws(run, step)
    <3>1. Based(run, PatchOf(run, step), new)
      BY <1>2, <2>2, PlainReduce
    <3>2. RunTyped(new) /\ new.heap = run.heap /\ ListOf(new) = ListOf(run)
          /\ new.ok = run.ok /\ "payload" \in DOMAIN new.cmd
      BY <1>1, <3>1 DEF Based
    <3> HIDE DEF new
    <3> QED
      BY <1>1, <3>2, SparesSame DEF new
  <2> QED
    BY <2>1, <2>2
<1>3. CASE step.op = "addSigner"
  <2>1. CASE ~run.ok
    <3>1. new = run
      BY <2>1 DEF Reduce
    <3> QED
      BY <1>1, <1>3, <2>1, <3>1, SparesSame
  <2>2. CASE run.ok
    <3>1. new = AddSigner(run, step.keys, step.clist)
      BY <1>3, <2>2 DEF Reduce
    <3>2. step.keys \in Seq(Keys) /\ step.clist \in CapList
      BY <1>3 DEF StepRecords, DataStep, SignerStep, VerifierStep, MetaStep, NetworkStep, NonceStep
    <3> DEFINE keys == step.keys
               clist == step.clist
    <3>3. Len(keys) \in Nat
      BY <3>2
    <3> HIDE DEF new, keys, clist
    <3>4. new = AddSigner(run, keys, clist) /\ keys \in Seq(Keys) /\ clist \in CapList
      BY <3>1, <3>2 DEF keys, clist
    <3>5. /\ RunTyped(new) /\ new.ok /\ Len(new.heap) = Len(run.heap) + Len(keys)
          /\ DOMAIN run.cmd \subseteq DOMAIN new.cmd
          /\ \A r \in ToSet(ListOf(new)) : r \in ToSet(ListOf(run)) \/ r > Len(run.heap)
          /\ \A r \in DOMAIN run.heap \ ToSet(ListOf(run)) : new.heap[r] = run.heap[r]
      BY <1>1, <2>2, <3>4, AddSignerKeeps
    <3>6. KeysDiffer(run) => KeysDiffer(new)
      BY <1>1, <2>2, <3>4, AddSignerView
    <3>7. Len(run.heap) \in Nat
      BY <1>1, ListIsTyped
    <3>8. Len(run.heap) <= Len(new.heap)
      BY <3>3, <3>5, <3>7
    <3> QED
      BY <1>1, <1>3, <2>2, <3>5, <3>6, <3>8 DEF Spares, new
  <2> QED
    BY <2>1, <2>2
<1> QED
  BY <1>2, <1>3

LEMMA FinalizeKeeps ==
  ASSUME NEW run, RunTyped(run), NEW time \in Nat
  PROVE  LET new == Finalize(run, time)
         IN  /\ "payload" \in DOMAIN run.cmd => Ready(new)
             /\ Spares(run, new) /\ new.heap = run.heap /\ ListOf(new) = ListOf(run)
             /\ View(new) = View(run) /\ (KeysDiffer(run) => KeysDiffer(new))
             /\ new.ok = run.ok
<1>1. Finalized(run, time, Finalize(run, time))
  BY FinalizeIs
<1>2. /\ Finalize(run, time).heap = run.heap /\ ListOf(Finalize(run, time)) = ListOf(run)
      /\ Finalize(run, time).ok = run.ok
      /\ "payload" \in DOMAIN run.cmd => Ready(Finalize(run, time))
  BY <1>1 DEF Finalized, Ready
<1> QED
  BY <1>2, SparesSame

(* So do a reducer and the finalisation after it. *)
LEMMA DoneKeeps ==
  ASSUME NEW run, Ready(run), NEW step \in StepRecords, NEW time \in Nat
  PROVE  LET new == Done(run, step, time)
         IN  /\ Ready(new) /\ Spares(run, new)
             /\ KeysDiffer(run) => KeysDiffer(new)
             /\ new.ok => run.ok
             /\ step.op # "addSigner" => View(new) = View(run)
<1> DEFINE mid == Reduce(run, step)
           new == Finalize(mid, time)
<1>1. /\ RunTyped(mid) /\ Spares(run, mid) /\ "payload" \in DOMAIN mid.cmd
      /\ KeysDiffer(run) => KeysDiffer(mid)
      /\ mid.ok => run.ok
      /\ step.op # "addSigner" => View(mid) = View(run)
  BY ReduceKeeps
<1> HIDE DEF mid
<1>2. /\ Ready(new) /\ new.heap = mid.heap /\ ListOf(new) = ListOf(mid)
      /\ View(new) = View(mid) /\ (KeysDiffer(mid) => KeysDiffer(new)) /\ new.ok = mid.ok
  BY <1>1, FinalizeKeeps
<1> HIDE DEF new
<1>3. Spares(run, new)
  BY <1>1, <1>2 DEF Spares
<1> QED
  BY <1>1, <1>2, <1>3 DEF Done, new, mid

-----------------------------------------------------------------------------
(* A builder's methods, one after the other *)

RunThrough(f, T, initial, objects, steps, time) ==
  /\ f \in [0..Len(steps) -> T]
  /\ f[0] = Finalize(PatchCommand(Start(objects), initial), time)
  /\ RunAll(initial, objects, steps, time) = f[Len(steps)]
  /\ \A n \in 1..Len(steps) : f[n] = Done(f[n-1], steps[n], time)

LEMMA RunStages ==
  ASSUME NEW T, NEW X, NEW initial, NEW objects, NEW time,
         Finalize(PatchCommand(Start(objects), initial), time) \in T,
         NEW steps \in Seq(X), \A x \in T, s \in X : Done(x, s, time) \in T
  PROVE  \E f : RunThrough(f, T, initial, objects, steps, time)
<1> DEFINE first == Finalize(PatchCommand(Start(objects), initial), time)
           g == [x \in T \X X |-> Done(x[1], x[2], time)]
           Is(iter) == iter = [t \in SUBSET DOMAIN steps |->
             IF t = {} THEN first
             ELSE Done(iter[t \ {Greatest(t)}], steps[Greatest(t)], time)]
<1>1. Len(steps) \in Nat /\ DOMAIN steps = 1..Len(steps) /\ first \in T
  OBVIOUS
<1>2. /\ g \in [T \X X -> T]
      /\ \A x \in T, s \in X : Step1(g, x, s) = Done(x, s, time)
  BY DEF Step1
<1>3. ASSUME NEW t \in SUBSET (1..Len(steps)), t # {} PROVE steps[Greatest(t)] \in X
  <2>1. Greatest(t) \in t
    BY <1>1, <1>3, GreatestOf
  <2>2. Greatest(t) \in 1..Len(steps)
    BY <2>1
  <2> HIDE DEF g, Is, first
  <2> QED
    BY <2>2
<1>6a. RunAll(initial, objects, steps, time) = (CHOOSE iter : Is(iter))[DOMAIN steps]
  BY Zenon DEF RunAll, Done, FoldLeft, MapThenFoldSet, Max, Greatest
<1> HIDE DEF g, first
<1>4. PICK any \in [SUBSET DOMAIN steps -> T] : FoldsOver(any, Len(steps), first, g, steps)
  BY <1>1, <1>2, FoldExists
<1>5. Is(any)
  <2>1. \A t \in SUBSET (1..Len(steps)) : t # {} =>
          any[t \ {Greatest(t)}] \in T /\ steps[Greatest(t)] \in X
    BY <1>1, <1>3, <1>4
  <2>2. \A t \in SUBSET (1..Len(steps)) : t # {} =>
          Step1(g, any[t \ {Greatest(t)}], steps[Greatest(t)])
            = Done(any[t \ {Greatest(t)}], steps[Greatest(t)], time)
    BY <1>2, <2>1
  <2> QED
    BY <1>1, <1>4, <2>2 DEF FoldsOver
<1>6. PICK iter : Is(iter) /\ RunAll(initial, objects, steps, time) = iter[DOMAIN steps]
  BY <1>5, <1>6a
<1>7. iter[{}] = first
  BY <1>6
<1>8. FoldsLike(iter, Len(steps), T, g, steps)
  <2>1. ASSUME NEW t \in SUBSET (1..Len(steps)), t # {}, iter[t \ {Greatest(t)}] \in T
        PROVE  iter[t] = Step1(g, iter[t \ {Greatest(t)}], steps[Greatest(t)])
    <3>1. steps[Greatest(t)] \in X
      BY <1>3, <2>1
    <3>2. iter[t] = Done(iter[t \ {Greatest(t)}], steps[Greatest(t)], time)
      BY <1>1, <1>6, <2>1
    <3> HIDE DEF Is
    <3> QED
      BY <1>2, <2>1, <3>1, <3>2
  <2> HIDE DEF Is
  <2> QED
    BY <2>1 DEF FoldsLike
<1> HIDE DEF Is
<1>9. PICK f : StagesOf(f, first, T, g, steps) /\ iter[DOMAIN steps] = f[Len(steps)]
  <2>1. Staged(iter, first, T, g, steps)
    BY <1>1, <1>2, <1>7, <1>8, FoldStages
  <2> QED
    BY <2>1 DEF Staged
<1>10. ASSUME NEW n \in 1..Len(steps) PROVE f[n] = Done(f[n-1], steps[n], time)
  <2>1. n - 1 \in 0..Len(steps) /\ steps[n] \in X
    BY <1>1
  <2>2. f[n-1] \in T /\ f[n] = Step1(g, f[n-1], steps[n])
    BY <1>9, <2>1 DEF StagesOf
  <2> QED
    BY <1>2, <2>1, <2>2
<1> QED
  BY <1>6, <1>9, <1>10 DEF StagesOf, RunThrough, first

(* What a run has left of the objects it was given. *)
Apart(objects, shared, run) ==
  /\ Len(objects) <= Len(run.heap)
  /\ \A r \in ToSet(ListOf(run)) : r \in shared \/ r > Len(objects)
  /\ \A r \in DOMAIN objects \ shared : run.heap[r] = objects[r]

(* What was not the run's own when it began is still not touched. *)
LEMMA ApartStays ==
  ASSUME NEW objects \in Seq(Signers), NEW shared, NEW old, RunTyped(old), Apart(objects, shared, old),
         NEW new, RunTyped(new), Spares(old, new)
  PROVE  Apart(objects, shared, new)
<1>1. /\ Len(objects) \in Nat /\ DOMAIN objects = 1..Len(objects)
      /\ Len(old.heap) \in Nat /\ DOMAIN old.heap = 1..Len(old.heap) /\ Len(new.heap) \in Nat
      /\ DOMAIN new.heap = 1..Len(new.heap)
  BY ListIsTyped
<1>2. ToSet(ListOf(new)) \subseteq Nat
  <2>1. ToSet(ListOf(new)) \subseteq DOMAIN new.heap
    BY ListIsTyped, ElementsOf
  <2> QED
    BY <1>1, <2>1
<1>3. Len(objects) <= Len(new.heap)
  BY <1>1 DEF Apart, Spares
<1>4. ASSUME NEW r \in ToSet(ListOf(new)) PROVE r \in shared \/ r > Len(objects)
  <2>1. r \in ToSet(ListOf(old)) \/ r > Len(old.heap)
    BY <1>4 DEF Spares
  <2>2. r \in Nat
    BY <1>2, <1>4
  <2> QED
    BY <1>1, <2>1, <2>2 DEF Apart
<1>5. ASSUME NEW r \in DOMAIN objects \ shared PROVE new.heap[r] = objects[r]
  <2>1. r \in DOMAIN old.heap /\ r \in Nat /\ ~(r > Len(objects))
    BY <1>1, <1>5 DEF Apart
  <2>2. r \notin ToSet(ListOf(old))
    BY <1>5, <2>1 DEF Apart
  <2> QED
    BY <1>5, <2>1, <2>2 DEF Apart, Spares
<1> QED
  BY <1>3, <1>4, <1>5 DEF Apart

StartsFrom(initial, objects) ==
  objects \in Seq(Signers) /\ Typed(initial, DOMAIN objects) /\ "payload" \in DOMAIN initial

SharedBy(initial) == ToSet(Field(initial, "signers", << >>))

(* The nested composePactCommand starts from a patched {}. *)
LEMMA StartIs ==
  ASSUME NEW initial, NEW objects, StartsFrom(initial, objects)
  PROVE  LET new == PatchCommand(Start(objects), initial)
         IN  /\ RunTyped(new) /\ new.ok /\ "payload" \in DOMAIN new.cmd
             /\ KeysDiffer(new) /\ Apart(objects, SharedBy(initial), new)
             /\ \A f \in DOMAIN initial \ {"signers"} : new.cmd[f] = PatchOne(<< >>, initial, f)
             /\ DOMAIN new.cmd \ {"signers"} = DOMAIN initial \ {"signers"}
             /\ "signers" \notin DOMAIN initial => View(new) = << >> /\ DOMAIN new.cmd = DOMAIN initial
<1> DEFINE refs == Field(initial, "signers", << >>)
           new == PatchCommand(Start(objects), initial)
           start == Start(objects)
           base == Base(start, initial)
<1>1. objects \in Seq(Signers) /\ DOMAIN objects = 1..Len(objects) /\ Len(objects) \in Nat
  BY DEF StartsFrom
<1>2. start.cmd = << >> /\ start.heap = objects /\ start.ok /\ IsRun(start) /\ start.ok = TRUE
  BY DEF Start, IsRun
<1>3. RunTyped(start)
  <2>1. DOMAIN << >> = {} /\ << >> = [f \in {} |-> << >>[f]]
    OBVIOUS
  <2>2. Typed(<< >>, 1..Len(objects))
    BY <2>1 DEF Typed
  <2>3. << >> \in Cmds
    <3> DEFINE e == << >>
               r == 1..Len(objects)
    <3>1. e = [f \in {} |-> e[f]] /\ Typed(e, r) /\ r \in SUBSET Nat
      BY <1>1, <2>1, <2>2
    <3> HIDE DEF e, r
    <3>2. e \in Cmds
      BY <3>1, FunctionIsCmd
    <3> QED
      BY <3>2 DEF e
  <2> HIDE DEF start
  <2> QED
    BY <1>1, <1>2, <2>2, <2>3 DEF RunTyped, RunRecords, IsRun
<1>4. ListOf(start) = << >>
  BY <1>2 DEF ListOf, Field
<1> HIDE DEF start
<1>5. Typed(initial, DOMAIN start.heap) /\ Mergeable(start.cmd, initial)
  BY <1>2 DEF StartsFrom, Mergeable
<1>6. PICK f : PatchedSoFar(f, base, refs) /\ new = f[Len(refs)]
  <2> HIDE DEF base, new
  <2>1. LET s == Field(initial, "signers", << >>)
        IN  \E f : PatchedSoFar(f, Base(start, initial), s) /\ PatchCommand(start, initial) = f[Len(s)]
    BY <1>2, <1>3, <1>5, PatchCommandIs
  <2> QED
    BY <2>1 DEF base, new, start
<1>7. Based(start, initial, base)
  BY <1>3, <1>5, BaseIs
<1>8. /\ RunTyped(base) /\ base.heap = objects /\ base.ok /\ ListOf(base) = << >>
      /\ DOMAIN base.cmd = DOMAIN initial \ {"signers"}
      /\ \A x \in DOMAIN initial \ {"signers"} : base.cmd[x] = PatchOne(<< >>, initial, x)
  BY <1>2, <1>4, <1>7 DEF Based
<1>9. KeysDiffer(base)
  BY <1>8 DEF KeysDiffer
<1>10. Len(refs) \in Nat /\ First(refs, Len(refs)) = ToSet(refs)
  <2> DEFINE R == DOMAIN objects
  <2>1. "signers" \in DOMAIN initial => initial["signers"] \in Seq(R)
    BY DEF StartsFrom, Typed
  <2>2. refs = IF "signers" \in DOMAIN initial THEN initial["signers"] ELSE << >>
    BY DEF Field
  <2> HIDE DEF R, refs
  <2>3. refs \in Seq(R)
    BY <2>1, <2>2
  <2> QED
    BY <2>3 DEF First, ToSet
<1> HIDE DEF base, new
<1>11. /\ RunTyped(new) /\ Keeps(base, ToSet(refs), new) /\ KeysDiffer(new)
  <2> HIDE DEF refs
  <2>1. Len(refs) \in 0..Len(refs)
    BY <1>10
  <2> QED
    BY <1>6, <1>9, <1>10, <2>1 DEF PatchedSoFar
<1>12. /\ new.ok /\ Len(new.heap) = Len(objects)
       /\ DOMAIN initial \ {"signers"} \subseteq DOMAIN new.cmd
       /\ DOMAIN new.cmd \subseteq DOMAIN initial \cup {"signers"}
       /\ \A x \in DOMAIN initial \ {"signers"} : new.cmd[x] = PatchOne(<< >>, initial, x)
       /\ ToSet(ListOf(new)) \subseteq ToSet(refs)
       /\ \A r \in DOMAIN objects \ ToSet(refs) : new.heap[r] = objects[r]
  <2>1. ToSet(ListOf(base)) = {}
    BY <1>8 DEF ToSet
  <2> HIDE DEF refs
  <2> QED
    BY <1>8, <1>11, <2>1 DEF Keeps
<1>13. Apart(objects, SharedBy(initial), new)
  BY <1>1, <1>12 DEF Apart, SharedBy
<1>14. DOMAIN new.cmd \ {"signers"} = DOMAIN initial \ {"signers"}
  BY <1>12
<1>15. "payload" \in DOMAIN new.cmd
  BY <1>12 DEF StartsFrom
<1>16. ASSUME "signers" \notin DOMAIN initial
       PROVE  View(new) = << >> /\ DOMAIN new.cmd = DOMAIN initial
  <2>1. refs = << >> /\ Len(refs) = 0
    BY <1>16 DEF Field
  <2>2. new = base
    BY <1>6, <2>1 DEF PatchedSoFar
  <2> QED
    <3>1. ListOf(base) = << >> /\ DOMAIN base.cmd = DOMAIN initial
      BY <1>8, <1>16
    <3>2. DOMAIN << >> = {}
      OBVIOUS
    <3>3. View(base) = << >>
      BY <3>1, <3>2 DEF View
    <3> QED
      BY <2>2, <3>1, <3>3
<1> QED
  BY <1>11, <1>12, <1>13, <1>14, <1>15, <1>16 DEF new, start

(* Every stage of a run. *)
RunSoFar(f, initial, objects, steps, time) ==
  /\ RunAll(initial, objects, steps, time) = f[Len(steps)]
  /\ f[0] = Finalize(PatchCommand(Start(objects), initial), time)
  /\ \A n \in 1..Len(steps) : f[n] = Done(f[n-1], steps[n], time)
  /\ \A n \in 0..Len(steps) :
       Ready(f[n]) /\ KeysDiffer(f[n]) /\ Apart(objects, SharedBy(initial), f[n])

(* Every stage of a run is complete, lists no key twice, and has left the  *)
(* objects of others alone.                                                *)
LEMMA RunsAreReady ==
  ASSUME NEW initial, NEW objects, StartsFrom(initial, objects),
         NEW steps \in Seq(StepRecords), NEW time \in Nat
  PROVE  \E f : RunSoFar(f, initial, objects, steps, time)
<1> DEFINE patched == PatchCommand(Start(objects), initial)
           first == Finalize(patched, time)
           T == {x \in RunRecords : Ready(x) /\ KeysDiffer(x) /\ Apart(objects, SharedBy(initial), x)}
           N == Len(steps)
<1>1. objects \in Seq(Signers)
  BY DEF StartsFrom
<1>2. first \in T
  <2>1. /\ RunTyped(patched) /\ patched.ok /\ "payload" \in DOMAIN patched.cmd
        /\ KeysDiffer(patched) /\ Apart(objects, SharedBy(initial), patched)
    BY StartIs
  <2> HIDE DEF patched
  <2>2. Ready(first) /\ Spares(patched, first) /\ KeysDiffer(first)
    BY <2>1, FinalizeKeeps
  <2> HIDE DEF first
  <2>3. RunTyped(first) /\ first \in RunRecords
    BY <2>2 DEF Ready, RunTyped
  <2> QED
    BY <1>1, <2>1, <2>2, <2>3, ApartStays
<1>3. \A x \in T, s \in StepRecords : Done(x, s, time) \in T
  <2> SUFFICES ASSUME NEW x \in T, NEW s \in StepRecords PROVE Done(x, s, time) \in T
    OBVIOUS
  <2> DEFINE new == Done(x, s, time)
  <2>1. Ready(new) /\ Spares(x, new) /\ KeysDiffer(new)
    BY DoneKeeps
  <2> HIDE DEF new
  <2>2. RunTyped(new) /\ new \in RunRecords /\ RunTyped(x) /\ Apart(objects, SharedBy(initial), x)
    BY <2>1 DEF Ready, RunTyped
  <2>3. Apart(objects, SharedBy(initial), new)
    BY <1>1, <2>1, <2>2, ApartStays
  <2> QED
    BY <2>1, <2>2, <2>3 DEF new
<1> HIDE DEF T
<1>4. PICK f : RunThrough(f, T, initial, objects, steps, time)
  BY <1>2, <1>3, RunStages
<1> QED
  BY <1>4 DEF RunThrough, RunSoFar, T

LEMMA RunAllIs ==
  ASSUME NEW initial, NEW objects, StartsFrom(initial, objects),
         NEW steps \in Seq(StepRecords), NEW time \in Nat
  PROVE  LET run == RunAll(initial, objects, steps, time)
         IN  Ready(run) /\ KeysDiffer(run) /\ Apart(objects, SharedBy(initial), run)
<1>1. PICK f : RunSoFar(f, initial, objects, steps, time)
  BY RunsAreReady
<1>2. Len(steps) \in 0..Len(steps)
  OBVIOUS
<1> QED
  BY <1>1, <1>2 DEF RunSoFar

-----------------------------------------------------------------------------
(* Type correctness *)

GoodBody(body) ==
  /\ body.payload \in Payloads /\ body.signers \in Seq(Signers)
  /\ body.payload.kind = "cont" => body.payload.proof # "undefined"
  /\ "networkId" \in DOMAIN body /\ "chainId" \in DOMAIN Field(body, "meta", << >>)
       => IsPactCommand(body)

LEMMA BodyIs ==
  ASSUME NEW run, RunTyped(run), "signers" \in DOMAIN run.cmd
  PROVE  LET body == Body(run.cmd, run.heap)
         IN  /\ DOMAIN body = DOMAIN run.cmd /\ body["signers"] = View(run)
             /\ \A f \in DOMAIN run.cmd \ {"signers"} : body[f] = run.cmd[f]
             /\ body = [f \in DOMAIN body |-> body[f]]
<1> DEFINE cmd == run.cmd
           body == Body(cmd, run.heap)
           list == cmd["signers"]
<1>1. ListOf(run) = list
  BY DEF ListOf, Field
<1>2. body = [cmd EXCEPT !.signers = [i \in DOMAIN list |-> run.heap[list[i]]]]
  BY Zenon DEF Body
<1>3. [i \in DOMAIN list |-> run.heap[list[i]]] = View(run)
  BY <1>1 DEF View
<1>4. cmd \in Cmds
  BY DEF RunTyped, RunRecords
<1> HIDE DEF cmd, body, list
<1>5. cmd = [f \in DOMAIN cmd |-> cmd[f]]
  BY <1>4 DEF Cmds
<1> QED
  BY <1>2, <1>3, <1>5 DEF cmd, body

(* What is stringified has all that a node needs. *)
LEMMA BodyIsGood ==
  ASSUME NEW run, Ready(run)
  PROVE  GoodBody(Body(run.cmd, run.heap))
<1> DEFINE cmd == run.cmd
           body == Body(cmd, run.heap)
<1>1. /\ RunTyped(run) /\ Complete(cmd) /\ "payload" \in DOMAIN cmd /\ "signers" \in DOMAIN cmd
      /\ cmd["payload"] \in Payloads
  BY DEF Ready, Complete, RunTyped, Typed
<1>2. /\ DOMAIN body = DOMAIN cmd /\ body["signers"] = View(run)
      /\ \A f \in DOMAIN cmd \ {"signers"} : body[f] = cmd[f]
  BY <1>1, BodyIs
<1>3. View(run) \in Seq(Signers)
  BY <1>1, ViewIsTyped
<1> HIDE DEF body, cmd
<1>4. body["payload"] = cmd["payload"] /\ ("meta" \in DOMAIN cmd => body["meta"] = cmd["meta"])
  BY <1>1, <1>2
<1>5. body["payload"] \in Payloads /\ (body["payload"].kind = "cont" => body["payload"].proof # "undefined")
  BY <1>1, <1>4 DEF Complete
<1>6. ASSUME "networkId" \in DOMAIN body, "chainId" \in DOMAIN Field(body, "meta", << >>)
      PROVE  IsPactCommand(body)
  <2>1. "meta" \in DOMAIN body
    BY <1>6 DEF Field
  <2>2. "chainId" \in DOMAIN body["meta"]
    BY <1>6, <2>1 DEF Field
  <2>3. MetaFields \ {"chainId"} \subseteq DOMAIN body["meta"]
    BY <1>1, <1>2, <1>4, <2>1 DEF Complete
  <2>4. "nonce" \in DOMAIN body
    BY <1>1, <1>2 DEF Complete
  <2> QED
    BY <1>1, <1>2, <1>6, <2>1, <2>2, <2>3, <2>4 DEF IsPactCommand
<1> QED
  BY <1>2, <1>3, <1>5, <1>6 DEF GoodBody, body, cmd

IsSeq(s) == \E X : s \in Seq(X)

LEMMA SeqGrows ==
  ASSUME NEW s, IsSeq(s), NEW x
  PROVE  /\ IsSeq(Append(s, x)) /\ DOMAIN s = 1..Len(s) /\ Len(s) \in Nat
         /\ DOMAIN Append(s, x) = DOMAIN s \cup {Len(s) + 1}
         /\ \A i \in DOMAIN s : Append(s, x)[i] = s[i]
         /\ Append(s, x)[Len(s) + 1] = x
<1>1. PICK X : s \in Seq(X)
  BY DEF IsSeq
<1> DEFINE Y == X \cup {x}
<1>2. s \in Seq(Y) /\ x \in Y
  BY <1>1
<1> HIDE DEF Y
<1>3. Append(s, x) \in Seq(Y)
  BY <1>2
<1>4. IsSeq(Append(s, x))
  BY <1>3 DEF IsSeq
<1>5. /\ DOMAIN s = 1..Len(s) /\ Len(s) \in Nat
      /\ DOMAIN Append(s, x) = 1..(Len(s) + 1)
      /\ \A i \in 1..Len(s) : Append(s, x)[i] = s[i]
      /\ Append(s, x)[Len(s) + 1] = x
  BY <1>2
<1>6. 1..(Len(s) + 1) = (1..Len(s)) \cup {Len(s) + 1}
  BY <1>5
<1> QED
  BY <1>4, <1>5, <1>6

BuilderTyped(x) ==
  /\ Typed(x.init, {}) /\ "signers" \notin DOMAIN x.init
  /\ x.made => "payload" \in DOMAIN x.init
  /\ x.steps \in Seq(Steps)

CommandTyped(x, refs, shared) ==
  /\ "signers" \in DOMAIN x.cmd /\ x.cmd["signers"] \in Seq(refs)
  /\ x.live => "signers" \in shared

Handed(cs, refs, shared) ==
  IsSeq(cs) /\ \A i \in DOMAIN cs : CommandTyped(cs[i], refs, shared)

Longer(cs, new) == DOMAIN cs \subseteq DOMAIN new /\ \A i \in DOMAIN cs : new[i] = cs[i]

(* The inductive invariant: the types, with the template's signers among   *)
(* the objects and none in what a builder starts with.                     *)
BInv ==
  /\ module \in Seq(Paths) /\ refused \in Nat /\ clock \in Nat
  /\ heap \in Seq(Signers)
  /\ template = [f \in DOMAIN template |-> template[f]] /\ Typed(template, DOMAIN heap)
  /\ DOMAIN builders = Builders /\ \A b \in Builders : BuilderTyped(builders[b])
  /\ Handed(commands, DOMAIN heap, DOMAIN template)
  /\ IsSeq(txs) /\ \A i \in DOMAIN txs : GoodBody(txs[i].body)

TemplateRefs == ToSet(Field(template, "signers", << >>))

(* What no step does to the objects and to what was handed out. *)
StepKeeps ==
  /\ Len(heap) <= Len(heap')
  /\ \A r \in DOMAIN heap \ TemplateRefs : heap'[r] = heap[r]
  /\ Longer(commands, commands')
  /\ DOMAIN template' = DOMAIN template

LEMMA InitBInv == Init => BInv
<1> SUFFICES ASSUME Init PROVE BInv
  OBVIOUS
<1>1. PICK t \in Templates : template = t.cmd /\ heap = t.heap
  BY DEF Init
<1>2. IsTemplate(t)
  BY TemplateAssumption
<1>3. heap \in Seq(Signers) /\ template = [f \in DOMAIN template |-> template[f]]
  BY <1>1, <1>2 DEF IsTemplate
<1>4. Typed(template, DOMAIN heap)
  <2> DEFINE refs == DOMAIN heap
  <2>1. "meta" \in DOMAIN template => template["meta"] \in Metas
    <3> SUFFICES ASSUME "meta" \in DOMAIN template PROVE template["meta"] \in Metas
      OBVIOUS
    <3> DEFINE m == template["meta"]
    <3>1. m \in [DOMAIN m -> {Given}] /\ DOMAIN m \subseteq MetaFields
      BY <1>1, <1>2 DEF IsTemplate
    <3> HIDE DEF m
    <3>2. m \in [DOMAIN m -> Int]
      BY <3>1 DEF Given
    <3>3. m \in Metas
      BY <3>1, <3>2 DEF Metas
    <3> QED
      BY <3>3 DEF m
  <2>2. /\ DOMAIN template \subseteq Fields
        /\ "payload" \in DOMAIN template => template["payload"] \in Payloads
        /\ "signers" \in DOMAIN template => template["signers"] \in Seq(refs)
        /\ "verifiers" \in DOMAIN template => template["verifiers"] \in Seq(Seq(Caps))
        /\ "nonce" \in DOMAIN template => template["nonce"] = Given
        /\ "networkId" \in DOMAIN template => template["networkId"] = Given
    BY <1>1, <1>2 DEF IsTemplate
  <2> HIDE DEF refs
  <2>3. "nonce" \in DOMAIN template => template["nonce"] \in Int
    BY <2>2 DEF Given
  <2>4. Typed(template, refs)
    BY <2>1, <2>2, <2>3 DEF Typed
  <2> QED
    BY <2>4 DEF refs
<1>5. \A b \in Builders : BuilderTyped(builders[b])
  <2>1. DOMAIN << >> = {}
    OBVIOUS
  <2>2. BuilderTyped(NoBuilder)
    BY <2>1 DEF BuilderTyped, NoBuilder, Typed
  <2> QED
    BY <2>2 DEF Init
<1>6. IsSeq(<< >>)
  <2>1. << >> \in Seq({})
    OBVIOUS
  <2> QED
    BY <2>1 DEF IsSeq
<1> QED
  BY <1>3, <1>4, <1>5, <1>6 DEF BInv, Init, Handed

LEMMA TemplateIsCmd ==
  ASSUME BInv
  PROVE  /\ template \in Cmds
         /\ RunTyped([cmd |-> template, heap |-> heap, ok |-> TRUE])
<1>1. heap \in Seq(Signers) /\ DOMAIN heap \in SUBSET Nat
  BY DEF BInv
<1>2. template \in Cmds
  BY <1>1, FunctionIsCmd DEF BInv
<1> QED
  BY <1>1, <1>2 DEF RunTyped, RunRecords, BInv

(* Where a builder's run starts. *)
LEMMA InitialIs ==
  ASSUME BInv, NEW b \in Builders, builders[b].made
  PROVE  /\ StartsFrom(Initial(b), heap) /\ SharedBy(Initial(b)) \subseteq TemplateRefs
         /\ builders[b].steps \in Seq(Steps) /\ builders[b].steps \in Seq(StepRecords)
         /\ \/ builders[b].fromTemplate /\ "signers" \in DOMAIN template
            \/ Initial(b) = builders[b].init
<1> DEFINE init == builders[b].init
           refs == DOMAIN heap
           given == template["signers"]
<1>1. /\ Typed(init, {}) /\ "signers" \notin DOMAIN init /\ "payload" \in DOMAIN init
      /\ builders[b].steps \in Seq(Steps)
  BY DEF BInv, BuilderTyped
<1>0. builders[b].steps \in Seq(StepRecords)
  <2> DEFINE s == builders[b].steps
  <2>1. s \in Seq(Steps) /\ Steps \subseteq StepRecords
    BY <1>1, StepAssumption
  <2> HIDE DEF s
  <2>2. s \in Seq(StepRecords)
    BY <2>1
  <2> QED
    BY <2>2 DEF s
<1>2. heap \in Seq(Signers) /\ Typed(template, refs)
  BY DEF BInv
<1> HIDE DEF init, refs
<1>3. Typed(init, refs)
  BY <1>1, WiderRefs
<1>4. CASE builders[b].fromTemplate /\ "signers" \in DOMAIN template
  <2> DEFINE new == [signers |-> given]
  <2>1. Initial(b) = Over(new, init)
    BY <1>4 DEF Initial, init
  <2>2. DOMAIN new = {"signers"} /\ new["signers"] = given
    OBVIOUS
  <2>3. given \in Seq(refs)
    BY <1>2, <1>4 DEF Typed
  <2> HIDE DEF new, given
  <2>4. /\ DOMAIN Initial(b) = DOMAIN init \cup {"signers"} /\ Initial(b)["signers"] = given
        /\ \A f \in DOMAIN init : Initial(b)[f] = init[f]
    BY <1>1, <2>1, <2>2 DEF Over
  <2>5. Typed(Initial(b), refs)
    BY <1>1, <1>3, <2>3, <2>4 DEF Typed, Fields
  <2>6. SharedBy(Initial(b)) = TemplateRefs
    BY <1>4, <2>4 DEF SharedBy, TemplateRefs, Field, given
  <2> QED
    BY <1>0, <1>1, <1>2, <1>4, <2>4, <2>5, <2>6 DEF StartsFrom, refs
<1>5. CASE ~(builders[b].fromTemplate /\ "signers" \in DOMAIN template)
  <2>1. Initial(b) = init
    BY <1>5 DEF Initial, init
  <2>2. SharedBy(init) = {}
    BY <1>1 DEF SharedBy, Field, ToSet
  <2> QED
    BY <1>0, <1>1, <1>2, <1>3, <2>1, <2>2 DEF StartsFrom, refs, init
<1> QED
  BY <1>4, <1>5

LEMMA RunOnceIs ==
  ASSUME BInv, NEW b \in Builders, builders[b].made
  PROVE  /\ Ready(RunOnce(b)) /\ KeysDiffer(RunOnce(b))
         /\ Apart(heap, TemplateRefs, RunOnce(b))
<1> DEFINE initial == Initial(b)
           steps == builders[b].steps
           run == RunAll(initial, heap, steps, clock)
<1>1. StartsFrom(initial, heap) /\ SharedBy(initial) \subseteq TemplateRefs /\ steps \in Seq(StepRecords)
  BY InitialIs
<1>2. clock \in Nat
  BY DEF BInv
<1> HIDE DEF initial, steps
<1>3. Ready(run) /\ KeysDiffer(run) /\ Apart(heap, SharedBy(initial), run)
  BY <1>1, <1>2, RunAllIs
<1>4. RunOnce(b) = run
  BY DEF RunOnce, initial, steps
<1> HIDE DEF run
<1>5. Apart(heap, TemplateRefs, run)
  BY <1>1, <1>3 DEF Apart
<1> QED
  BY <1>3, <1>4, <1>5

(* What is handed out stays what it was: commands only grow in number.     *)
LEMMA CommandsKept ==
  ASSUME NEW cs, NEW refs, NEW more, refs \subseteq more, NEW shared, Handed(cs, refs, shared)
  PROVE  Handed(cs, more, shared)
<1> SUFFICES ASSUME NEW i \in DOMAIN cs PROVE CommandTyped(cs[i], more, shared)
  BY DEF Handed
<1> DEFINE s == cs[i].cmd["signers"]
<1>1. s \in Seq(refs)
  BY DEF CommandTyped, Handed
<1> HIDE DEF s
<1>2. s \in Seq(more)
  BY <1>1
<1> QED
  BY <1>2 DEF CommandTyped, s, Handed

LEMMA CommandsGrow ==
  ASSUME NEW cs, NEW refs, NEW more, refs \subseteq more, NEW shared, Handed(cs, refs, shared),
         NEW x, CommandTyped(x, more, shared)
  PROVE  Handed(Append(cs, x), more, shared) /\ Longer(cs, Append(cs, x))
<1>1. Handed(cs, more, shared)
  BY CommandsKept
<1>2. /\ IsSeq(Append(cs, x)) /\ DOMAIN Append(cs, x) = DOMAIN cs \cup {Len(cs) + 1}
      /\ \A i \in DOMAIN cs : Append(cs, x)[i] = cs[i]
      /\ Append(cs, x)[Len(cs) + 1] = x
  BY SeqGrows DEF Handed
<1> QED
  BY <1>1, <1>2 DEF Handed, Longer

LEMMA LongerItself ==
  ASSUME NEW cs PROVE Longer(cs, cs)
BY DEF Longer

(* The signer objects are written to, and more of them are made. *)
LEMMA HeapKeepsItsTypes ==
  ASSUME NEW old \in Seq(Signers), NEW new \in Seq(Signers), Len(old) <= Len(new),
         NEW cmd, Typed(cmd, DOMAIN old)
  PROVE  DOMAIN old \subseteq DOMAIN new /\ Typed(cmd, DOMAIN new)
<1>1. DOMAIN old \subseteq DOMAIN new
  OBVIOUS
<1> QED
  BY <1>1, WiderRefs

LEMMA CallRefusedKeeps ==
  ASSUME BInv, NEW path \in Paths, CallRefused(path)
  PROVE  BInv' /\ StepKeeps
<1>1. module' \in Seq(Paths) /\ refused' \in Nat
  BY DEF BInv, CallRefused
<1>2. UNCHANGED <<template, heap, builders, commands, txs, clock>>
  BY DEF CallRefused
<1>3. heap \in Seq(Signers)
  BY DEF BInv
<1> QED
  BY <1>1, <1>2, <1>3 DEF BInv, StepKeeps, Longer

LEMMA PayloadIsTyped ==
  ASSUME NEW p \in Payloads
  PROVE  /\ Typed([payload |-> p], {}) /\ "signers" \notin DOMAIN [payload |-> p]
         /\ DOMAIN [payload |-> p] = {"payload"}
BY DEF Typed, Fields

(* A new builder holds the template's fields, its signers excepted, and    *)
(* the payload merged with the template's.                                 *)
LEMMA NewBuilderInit ==
  ASSUME BInv, NEW p \in Payloads, NEW fromTemplate \in BOOLEAN
  PROVE  LET cmd == IF fromTemplate THEN Restrict(template, DOMAIN template \ {"signers"}) ELSE << >>
             patched == PatchCommand([cmd |-> cmd, heap |-> heap, ok |-> TRUE], [payload |-> p])
         IN  patched.ok => /\ Typed(patched.cmd, {}) /\ "signers" \notin DOMAIN patched.cmd
                           /\ "payload" \in DOMAIN patched.cmd
                           /\ patched.cmd["payload"] = IF "payload" \in DOMAIN cmd
                                                       THEN MergePayload(cmd["payload"], p) ELSE p
                           /\ DOMAIN patched.cmd = DOMAIN cmd \cup {"payload"}
                           /\ \A f \in DOMAIN cmd \ {"payload"} : patched.cmd[f] = cmd[f]
<1> DEFINE cmd == IF fromTemplate THEN Restrict(template, DOMAIN template \ {"signers"}) ELSE << >>
           run == [cmd |-> cmd, heap |-> heap, ok |-> TRUE]
           patch == [payload |-> p]
           patched == PatchCommand(run, patch)
<1>1. heap \in Seq(Signers) /\ DOMAIN heap \in SUBSET Nat /\ Typed(template, DOMAIN heap)
  BY DEF BInv
<1>2. cmd = [f \in DOMAIN cmd |-> cmd[f]]
  <2>1. fromTemplate => cmd = [f \in DOMAIN template \ {"signers"} |-> template[f]]
    BY DEF Restrict
  <2>2. ~fromTemplate => cmd = << >>
    OBVIOUS
  <2>3. DOMAIN << >> = {} /\ << >> = [f \in {} |-> << >>[f]]
    OBVIOUS
  <2>4. CASE ~fromTemplate
    BY <2>2, <2>3, <2>4
  <2> HIDE DEF cmd
  <2>5. CASE fromTemplate
    BY <2>1, <2>5
  <2> QED
    BY <2>4, <2>5
<1>3. "signers" \notin DOMAIN cmd /\ Typed(cmd, {})
  <2>1. CASE fromTemplate
    <3>1. DOMAIN cmd = DOMAIN template \ {"signers"} /\ \A f \in DOMAIN cmd : cmd[f] = template[f]
      BY <2>1 DEF Restrict
    <3> HIDE DEF cmd
    <3> QED
      BY <1>1, <3>1 DEF Typed
  <2>2. CASE ~fromTemplate
    <3>1. DOMAIN cmd = {}
      BY <2>2
    <3> HIDE DEF cmd
    <3> QED
      BY <3>1 DEF Typed
  <2> QED
    BY <2>1, <2>2
<1> HIDE DEF cmd
<1>4. RunTyped(run)
  <2>1. cmd \in Cmds
    <3> DEFINE none == {}
    <3>1. none \in SUBSET Nat /\ Typed(cmd, none)
      BY <1>3
    <3> HIDE DEF none
    <3> QED
      BY <1>2, <3>1, FunctionIsCmd
  <2>2. Typed(cmd, DOMAIN heap)
    BY <1>3 DEF Typed
  <2> QED
    BY <1>1, <2>1, <2>2 DEF RunTyped, RunRecords
<1>5. Typed(patch, {}) /\ "signers" \notin DOMAIN patch /\ DOMAIN patch = {"payload"}
  BY PayloadIsTyped
<1>6. run.cmd = cmd /\ patch["payload"] = p
  OBVIOUS
<1> HIDE DEF run, patch
<1>7. patched.ok => Based(run, patch, patched)
  BY <1>4, <1>5, PlainPatch
<1> HIDE DEF patched
<1> SUFFICES ASSUME patched.ok
             PROVE  /\ Typed(patched.cmd, {}) /\ "signers" \notin DOMAIN patched.cmd
                    /\ "payload" \in DOMAIN patched.cmd
                    /\ patched.cmd["payload"] = IF "payload" \in DOMAIN cmd
                                                THEN MergePayload(cmd["payload"], p) ELSE p
                    /\ DOMAIN patched.cmd = DOMAIN cmd \cup {"payload"}
                    /\ \A f \in DOMAIN cmd \ {"payload"} : patched.cmd[f] = cmd[f]
  BY DEF patched, run, patch, cmd
<1>8. /\ RunTyped(patched) /\ DOMAIN patched.cmd = DOMAIN cmd \cup {"payload"}
      /\ patched.cmd["payload"] = PatchOne(cmd, patch, "payload")
      /\ \A f \in DOMAIN cmd \ {"payload"} : patched.cmd[f] = cmd[f]
  BY <1>5, <1>6, <1>7 DEF Based
<1>9. Typed(patched.cmd, {}) /\ "signers" \notin DOMAIN patched.cmd
  BY <1>3, <1>8 DEF RunTyped, Typed
<1>10. PatchOne(cmd, patch, "payload") = IF "payload" \in DOMAIN cmd
                                         THEN MergePayload(cmd["payload"], p) ELSE p
  BY <1>6 DEF PatchOne
<1> QED
  BY <1>8, <1>9, <1>10

LEMMA NewBuilderKeeps ==
  ASSUME BInv, NEW b \in Builders, NEW p \in Payloads, NEW fromTemplate \in BOOLEAN,
         NewBuilder(b, [payload |-> p], fromTemplate), module' \in Seq(Paths)
  PROVE  BInv' /\ StepKeeps
<1> DEFINE cmd == IF fromTemplate THEN Restrict(template, DOMAIN template \ {"signers"}) ELSE << >>
           patched == PatchCommand([cmd |-> cmd, heap |-> heap, ok |-> TRUE], [payload |-> p])
           new == [init |-> patched.cmd, steps |-> << >>, fromTemplate |-> fromTemplate, made |-> TRUE]
<1>1. /\ patched.ok /\ builders' = [builders EXCEPT ![b] = new]
      /\ UNCHANGED <<refused, template, heap, commands, txs, clock>>
  BY DEF NewBuilder
<1>2. /\ Typed(patched.cmd, {}) /\ "signers" \notin DOMAIN patched.cmd
      /\ "payload" \in DOMAIN patched.cmd
  BY <1>1, NewBuilderInit
<1> HIDE DEF patched
<1>3. BuilderTyped(new)
  BY <1>2 DEF BuilderTyped
<1> HIDE DEF new
<1>4. DOMAIN builders = Builders /\ heap \in Seq(Signers)
  BY DEF BInv
<1>5. DOMAIN builders' = Builders /\ \A x \in Builders : BuilderTyped(builders'[x])
  BY <1>1, <1>3, <1>4 DEF BInv
<1> QED
  BY <1>1, <1>4, <1>5 DEF BInv, StepKeeps, Longer

LEMMA NewExecutionKeeps ==
  ASSUME BInv, NEW b \in Builders, NEW path \in Paths, NEW fromTemplate \in BOOLEAN,
         NewExecution(b, path, fromTemplate)
  PROVE  BInv' /\ StepKeeps
<1> DEFINE p == [kind |-> "exec", code |-> Append(module, path), data |-> {}, proof |-> "undefined"]
<1>1. Append(module, path) \in Seq(Paths)
  BY DEF BInv
<1>2. p \in Payloads
  BY <1>1 DEF Payloads
<1>3. NewBuilder(b, [payload |-> p], fromTemplate) /\ module' = << >>
  BY Zenon DEF NewExecution, Execution, Expression, AfterCall
<1> HIDE DEF p
<1>4. module' \in Seq(Paths)
  BY <1>3
<1> QED
  BY <1>2, <1>3, <1>4, NewBuilderKeeps

LEMMA NewContinuationKeeps ==
  ASSUME BInv, NEW b \in Builders, NEW fromTemplate \in BOOLEAN, NewContinuation(b, fromTemplate)
  PROVE  BInv' /\ StepKeeps
<1> DEFINE p == [kind |-> "cont", code |-> << >>, data |-> {}, proof |-> "null"]
<1>1. p \in Payloads
  BY DEF Payloads
<1>2. NewBuilder(b, [payload |-> p], fromTemplate) /\ module' = module
  BY Zenon DEF NewContinuation, Continuation
<1> HIDE DEF p
<1>3. module' \in Seq(Paths)
  BY <1>2 DEF BInv
<1> QED
  BY <1>1, <1>2, <1>3, NewBuilderKeeps

LEMMA AddStepKeeps ==
  ASSUME BInv, NEW b \in Builders, NEW step \in Steps, AddStep(b, step)
  PROVE  BInv' /\ StepKeeps
<1> DEFINE steps == builders[b].steps
           more == Append(steps, step)
           new == [builders[b] EXCEPT !.steps = more]
<1>1. /\ builders' = [builders EXCEPT ![b].steps = Append(@, step)]
      /\ UNCHANGED <<module, refused, template, heap, commands, txs, clock>>
  BY DEF AddStep
<1>2. DOMAIN builders = Builders /\ BuilderTyped(builders[b]) /\ heap \in Seq(Signers)
  BY DEF BInv
<1>3. step \in Steps /\ steps \in Seq(Steps)
  BY <1>2 DEF BuilderTyped
<1>4. /\ DOMAIN builders' = Builders /\ \A x \in Builders \ {b} : builders'[x] = builders[x]
      /\ builders'[b] = new
  BY <1>1, <1>2
<1>5. /\ new.init = builders[b].init /\ new.made = builders[b].made
      /\ \/ new.steps = more
         \/ new.steps = steps
  OBVIOUS
<1> HIDE DEF steps, new
<1>6. more \in Seq(Steps)
  BY <1>3
<1> HIDE DEF more
<1>7. BuilderTyped(new)
  BY <1>2, <1>3, <1>5, <1>6 DEF BuilderTyped
<1>8. \A x \in Builders : BuilderTyped(builders'[x])
  BY <1>4, <1>7 DEF BInv
<1>9. UNCHANGED <<module, refused, template, heap, commands, txs, clock>> /\ DOMAIN builders' = Builders
  BY <1>1, <1>4
<1> QED
  BY <1>2, <1>8, <1>9 DEF BInv, StepKeeps, Longer

LEMMA TickKeeps ==
  ASSUME BInv, Tick
  PROVE  BInv' /\ StepKeeps
<1>1. clock' \in Nat /\ UNCHANGED <<module, refused, template, heap, builders, commands, txs>>
  BY DEF BInv, Tick
<1>2. heap \in Seq(Signers)
  BY DEF BInv
<1> QED
  BY <1>1, <1>2 DEF BInv, StepKeeps, Longer

(* The signer objects a run leaves are those there were, and more. *)
LEMMA ApartKeepsHeap ==
  ASSUME BInv, NEW run, RunTyped(run), Apart(heap, TemplateRefs, run)
  PROVE  /\ run.heap \in Seq(Signers) /\ Len(heap) <= Len(run.heap) /\ heap \in Seq(Signers)
         /\ DOMAIN heap \subseteq DOMAIN run.heap /\ Typed(template, DOMAIN run.heap)
         /\ \A r \in DOMAIN heap \ TemplateRefs : run.heap[r] = heap[r]
<1>1. run.heap \in Seq(Signers) /\ heap \in Seq(Signers) /\ Typed(template, DOMAIN heap)
  BY ListIsTyped DEF BInv
<1>2. Len(heap) <= Len(run.heap) /\ \A r \in DOMAIN heap \ TemplateRefs : run.heap[r] = heap[r]
  BY DEF Apart
<1> DEFINE h == run.heap
<1> HIDE DEF h
<1>3. h \in Seq(Signers) /\ Len(heap) <= Len(h)
  BY <1>1, <1>2 DEF h
<1>4. DOMAIN heap \subseteq DOMAIN h /\ Typed(template, DOMAIN h)
  BY <1>1, <1>3, HeapKeepsItsTypes
<1> QED
  BY <1>1, <1>2, <1>4 DEF h

LEMMA GetCommandKeeps ==
  ASSUME BInv, NEW b \in Builders, GetCommand(b)
  PROVE  BInv' /\ StepKeeps
<1> DEFINE run == RunOnce(b)
           new == [cmd |-> run.cmd, live |-> FALSE]
           shared == DOMAIN template
<1>1. /\ builders[b].made /\ heap' = run.heap
      /\ \/ commands' = Append(commands, new)
         \/ commands' = commands
      /\ UNCHANGED <<module, refused, template, builders, txs, clock>>
  BY DEF GetCommand
<1>2. Ready(run) /\ Apart(heap, TemplateRefs, run)
  BY <1>1, RunOnceIs
<1> HIDE DEF run
<1>3. RunTyped(run) /\ "signers" \in DOMAIN run.cmd
  BY <1>2 DEF Ready, Complete
<1>4. /\ heap' \in Seq(Signers) /\ Len(heap) <= Len(heap')
      /\ DOMAIN heap \subseteq DOMAIN heap' /\ Typed(template, DOMAIN heap')
      /\ \A r \in DOMAIN heap \ TemplateRefs : heap'[r] = heap[r]
  BY <1>1, <1>2, <1>3, ApartKeepsHeap
<1>5. CommandTyped(new, DOMAIN heap', shared)
  <2>1. ListOf(run) = run.cmd["signers"]
    BY <1>3 DEF ListOf, Field
  <2>2. ListOf(run) \in Seq(DOMAIN run.heap)
    BY <1>3, ListIsTyped
  <2> QED
    BY <1>1, <1>3, <2>1, <2>2 DEF CommandTyped
<1> HIDE DEF new, shared
<1>6. Handed(commands, DOMAIN heap, shared)
  BY DEF BInv, shared
<1>7. Handed(commands', DOMAIN heap', shared) /\ Longer(commands, commands')
  <2>1. CASE commands' = commands
    BY <1>4, <1>6, <2>1, CommandsKept, LongerItself
  <2>2. CASE commands' = Append(commands, new)
    BY <1>4, <1>5, <1>6, <2>2, CommandsGrow
  <2> QED
    BY <1>1, <2>1, <2>2
<1>8. UNCHANGED <<module, refused, template, builders, txs, clock>>
  BY <1>1
<1> QED
  BY <1>4, <1>7, <1>8 DEF BInv, StepKeeps, shared

LEMMA CreateTransactionKeeps ==
  ASSUME BInv, NEW b \in Builders, CreateTransaction(b)
  PROVE  BInv' /\ StepKeeps
<1> DEFINE run == RunOnce(b)
           body == Body(run.cmd, run.heap)
           new == [body |-> body, time |-> clock, of |-> builders[b]]
           n == Len(heap)
           h == run.heap
<1>1. /\ builders[b].made /\ heap' = SubSeq(h, 1, n)
      /\ \/ txs' = Append(txs, new)
         \/ txs' = txs
      /\ UNCHANGED <<module, refused, template, builders, commands, clock>>
  BY DEF CreateTransaction
<1>2. Ready(run) /\ Apart(heap, TemplateRefs, run)
  BY <1>1, RunOnceIs
<1>3. RunTyped(run)
  BY <1>2 DEF Ready
<1> HIDE DEF run
<1>4. /\ h \in Seq(Signers) /\ n <= Len(h) /\ heap \in Seq(Signers)
      /\ \A r \in DOMAIN heap \ TemplateRefs : h[r] = heap[r]
  BY <1>2, <1>3, ApartKeepsHeap
<1>5. GoodBody(body)
  BY <1>2, BodyIsGood
<1> HIDE DEF h, body
<1>6. n \in Nat /\ DOMAIN heap = 1..n
  BY <1>4
<1> HIDE DEF n
<1>7. /\ heap' \in Seq(Signers) /\ Len(heap') = n /\ DOMAIN heap' = 1..n
      /\ \A r \in 1..n : heap'[r] = h[r]
  BY <1>1, <1>4, <1>6
<1>8. new.body = body
  OBVIOUS
<1> HIDE DEF new
<1>9. IsSeq(txs) /\ \A i \in DOMAIN txs : GoodBody(txs[i].body)
  BY DEF BInv
<1>10. IsSeq(txs') /\ \A i \in DOMAIN txs' : GoodBody(txs'[i].body)
  <2>1. CASE txs' = txs
    BY <1>9, <2>1
  <2>2. CASE txs' = Append(txs, new)
    <3>1. /\ IsSeq(txs') /\ DOMAIN txs' = DOMAIN txs \cup {Len(txs) + 1}
          /\ \A i \in DOMAIN txs : txs'[i] = txs[i]
          /\ txs'[Len(txs) + 1] = new
      BY <1>9, <2>2, SeqGrows
    <3> QED
      BY <1>5, <1>8, <1>9, <3>1
  <2> QED
    BY <1>1, <2>1, <2>2
<1>11. UNCHANGED <<module, refused, template, builders, commands, clock>>
  BY <1>1
<1>12. /\ DOMAIN heap' = DOMAIN heap /\ Len(heap) <= Len(heap')
       /\ \A r \in DOMAIN heap \ TemplateRefs : heap'[r] = heap[r]
  BY <1>4, <1>6, <1>7 DEF n
<1> QED
  BY <1>7, <1>10, <1>11, <1>12 DEF BInv, StepKeeps, Longer

(* composePactCommand on the template changes its list of signers, and     *)
(* gives its payload the default proof.                                    *)
TemplateSettles ==
  /\ DOMAIN template' = DOMAIN template
  /\ \A f \in DOMAIN template \ {"signers", "payload"} : template'[f] = template[f]
  /\ "payload" \in DOMAIN template => template'["payload"] = Settled(template["payload"])

LEMMA ComposeOnTemplateKeeps ==
  ASSUME BInv, NEW step \in Steps, ComposeOnTemplate(step)
  PROVE  BInv' /\ StepKeeps /\ TemplateSettles
<1> DEFINE start == [cmd |-> template, heap |-> heap, ok |-> TRUE]
           mid == Reduce(start, step)
           run == Finalize(mid, clock)
           live == "signers" \in DOMAIN template
           new == [cmd |-> run.cmd, live |-> live]
           refs == run.cmd["signers"]
           shared == DOMAIN template
<1>1. /\ step.op = "addSigner" /\ heap' = run.heap
      /\ template' = [f \in DOMAIN template |-> IF f \in {"signers", "payload"} THEN run.cmd[f]
                                                ELSE template[f]]
      /\ commands' = Append(commands, new)
      /\ UNCHANGED <<module, refused, builders, txs, clock>>
  BY DEF ComposeOnTemplate
<1>2. step \in StepRecords /\ clock \in Nat /\ heap \in Seq(Signers)
  BY StepAssumption DEF BInv
<1>3. step.keys \in Seq(Keys) /\ step.clist \in CapList
  BY <1>1, <1>2 DEF StepRecords, DataStep, SignerStep, VerifierStep, MetaStep, NetworkStep, NonceStep
<1>4. RunTyped(start) /\ start.ok /\ start.cmd = template /\ start.heap = heap
  BY TemplateIsCmd
<1>5. mid = AddSigner(start, step.keys, step.clist)
  BY <1>1, <1>4 DEF Reduce
<1>6. ToSet(ListOf(start)) = TemplateRefs
  BY <1>4 DEF ListOf, TemplateRefs
<1> HIDE DEF start, mid
<1> DEFINE keys == step.keys
           clist == step.clist
           k == Len(keys)
<1>7. k \in Nat
  BY <1>3
<1>8. /\ RunTyped(mid) /\ Len(mid.heap) = Len(heap) + k
      /\ \A r \in DOMAIN heap \ TemplateRefs : mid.heap[r] = heap[r]
      /\ "payload" \in DOMAIN template =>
           "payload" \in DOMAIN mid.cmd /\ mid.cmd["payload"] = template["payload"]
  <2>1. mid = AddSigner(start, keys, clist) /\ keys \in Seq(Keys) /\ clist \in CapList
    BY <1>3, <1>5
  <2> HIDE DEF keys, clist
  <2> DEFINE added == AddSigner(start, keys, clist)
  <2>2. /\ RunTyped(added) /\ Len(added.heap) = Len(start.heap) + Len(keys)
        /\ DOMAIN start.cmd \subseteq DOMAIN added.cmd
        /\ \A f \in DOMAIN start.cmd \ {"signers"} : added.cmd[f] = start.cmd[f]
        /\ \A r \in DOMAIN start.heap \ ToSet(ListOf(start)) : added.heap[r] = start.heap[r]
    BY <1>4, <2>1, AddSignerKeeps
  <2>3. mid = added
    BY <2>1
  <2> HIDE DEF added
  <2> QED
    BY <1>4, <1>6, <2>2, <2>3
<1> HIDE DEF k, keys, clist
<1>9. Finalized(mid, clock, run)
  BY <1>2, <1>8, FinalizeIs
<1> HIDE DEF run
<1>10. /\ RunTyped(run) /\ run.heap = mid.heap /\ "signers" \in DOMAIN run.cmd
  BY <1>9 DEF Finalized, Complete
<1>10a. "payload" \in DOMAIN template => run.cmd["payload"] = Settled(template["payload"])
  BY <1>8, <1>9 DEF Finalized
<1>11. refs \in Seq(DOMAIN run.heap) /\ run.heap \in Seq(Signers)
  <2>1. ListOf(run) = refs
    BY <1>10 DEF ListOf, Field
  <2> QED
    BY <1>10, <2>1, ListIsTyped
<1>12. CommandTyped(new, DOMAIN heap', shared)
  BY <1>1, <1>10, <1>11 DEF CommandTyped
<1>13. refs \in Seq(DOMAIN heap')
  BY <1>1, <1>11
<1> HIDE DEF new, refs
<1>14. /\ heap' \in Seq(Signers) /\ Len(heap) <= Len(heap')
       /\ \A r \in DOMAIN heap \ TemplateRefs : heap'[r] = heap[r]
  <2>1. Len(heap') = Len(heap) + k /\ Len(heap) \in Nat
    BY <1>1, <1>2, <1>8, <1>10
  <2> QED
    BY <1>1, <1>7, <1>8, <1>10, <1>11, <2>1
<1>15. DOMAIN heap \subseteq DOMAIN heap' /\ Typed(template, DOMAIN heap')
  <2>1. Typed(template, DOMAIN heap)
    BY DEF BInv
  <2> QED
    BY <1>2, <1>14, <2>1, HeapKeepsItsTypes
<1>16. template = [f \in DOMAIN template |-> template[f]]
  BY DEF BInv
<1>17. /\ DOMAIN template' = DOMAIN template
       /\ template' = [f \in DOMAIN template' |-> template'[f]]
       /\ \A f \in DOMAIN template \ {"signers", "payload"} : template'[f] = template[f]
       /\ live => template'["signers"] = refs
       /\ "payload" \in DOMAIN template => template'["payload"] = Settled(template["payload"])
  BY <1>1, <1>10a, <1>16 DEF refs
<1>18. Typed(template', DOMAIN heap')
  <2>1. "payload" \in DOMAIN template => Settled(template["payload"]) \in Payloads
    BY <1>15, SettledIs DEF Typed
  <2> QED
    BY <1>13, <1>15, <1>17, <2>1 DEF Typed
<1>19. Handed(commands, DOMAIN heap, shared)
  BY DEF BInv
<1> HIDE DEF live, shared
<1>20. Handed(commands', DOMAIN heap', shared) /\ Longer(commands, commands')
  BY <1>1, <1>12, <1>15, <1>19, CommandsGrow
<1>21. UNCHANGED <<module, refused, builders, txs, clock>>
  BY <1>1
<1> QED
  BY <1>14, <1>17, <1>18, <1>20, <1>21 DEF BInv, StepKeeps, TemplateSettles, shared

LEMMA StutterKeeps ==
  ASSUME BInv, UNCHANGED vars
  PROVE  BInv' /\ StepKeeps
<1>1. heap \in Seq(Signers)
  BY DEF BInv
<1> QED
  BY <1>1 DEF BInv, StepKeeps, Longer, vars

(* BInv is inductive, and no step touches an object the template does not  *)
(* share.                                                                  *)
LEMMA NextKeeps ==
  ASSUME BInv, [Next]_vars
  PROVE  BInv' /\ StepKeeps
<1>1. ASSUME NEW path \in Paths, CallRefused(path) PROVE BInv' /\ StepKeeps
  BY <1>1, CallRefusedKeeps
<1>2. ASSUME NEW b \in Builders, NEW fromTemplate \in BOOLEAN, NEW path \in Paths,
             NewExecution(b, path, fromTemplate)
      PROVE  BInv' /\ StepKeeps
  BY <1>2, NewExecutionKeeps
<1>3. ASSUME NEW b \in Builders, NEW fromTemplate \in BOOLEAN, NewContinuation(b, fromTemplate)
      PROVE  BInv' /\ StepKeeps
  BY <1>3, NewContinuationKeeps
<1>4. ASSUME NEW b \in Builders, GetCommand(b) PROVE BInv' /\ StepKeeps
  BY <1>4, GetCommandKeeps
<1>5. ASSUME NEW b \in Builders, CreateTransaction(b) PROVE BInv' /\ StepKeeps
  BY <1>5, CreateTransactionKeeps
<1>6. ASSUME NEW b \in Builders, NEW step \in Steps, AddStep(b, step) PROVE BInv' /\ StepKeeps
  BY <1>6, AddStepKeeps
<1>7. ASSUME NEW step \in Steps, ComposeOnTemplate(step) PROVE BInv' /\ StepKeeps
  BY <1>7, ComposeOnTemplateKeeps
<1>8. CASE Tick
  BY <1>8, TickKeeps
<1>9. CASE UNCHANGED vars
  BY <1>9, StutterKeeps
<1> HIDE DEF BInv
<1> QED
  BY <1>1, <1>2, <1>3, <1>4, <1>5, <1>6, <1>7, <1>8, <1>9 DEF Next

(* Type correctness, and every transaction of createTransaction has what   *)
(* a node needs: the defaults of finalizeCommand reach it whatever calls   *)
(* were made, in whatever order.                                           *)
THEOREM BuilderTypeCorrect == Spec => []TypeOK
<1>1. BInv => TypeOK
  BY DEF BInv, BuilderTyped, Typed, GoodBody, TypeOK
<1>2. BInv /\ [Next]_vars => BInv'
  BY NextKeeps
<1> QED
  BY InitBInv, <1>1, <1>2, PTL DEF Spec

(* A command handed out by getCommand or composePactCommand changes later  *)
(* only if it shares signers with the template: patchCommand writes into   *)
(* signer objects in place, and those it can reach are the run's own or    *)
(* the template's (patchCommand.cjs:62-79).                                *)
THEOREM CommandsAreApart == Spec => CommandsStaySeparate
<1>1. BInv /\ [Next]_vars
        => [\A i \in DOMAIN commands : CommandBody(i)' # CommandBody(i) => SharesTemplate(i)]_vars
  <2> SUFFICES ASSUME BInv, [Next]_vars, NEW i \in DOMAIN commands, ~SharesTemplate(i)
               PROVE  CommandBody(i)' = CommandBody(i)
    OBVIOUS
  <2> DEFINE x == commands[i]
             refs == x.cmd["signers"]
             live == "signers" \in DOMAIN template
             to == Body([x.cmd EXCEPT !.signers = refs], heap)
  <2>1. CommandTyped(x, DOMAIN heap, DOMAIN template)
    BY DEF BInv, Handed
  <2>2. StepKeeps /\ commands'[i] = x
    BY NextKeeps DEF StepKeeps, Longer
  <2>3. ~x.live
    BY <2>1 DEF CommandTyped, SharesTemplate
  <2>4. Refs(i) = refs /\ Refs(i)' = refs
    BY <2>2, <2>3 DEF Refs
  <2>5. \A p \in DOMAIN refs : refs[p] \in DOMAIN heap \ TemplateRefs
    <3>1. refs \in Seq(DOMAIN heap)
      BY <2>1 DEF CommandTyped
    <3>2. live => ToSet(refs) \cap ToSet(template["signers"]) = {}
      BY <2>4 DEF SharesTemplate
    <3>3. TemplateRefs = IF live THEN ToSet(template["signers"]) ELSE {}
      BY DEF TemplateRefs, Field, ToSet
    <3> HIDE DEF refs, live
    <3>4. ToSet(refs) \cap TemplateRefs = {}
      BY <3>2, <3>3
    <3> QED
      BY <3>1, <3>4, ElementsOf DEF ToSet
  <2>6. \A p \in DOMAIN refs : heap'[refs[p]] = heap[refs[p]]
    BY <2>2, <2>5 DEF StepKeeps
  <2>7. CommandBody(i) = Body([x.cmd EXCEPT !.signers = refs], heap)
    BY <2>4, Zenon DEF CommandBody
  <2>8. CommandBody(i)' = Body([x.cmd EXCEPT !.signers = refs], heap')
    BY <2>2, <2>4, Zenon DEF CommandBody
  <2> DEFINE cmd == [x.cmd EXCEPT !.signers = refs]
  <2>9. cmd["signers"] = refs
    BY <2>1 DEF CommandTyped
  <2> HIDE DEF cmd
  <2>10. Body(cmd, heap) = [cmd EXCEPT !["signers"] = [p \in DOMAIN refs |-> heap[refs[p]]]]
    BY <2>9, Zenon DEF Body
  <2>11. Body(cmd, heap') = [cmd EXCEPT !["signers"] = [p \in DOMAIN refs |-> heap'[refs[p]]]]
    BY <2>9, Zenon DEF Body
  <2>12. [p \in DOMAIN refs |-> heap[refs[p]]] = [p \in DOMAIN refs |-> heap'[refs[p]]]
    BY <2>6
  <2> QED
    BY <2>7, <2>8, <2>10, <2>11, <2>12 DEF cmd
<1>2. BInv /\ [Next]_vars => BInv'
  BY NextKeeps
<1> QED
  BY InitBInv, <1>1, <1>2, PTL DEF Spec, CommandsStaySeparate

-----------------------------------------------------------------------------
(* The code of an execution *)

(* No template brings code of its own; what is the name of the function     *)
(* called is then all the code there is.                                    *)
TemplatesHaveNoCode ==
  \A t \in Templates : "payload" \in DOMAIN t.cmd => t.cmd.payload.code = << >>

Spoilt == {b \in Builders : "payload" \in DOMAIN builders[b].init
                            /\ Len(builders[b].init.payload.code) > 1}

(* A refused call is in the saved path, or has spoilt a builder. *)
CodeInv ==
  /\ "payload" \in DOMAIN template => template["payload"].code = << >>
  /\ Cardinality(Spoilt) + (IF module = << >> THEN 0 ELSE 1) <= refused

LEMMA SpoiltIsFinite ==
  ASSUME IsFiniteSet(Builders)
  PROVE  IsFiniteSet(Spoilt) /\ IsFiniteSet(Spoilt') /\ Cardinality(Spoilt) \in Nat
<1>1. Spoilt \subseteq Builders /\ Spoilt' \subseteq Builders
  BY DEF Spoilt
<1> QED
  BY <1>1, FS_Subset, FS_CardinalityType

LEMMA FewerSpoilt ==
  ASSUME IsFiniteSet(Builders), Spoilt' \subseteq Spoilt
  PROVE  Cardinality(Spoilt') \in Nat /\ Cardinality(Spoilt') <= Cardinality(Spoilt)
BY SpoiltIsFinite, FS_Subset, FS_CardinalityType

LEMMA OneMoreSpoilt ==
  ASSUME IsFiniteSet(Builders), NEW b, Spoilt' \subseteq Spoilt \cup {b}
  PROVE  Cardinality(Spoilt') \in Nat /\ Cardinality(Spoilt') <= Cardinality(Spoilt) + 1
<1>1. IsFiniteSet(Spoilt) /\ Cardinality(Spoilt) \in Nat
  BY SpoiltIsFinite
<1>2. IsFiniteSet(Spoilt \cup {b}) /\ Cardinality(Spoilt \cup {b}) <= Cardinality(Spoilt) + 1
        /\ Cardinality(Spoilt \cup {b}) \in Nat
  <2> DEFINE old == Spoilt
  <2>1. IsFiniteSet(old) /\ Cardinality(old) \in Nat
    BY <1>1
  <2> HIDE DEF old
  <2>2. /\ IsFiniteSet(old \cup {b})
        /\ Cardinality(old \cup {b}) = Cardinality(old) \/ Cardinality(old \cup {b}) = Cardinality(old) + 1
    BY <2>1, FS_AddElement
  <2>3. IsFiniteSet(old \cup {b}) /\ Cardinality(old \cup {b}) \in Nat
          /\ Cardinality(old \cup {b}) <= Cardinality(old) + 1
    BY <2>1, <2>2
  <2> QED
    BY <2>3 DEF old
<1>3. Cardinality(Spoilt') \in Nat /\ Cardinality(Spoilt') <= Cardinality(Spoilt \cup {b})
  BY <1>2, FS_Subset, FS_CardinalityType
<1> QED
  BY <1>1, <1>2, <1>3

(* The payload of a new builder is all its own. *)
LEMMA NewBuilderCode ==
  ASSUME BInv, CodeInv, NEW b \in Builders, NEW p \in Payloads, NEW fromTemplate \in BOOLEAN,
         NewBuilder(b, [payload |-> p], fromTemplate)
  PROVE  /\ \A x \in Builders \ {b} : builders'[x] = builders[x]
         /\ "payload" \in DOMAIN builders'[b].init
         /\ builders'[b].init["payload"].code = p.code
         /\ UNCHANGED <<template, refused>>
<1> DEFINE cmd == IF fromTemplate THEN Restrict(template, DOMAIN template \ {"signers"}) ELSE << >>
           patched == PatchCommand([cmd |-> cmd, heap |-> heap, ok |-> TRUE], [payload |-> p])
           new == [init |-> patched.cmd, steps |-> << >>, fromTemplate |-> fromTemplate, made |-> TRUE]
           old == cmd["payload"]
<1>1. /\ patched.ok /\ builders' = [builders EXCEPT ![b] = new]
      /\ UNCHANGED <<refused, template, heap, commands, txs, clock>>
  BY DEF NewBuilder
<1>2. /\ "payload" \in DOMAIN patched.cmd
      /\ patched.cmd["payload"] = IF "payload" \in DOMAIN cmd THEN MergePayload(old, p) ELSE p
  BY <1>1, NewBuilderInit
<1>3. "payload" \in DOMAIN cmd => old.code = << >>
  <2>1. DOMAIN << >> = {}
    OBVIOUS
  <2> QED
    BY <2>1 DEF CodeInv, Restrict
<1>4. p.code \in Seq(Paths)
  BY DEF Payloads
<1> HIDE DEF patched, cmd, old
<1>5. patched.cmd["payload"].code = p.code
  <2>1. CASE "payload" \in DOMAIN cmd
    <3> DEFINE c == p.code
    <3>a. MergePayload(old, p).code = old.code \o p.code
      BY DEF MergePayload
    <3>1. patched.cmd["payload"].code = << >> \o c
      BY <1>2, <1>3, <2>1, <3>a
    <3>2. c \in Seq(Paths)
      BY <1>4
    <3> HIDE DEF c
    <3>3. << >> \o c = c
      BY <3>2
    <3> QED
      BY <3>1, <3>3 DEF c
  <2>2. CASE "payload" \notin DOMAIN cmd
    BY <1>2, <2>2
  <2> QED
    BY <2>1, <2>2
<1>6. new.init = patched.cmd
  OBVIOUS
<1> HIDE DEF new
<1>7. DOMAIN builders = Builders
  BY DEF BInv
<1> QED
  BY <1>1, <1>2, <1>5, <1>6, <1>7

(* Each refused call spoils one builder at most. *)
LEMMA CodeStays ==
  ASSUME IsFiniteSet(Builders), BInv, CodeInv, [Next]_vars
  PROVE  CodeInv'
<1>0. /\ IsFiniteSet(Spoilt) /\ Cardinality(Spoilt) \in Nat /\ refused \in Nat
      /\ DOMAIN builders = Builders /\ module \in Seq(Paths)
  BY SpoiltIsFinite DEF BInv
<1>1. ASSUME NEW path \in Paths, CallRefused(path) PROVE CodeInv'
  <2>1. refused' = refused + 1 /\ Spoilt' = Spoilt /\ template' = template
    BY <1>1 DEF CallRefused, Spoilt
  <2> QED
    BY <1>0, <2>1 DEF CodeInv
<1>2. ASSUME NEW b \in Builders, NEW fromTemplate \in BOOLEAN, NEW path \in Paths,
             NewExecution(b, path, fromTemplate)
      PROVE  CodeInv'
  <2> DEFINE code == Append(module, path)
             p == [kind |-> "exec", code |-> code, data |-> {}, proof |-> "undefined"]
  <2>1. NewBuilder(b, [payload |-> p], fromTemplate) /\ module' = << >>
    BY <1>2, Zenon DEF NewExecution, Execution, Expression, AfterCall
  <2>2. code \in Seq(Paths) /\ Len(code) = Len(module) + 1
    BY <1>0
  <2>3. p \in Payloads /\ p.code = code
    BY <2>2 DEF Payloads
  <2> HIDE DEF p
  <2>4. /\ \A x \in Builders \ {b} : builders'[x] = builders[x]
        /\ builders'[b].init["payload"].code = code
        /\ UNCHANGED <<template, refused>>
    BY <2>1, <2>3, NewBuilderCode
  <2> HIDE DEF code
  <2>5. CASE module = << >>
    <3>1. ~(Len(code) > 1)
      BY <2>2, <2>5
    <3>2. Spoilt' \subseteq Spoilt
      BY <2>4, <3>1 DEF Spoilt
    <3>3. Cardinality(Spoilt') \in Nat /\ Cardinality(Spoilt') <= Cardinality(Spoilt)
      BY <3>2, FewerSpoilt
    <3> QED
      BY <1>0, <2>1, <2>4, <2>5, <3>3 DEF CodeInv
  <2>6. CASE module # << >>
    <3>1. Spoilt' \subseteq Spoilt \cup {b}
      BY <2>4 DEF Spoilt
    <3>2. Cardinality(Spoilt') \in Nat /\ Cardinality(Spoilt') <= Cardinality(Spoilt) + 1
      BY <3>1, OneMoreSpoilt
    <3> QED
      BY <1>0, <2>1, <2>4, <2>6, <3>2 DEF CodeInv
  <2> QED
    BY <2>5, <2>6
<1>3. ASSUME NEW b \in Builders, NEW fromTemplate \in BOOLEAN, NewContinuation(b, fromTemplate)
      PROVE  CodeInv'
  <2> DEFINE p == [kind |-> "cont", code |-> << >>, data |-> {}, proof |-> "null"]
  <2>1. NewBuilder(b, [payload |-> p], fromTemplate) /\ module' = module
    BY <1>3, Zenon DEF NewContinuation, Continuation
  <2>2. p \in Payloads /\ p.code = << >>
    BY DEF Payloads
  <2> HIDE DEF p
  <2>3. /\ \A x \in Builders \ {b} : builders'[x] = builders[x]
        /\ builders'[b].init["payload"].code = << >>
        /\ UNCHANGED <<template, refused>>
    BY <2>1, <2>2, NewBuilderCode
  <2>4. Spoilt' \subseteq Spoilt
    <3>1. Len(<< >>) = 0
      OBVIOUS
    <3> QED
      BY <2>3, <3>1 DEF Spoilt
  <2>5. Cardinality(Spoilt') \in Nat /\ Cardinality(Spoilt') <= Cardinality(Spoilt)
    BY <2>4, FewerSpoilt
  <2> QED
    BY <1>0, <2>1, <2>3, <2>5 DEF CodeInv
<1>4. ASSUME NEW b \in Builders, NEW step \in Steps, AddStep(b, step) PROVE CodeInv'
  <2>1. builders' = [builders EXCEPT ![b].steps = Append(@, step)] /\ UNCHANGED <<module, refused, template>>
    BY <1>4 DEF AddStep
  <2>2. \A x \in Builders : builders'[x].init = builders[x].init
    BY <1>0, <2>1
  <2>3. Spoilt' = Spoilt
    BY <2>2 DEF Spoilt
  <2> QED
    BY <2>1, <2>3 DEF CodeInv
<1>5. ASSUME NEW step \in Steps, ComposeOnTemplate(step) PROVE CodeInv'
  <2>1. UNCHANGED <<module, refused, builders>>
    BY <1>5 DEF ComposeOnTemplate
  <2>2. TemplateSettles
    BY <1>5, ComposeOnTemplateKeeps
  <2>3. Spoilt' = Spoilt
    BY <2>1 DEF Spoilt
  <2>4. "payload" \in DOMAIN template => template["payload"] \in Payloads
    BY DEF BInv, Typed
  <2>5. \A p \in Payloads : Settled(p).code = p.code
    BY DEF Settled, Payloads
  <2> QED
    BY <2>1, <2>2, <2>3, <2>4, <2>5 DEF CodeInv, TemplateSettles
<1>6. ASSUME UNCHANGED <<module, refused, builders, template>> PROVE CodeInv'
  BY <1>6 DEF CodeInv, Spoilt
<1>7. ASSUME NEW b \in Builders, GetCommand(b) \/ CreateTransaction(b) PROVE CodeInv'
  BY <1>6, <1>7 DEF GetCommand, CreateTransaction
<1>8. CASE Tick
  BY <1>6, <1>8 DEF Tick
<1>9. CASE UNCHANGED vars
  BY <1>6, <1>9 DEF vars
<1> HIDE DEF CodeInv, BInv
<1> QED
  BY <1>1, <1>2, <1>3, <1>4, <1>5, <1>7, <1>8, <1>9 DEF Next

LEMMA CodeStarts == TemplatesHaveNoCode /\ Init => CodeInv
<1> SUFFICES ASSUME TemplatesHaveNoCode, Init PROVE CodeInv
  OBVIOUS
<1>1. PICK t \in Templates : template = t.cmd
  BY DEF Init
<1>2. "payload" \in DOMAIN template => template["payload"].code = << >>
  BY <1>1 DEF TemplatesHaveNoCode
<1>3. Spoilt = {}
  <2>1. DOMAIN << >> = {}
    OBVIOUS
  <2> QED
    BY <2>1 DEF Spoilt, Init, NoBuilder
<1>4. Cardinality(Spoilt) = 0
  BY <1>3, FS_EmptySet
<1> QED
  BY <1>2, <1>4 DEF CodeInv, Init

(* A refused call of a saved module proxy leaves its path in `code`,       *)
(* which the next call takes along and resets: one builder is spoilt at    *)
(* most for each refused call (pact.cjs:12-30).                            *)
THEOREM CodeIsWhatWasCalled ==
  ASSUME IsFiniteSet(Builders), TemplatesHaveNoCode
  PROVE  Spec => []CodeIsItsPath
<1>1. Init => BInv /\ CodeInv
  BY CodeStarts, InitBInv
<1>2. BInv /\ CodeInv /\ [Next]_vars => (BInv /\ CodeInv)'
  BY NextKeeps, CodeStays
<1>3. BInv /\ CodeInv => CodeIsItsPath
  <2> SUFFICES ASSUME BInv, CodeInv PROVE CodeIsItsPath
    OBVIOUS
  <2>1. Cardinality(Spoilt) \in Nat /\ refused \in Nat
    BY SpoiltIsFinite DEF BInv
  <2>2. Cardinality(Spoilt) <= refused
    BY <2>1 DEF CodeInv
  <2> QED
    BY <2>2 DEF CodeIsItsPath, Spoilt
<1> QED
  BY <1>1, <1>2, <1>3, PTL DEF Spec

-----------------------------------------------------------------------------
(* What the calls of addSigner give a key *)

(* What one call adds. *)
Granted(caps, s, key) ==
  IF s.op = "addSigner" /\ Contains(s.keys, key) THEN caps \o s.clist.caps ELSE caps

CapsThrough(c, steps, key) ==
  /\ c \in [0..Len(steps) -> Seq(Caps)]
  /\ c[0] = << >> /\ CapsGiven(steps, key) = c[Len(steps)]
  /\ \A n \in 1..Len(steps) : c[n] = Granted(c[n-1], steps[n], key)

LEMMA GrantedIsTyped ==
  ASSUME NEW caps \in Seq(Caps), NEW s \in StepRecords, NEW key
  PROVE  Granted(caps, s, key) \in Seq(Caps)
<1> DEFINE more == s.clist.caps
<1>1. s.op = "addSigner" => more \in Seq(Caps)
  BY DEF StepRecords, DataStep, SignerStep, VerifierStep, MetaStep, NetworkStep, NonceStep, CapList
<1>2. Granted(caps, s, key) = IF s.op = "addSigner" /\ Contains(s.keys, key) THEN caps \o more ELSE caps
  BY DEF Granted
<1> HIDE DEF more
<1>3. s.op = "addSigner" => caps \o more \in Seq(Caps)
  BY <1>1
<1> QED
  BY <1>2, <1>3

(* CapsGiven call by call. *)
LEMMA CapsStages ==
  ASSUME NEW steps \in Seq(StepRecords), NEW key
  PROVE  \E c : CapsThrough(c, steps, key)
<1> DEFINE T == Seq(Caps)
           X == StepRecords
           g == [x \in T \X X |-> Granted(x[1], x[2], key)]
           Is(iter) == iter = [t \in SUBSET DOMAIN steps |->
             IF t = {} THEN << >>
             ELSE Granted(iter[t \ {Greatest(t)}], steps[Greatest(t)], key)]
<1>1. Len(steps) \in Nat /\ DOMAIN steps = 1..Len(steps) /\ << >> \in T
  OBVIOUS
<1>2. /\ g \in [T \X X -> T]
      /\ \A x \in T, s \in X : Step1(g, x, s) = Granted(x, s, key)
  BY GrantedIsTyped DEF Step1
<1>3. ASSUME NEW t \in SUBSET (1..Len(steps)), t # {} PROVE steps[Greatest(t)] \in X
  <2>1. Greatest(t) \in t
    BY <1>1, <1>3, GreatestOf
  <2>2. Greatest(t) \in 1..Len(steps)
    BY <2>1
  <2> HIDE DEF g, Is, X
  <2> QED
    BY <2>2 DEF X
<1>6a. CapsGiven(steps, key) = (CHOOSE iter : Is(iter))[DOMAIN steps]
  BY Zenon DEF CapsGiven, Granted, FoldLeft, MapThenFoldSet, Max, Greatest
<1> HIDE DEF g, X, T
<1>4. PICK any \in [SUBSET DOMAIN steps -> T] : FoldsOver(any, Len(steps), << >>, g, steps)
  <2>1. steps \in Seq(X)
    BY DEF X
  <2> QED
    BY <1>1, <1>2, <2>1, FoldExists
<1>5. Is(any)
  <2>1. \A t \in SUBSET (1..Len(steps)) : t # {} =>
          any[t \ {Greatest(t)}] \in T /\ steps[Greatest(t)] \in X
    BY <1>1, <1>3, <1>4
  <2>2. \A t \in SUBSET (1..Len(steps)) : t # {} =>
          Step1(g, any[t \ {Greatest(t)}], steps[Greatest(t)])
            = Granted(any[t \ {Greatest(t)}], steps[Greatest(t)], key)
    BY <1>2, <2>1
  <2> QED
    BY <1>1, <1>4, <2>2 DEF FoldsOver
<1>6. PICK iter : Is(iter) /\ CapsGiven(steps, key) = iter[DOMAIN steps]
  BY <1>5, <1>6a
<1>7. iter[{}] = << >>
  BY <1>6
<1>8. FoldsLike(iter, Len(steps), T, g, steps)
  <2>1. ASSUME NEW t \in SUBSET (1..Len(steps)), t # {}, iter[t \ {Greatest(t)}] \in T
        PROVE  iter[t] = Step1(g, iter[t \ {Greatest(t)}], steps[Greatest(t)])
    <3>1. steps[Greatest(t)] \in X
      BY <1>3, <2>1
    <3>2. iter[t] = Granted(iter[t \ {Greatest(t)}], steps[Greatest(t)], key)
      BY <1>1, <1>6, <2>1
    <3> HIDE DEF Is
    <3> QED
      BY <1>2, <2>1, <3>1, <3>2
  <2> HIDE DEF Is
  <2> QED
    BY <2>1 DEF FoldsLike
<1> HIDE DEF Is
<1>9. PICK c : StagesOf(c, << >>, T, g, steps) /\ iter[DOMAIN steps] = c[Len(steps)]
  <2>0. steps \in Seq(X)
    BY DEF X
  <2>1. Staged(iter, << >>, T, g, steps)
    BY <1>1, <1>2, <1>7, <1>8, <2>0, FoldStages
  <2> QED
    BY <2>1 DEF Staged
<1>10. ASSUME NEW n \in 1..Len(steps) PROVE c[n] = Granted(c[n-1], steps[n], key)
  <2>1. n - 1 \in 0..Len(steps) /\ steps[n] \in X
    BY <1>1 DEF X
  <2>2. c[n-1] \in T /\ c[n] = Step1(g, c[n-1], steps[n])
    BY <1>9, <2>1 DEF StagesOf
  <2> QED
    BY <1>2, <2>1, <2>2
<1> QED
  BY <1>6, <1>9, <1>10 DEF StagesOf, CapsThrough, T

(* A call of addSigner names no key twice. *)
NamedOnce(s) == s.op = "addSigner" => Distinct(s.keys)

(* One call gives a key exactly what it names for it. *)
LEMMA DoneCarries ==
  ASSUME NEW run, Ready(run), KeysDiffer(run), NEW step \in StepRecords, NamedOnce(step),
         NEW time \in Nat, NEW key, NEW caps \in Seq(Caps), Carries(View(run), key, caps),
         Done(run, step, time).ok
  PROVE  run.ok /\ Carries(View(Done(run, step, time)), key, Granted(caps, step, key))
<1> DEFINE mid == Reduce(run, step)
           new == Done(run, step, time)
<1>1. /\ run.ok /\ RunTyped(run) /\ (step.op # "addSigner" => View(new) = View(run))
  BY DoneKeeps DEF Ready
<1>2. CASE step.op # "addSigner"
  <2>1. Granted(caps, step, key) = caps
    BY <1>2 DEF Granted
  <2> QED
    BY <1>1, <1>2, <2>1
<1>3. CASE step.op = "addSigner"
  <2> DEFINE keys == step.keys
             clist == step.clist
  <2>1. keys \in Seq(Keys) /\ clist \in CapList
    BY <1>3 DEF StepRecords, DataStep, SignerStep, VerifierStep, MetaStep, NetworkStep, NonceStep
  <2>2. mid = AddSigner(run, keys, clist)
    BY <1>1, <1>3 DEF Reduce
  <2>3. Distinct(keys)
    BY <1>3 DEF NamedOnce
  <2>4. Granted(caps, step, key) = IF key \in ToSet(keys) THEN caps \o clist.caps ELSE caps
    <3>1. Contains(keys, key) <=> key \in ToSet(keys)
      <4>1. DOMAIN keys = 1..Len(keys)
        BY <2>1
      <4> HIDE DEF keys
      <4> QED
        BY <4>1 DEF Contains, ToSet
    <3> QED
      BY <1>3, <3>1 DEF Granted
  <2>5. new = Finalize(mid, time)
    BY DEF Done
  <2> HIDE DEF mid, keys, clist, new
  <2>6. Carries(View(mid), key, Granted(caps, step, key))
    BY <1>1, <2>1, <2>2, <2>3, <2>4, AddSignerCarries
  <2>7. RunTyped(mid)
    BY <1>1, <2>1, <2>2, AddSignerKeeps
  <2>8. View(new) = View(mid)
    BY <2>5, <2>7, FinalizeKeeps
  <2> QED
    BY <1>1, <2>6, <2>8 DEF new
<1> QED
  BY <1>2, <1>3

(* A run's signers carry what they started with, then what they were given. *)
LEMMA RunCarries ==
  ASSUME NEW initial, NEW objects, NEW steps \in Seq(StepRecords), NEW time \in Nat,
         NEW f, RunSoFar(f, initial, objects, steps, time), f[Len(steps)].ok,
         \A n \in 1..Len(steps) : NamedOnce(steps[n]),
         NEW key, NEW caps \in Seq(Caps), Carries(View(f[0]), key, caps)
  PROVE  Carries(View(f[Len(steps)]), key, caps \o CapsGiven(steps, key))
<1> DEFINE N == Len(steps)
<1>1. N \in Nat /\ \A n \in 1..N : steps[n] \in StepRecords
  OBVIOUS
<1>2. PICK c : CapsThrough(c, steps, key)
  BY CapsStages
<1>3. /\ c[0] = << >> /\ CapsGiven(steps, key) = c[N]
      /\ \A n \in 0..N : c[n] \in Seq(Caps)
      /\ \A n \in 1..N : c[n] = Granted(c[n-1], steps[n], key)
  BY <1>2 DEF CapsThrough
<1>4. /\ \A n \in 1..N : f[n] = Done(f[n-1], steps[n], time)
      /\ \A n \in 0..N : Ready(f[n]) /\ KeysDiffer(f[n])
  BY DEF RunSoFar
<1>5. f[N].ok /\ \A n \in 1..N : NamedOnce(steps[n])
  OBVIOUS
<1> HIDE DEF N
<1> DEFINE T == {n \in 0..N : f[n].ok => Carries(View(f[n]), key, caps \o c[n])}
<1>6. 0 \in T
  <2>1. caps \o << >> = caps
    OBVIOUS
  <2>2. caps \o c[0] = caps
    BY <1>3, <2>1
  <2>3. Carries(View(f[0]), key, caps \o c[0])
    BY <2>2
  <2>4. 0 \in 0..N
    BY <1>1
  <2> QED
    BY <2>3, <2>4
<1>7. ASSUME NEW n \in 0..N, n < N, n \in T PROVE n + 1 \in T
  <2> DEFINE old == f[n]
             step == steps[n+1]
             got == c[n]
             all == caps \o got
  <2>1. n + 1 \in 1..N /\ (n + 1) - 1 = n /\ n + 1 \in 0..N
    BY <1>1, <1>7
  <2>2. /\ f[n+1] = Done(old, step, time) /\ Ready(old) /\ KeysDiffer(old)
        /\ step \in StepRecords /\ NamedOnce(step)
        /\ c[n+1] = Granted(got, step, key) /\ got \in Seq(Caps)
    BY <1>1, <1>3, <1>4, <1>5, <2>1
  <2>3. old.ok => Carries(View(old), key, all)
    BY <1>7
  <2> SUFFICES ASSUME f[n+1].ok PROVE Carries(View(f[n+1]), key, caps \o c[n+1])
    BY <2>1
  <2> HIDE DEF T, old, step, got
  <2>4. all \in Seq(Caps)
    BY <2>2
  <2>5. caps \o Granted(got, step, key) = Granted(all, step, key)
    <3> DEFINE more == step.clist.caps
    <3>1. step.op = "addSigner" => more \in Seq(Caps)
      BY <2>2 DEF StepRecords, DataStep, SignerStep, VerifierStep, MetaStep, NetworkStep, NonceStep, CapList
    <3>2. /\ Granted(got, step, key) = IF step.op = "addSigner" /\ Contains(step.keys, key) THEN got \o more ELSE got
          /\ Granted(all, step, key) = IF step.op = "addSigner" /\ Contains(step.keys, key) THEN all \o more ELSE all
      BY DEF Granted
    <3> HIDE DEF more
    <3>3. more \in Seq(Caps) => caps \o (got \o more) = (caps \o got) \o more
      BY <2>2
    <3> QED
      BY <3>1, <3>2, <3>3
  <2> HIDE DEF all
  <2>6. old.ok
    <3>1. Done(old, step, time).ok
      BY <2>2
    <3> QED
      BY <2>2, <3>1, DoneKeeps
  <2>7. Carries(View(f[n+1]), key, Granted(all, step, key))
    BY <2>2, <2>3, <2>4, <2>6, DoneCarries
  <2> QED
    BY <2>2, <2>5, <2>7
<1> HIDE DEF T
<1>8. 0..N \subseteq T
  BY <1>1, <1>6, <1>7, BoundedInduction
<1>9. N \in T
  BY <1>1, <1>8
<1> QED
  BY <1>3, <1>5, <1>9 DEF T, N

(* The calls of addSigner a consumer makes name no key twice. *)
KeysNamedOnce == \A s \in Steps : NamedOnce(s)

SignedAsGiven(tx) ==
  LET signers == tx.body.signers
  IN  /\ \A p, q \in DOMAIN signers : signers[p].key = signers[q].key => p = q
      /\ \A p \in DOMAIN signers :
           LET given == CapsGiven(tx.of.steps, signers[p].key)
           IN  IF Own(tx.of) THEN signers[p].clist.caps = given
               ELSE \A c \in ToSet(given) : Contains(signers[p].clist.caps, c)

LEMMA ViewDiffers ==
  ASSUME NEW run, RunTyped(run), KeysDiffer(run)
  PROVE  /\ View(run) \in Seq(Signers)
         /\ \A p, q \in DOMAIN View(run) : View(run)[p].key = View(run)[q].key => p = q
BY ViewIsTyped DEF View, KeysDiffer

(* A list without a key twice has one list of capabilities for each key. *)
LEMMA SomeCaps ==
  ASSUME NEW view \in Seq(Signers), \A p, q \in DOMAIN view : view[p].key = view[q].key => p = q,
         NEW key
  PROVE  \E caps \in Seq(Caps) : Carries(view, key, caps)
<1>1. CASE \E p \in DOMAIN view : view[p].key = key
  <2>1. PICK p \in DOMAIN view : view[p].key = key
    BY <1>1
  <2>2. view[p].clist.caps \in Seq(Caps)
    <3>1. view[p] \in Signers
      BY ElementsOf
    <3> QED
      BY <3>1 DEF Signers, CapList
  <2>3. Carries(view, key, view[p].clist.caps)
    BY <2>1 DEF Carries
  <2> QED
    BY <2>2, <2>3
<1>2. CASE \A p \in DOMAIN view : view[p].key # key
  <2>1. Carries(view, key, << >>)
    BY <1>2 DEF Carries
  <2>2. << >> \in Seq(Caps)
    OBVIOUS
  <2> QED
    BY <2>1, <2>2
<1> QED
  BY <1>1, <1>2

(* createTransaction signs for what the builder's calls named. *)
LEMMA NewTxIsSigned ==
  ASSUME KeysNamedOnce, BInv, NEW b \in Builders, builders[b].made, RunOnce(b).ok
  PROVE  SignedAsGiven([body |-> Body(RunOnce(b).cmd, RunOnce(b).heap), time |-> clock,
                        of |-> builders[b]])
<1> DEFINE initial == Initial(b)
           steps == builders[b].steps
           run == RunOnce(b)
           body == Body(run.cmd, run.heap)
           tx == [body |-> body, time |-> clock, of |-> builders[b]]
           N == Len(steps)
<1>1. /\ StartsFrom(initial, heap) /\ steps \in Seq(Steps) /\ steps \in Seq(StepRecords)
      /\ (builders[b].fromTemplate /\ "signers" \in DOMAIN template) \/ initial = builders[b].init
      /\ "signers" \notin DOMAIN builders[b].init
  BY InitialIs DEF BInv, BuilderTyped
<1>2. clock \in Nat
  BY DEF BInv
<1> HIDE DEF initial
<1>3. run = RunAll(initial, heap, steps, clock)
  BY DEF RunOnce, initial
<1>4. PICK f : RunSoFar(f, initial, heap, steps, clock)
  BY <1>1, <1>2, RunsAreReady
<1>5. N \in Nat /\ \A n \in 1..N : NamedOnce(steps[n])
  BY <1>1 DEF KeysNamedOnce
<1>6. /\ run = f[N] /\ run.ok /\ Ready(run) /\ KeysDiffer(run) /\ Ready(f[0]) /\ KeysDiffer(f[0])
      /\ f[0] = Finalize(PatchCommand(Start(heap), initial), clock)
  <2>1. 0 \in 0..N /\ N \in 0..N
    BY <1>5
  <2> HIDE DEF run
  <2>2. /\ run = f[N] /\ f[0] = Finalize(PatchCommand(Start(heap), initial), clock)
        /\ \A n \in 0..N : Ready(f[n]) /\ KeysDiffer(f[n])
    BY <1>3, <1>4 DEF RunSoFar
  <2> QED
    BY <2>1, <2>2 DEF run
<1> HIDE DEF run
<1>7. RunTyped(run) /\ "signers" \in DOMAIN run.cmd
  BY <1>6 DEF Ready, Complete
<1>8. body["signers"] = View(run)
  BY <1>7, BodyIs
<1>9. tx.body = body /\ tx.of = builders[b]
  OBVIOUS
<1> HIDE DEF body, tx
<1> DEFINE view == View(run)
           first == View(f[0])
<1>10. /\ view \in Seq(Signers) /\ \A p, q \in DOMAIN view : view[p].key = view[q].key => p = q
       /\ first \in Seq(Signers) /\ \A p, q \in DOMAIN first : first[p].key = first[q].key => p = q
  <2> DEFINE start == f[0]
  <2>1. RunTyped(run) /\ RunTyped(start) /\ KeysDiffer(run) /\ KeysDiffer(start)
    BY <1>6 DEF Ready
  <2> HIDE DEF start
  <2> QED
    BY <2>1, ViewDiffers DEF start
<1>11. ASSUME NEW key, NEW caps \in Seq(Caps), Carries(first, key, caps)
       PROVE  Carries(view, key, caps \o CapsGiven(steps, key))
  <2> HIDE DEF steps
  <2>1. f[Len(steps)].ok /\ \A n \in 1..Len(steps) : NamedOnce(steps[n])
    BY <1>5, <1>6
  <2> QED
    BY <1>1, <1>2, <1>4, <1>6, <1>11, <2>1, RunCarries
<1>12. Own(builders[b]) => first = << >>
  <2> SUFFICES ASSUME Own(builders[b]) PROVE first = << >>
    OBVIOUS
  <2> DEFINE patched == PatchCommand(Start(heap), initial)
  <2>1. "signers" \notin DOMAIN initial
    BY <1>1 DEF Own
  <2>2. RunTyped(patched) /\ View(patched) = << >>
    BY <1>1, <2>1, StartIs
  <2>3. f[0] = Finalize(patched, clock)
    BY <1>6
  <2> HIDE DEF patched
  <2> QED
    BY <1>2, <2>2, <2>3, FinalizeKeeps
<1>13. ASSUME NEW key PROVE CapsGiven(steps, key) \in Seq(Caps)
  <2> HIDE DEF steps
  <2>1. PICK c : CapsThrough(c, steps, key)
    BY <1>1, CapsStages
  <2>2. Len(steps) \in 0..Len(steps)
    BY <1>1
  <2> QED
    BY <2>1, <2>2 DEF CapsThrough
<1> HIDE DEF view, first
<1>14. ASSUME NEW p \in DOMAIN view
       PROVE  LET given == CapsGiven(steps, view[p].key)
              IN  IF Own(builders[b]) THEN view[p].clist.caps = given
                  ELSE \A x \in ToSet(given) : Contains(view[p].clist.caps, x)
  <2> DEFINE key == view[p].key
             given == CapsGiven(steps, key)
             got == view[p].clist.caps
  <2>1. given \in Seq(Caps)
    BY <1>13
  <2>2. CASE Own(builders[b])
    <3>1. << >> \in Seq(Caps) /\ Carries(first, key, << >>)
      BY <1>12, <2>2 DEF Carries
    <3>2. Carries(view, key, << >> \o given)
      BY <1>11, <3>1
    <3>3. got = << >> \o given
      BY <3>2 DEF Carries
    <3> HIDE DEF given, got
    <3>4. got = given
      BY <2>1, <3>3
    <3> QED
      BY <2>2, <3>4 DEF given, got
  <2>3. CASE ~Own(builders[b])
    <3>1. PICK caps \in Seq(Caps) : Carries(first, key, caps)
      BY <1>10, SomeCaps
    <3>2. Carries(view, key, caps \o given)
      BY <1>11, <3>1
    <3>3. got = caps \o given
      BY <3>2 DEF Carries
    <3> HIDE DEF given, got
    <3>4. got \in Seq(Caps) /\ ToSet(given) \subseteq ToSet(got)
      BY <2>1, <3>3, ConcatHolds
    <3>5. ASSUME NEW x \in ToSet(given) PROVE Contains(got, x)
      <4>1. x \in ToSet(got) /\ DOMAIN got = 1..Len(got)
        BY <3>4
      <4> QED
        BY <4>1 DEF Contains, ToSet
    <3> QED
      BY <2>3, <3>5 DEF given, got
  <2> QED
    BY <2>2, <2>3
<1> QED
  <2>1. tx.body.signers = view
    BY <1>8, <1>9 DEF view
  <2>2. SignedAsGiven(tx)
    BY <1>9, <1>10, <1>14, <2>1 DEF SignedAsGiven
  <2> QED
    BY <2>2 DEF tx, body, run

AllSigned == \A i \in DOMAIN txs : SignedAsGiven(txs[i])

LEMMA SignedStays ==
  ASSUME KeysNamedOnce, BInv, AllSigned, [Next]_vars
  PROVE  AllSigned'
<1>1. DOMAIN template' = DOMAIN template
  BY NextKeeps DEF StepKeeps
<1>2. ASSUME NEW tx PROVE SignedAsGiven(tx)' = SignedAsGiven(tx)
  BY <1>1 DEF SignedAsGiven, Own
<1>3. ASSUME txs' = txs PROVE AllSigned'
  BY <1>2, <1>3 DEF AllSigned
<1>4. ASSUME NEW b \in Builders, CreateTransaction(b) PROVE AllSigned'
  <2> DEFINE run == RunOnce(b)
             new == [body |-> Body(run.cmd, run.heap), time |-> clock, of |-> builders[b]]
  <2>1. /\ builders[b].made
        /\ \/ run.ok /\ txs' = Append(txs, new)
           \/ txs' = txs
    BY <1>4 DEF CreateTransaction
  <2>2. run.ok => SignedAsGiven(new)
    BY <2>1, NewTxIsSigned
  <2> HIDE DEF new, run
  <2>3. CASE run.ok /\ txs' = Append(txs, new)
    <3>1. IsSeq(txs)
      BY DEF BInv
    <3>2. /\ DOMAIN txs' = DOMAIN txs \cup {Len(txs) + 1}
          /\ \A i \in DOMAIN txs : txs'[i] = txs[i]
          /\ txs'[Len(txs) + 1] = new
      BY <2>3, <3>1, SeqGrows
    <3>3. \A i \in DOMAIN txs' : SignedAsGiven(txs'[i])
      BY <2>2, <2>3, <3>2 DEF AllSigned
    <3> QED
      BY <1>2, <3>3 DEF AllSigned
  <2> QED
    BY <1>3, <2>1, <2>3
<1>5. ASSUME UNCHANGED txs PROVE AllSigned'
  BY <1>3, <1>5
<1>6. CASE Next
  BY <1>4, <1>5, <1>6
     DEF Next, CallRefused, NewExecution, NewContinuation, NewBuilder, AddStep, GetCommand,
         ComposeOnTemplate, Tick
<1>7. CASE UNCHANGED vars
  BY <1>5, <1>7 DEF vars
<1> QED
  BY <1>6, <1>7

(* No transaction of a builder lists a key twice, and each signer signs    *)
(* for all the capabilities that the calls of addSigner named for its      *)
(* key, in order (patchCommand.cjs:62-79): so it is unscoped only if none  *)
(* was ever named.                                                         *)
THEOREM TransactionsHoldWhatWasGiven ==
  ASSUME IsFiniteSet(Builders), TemplatesHaveNoCode, KeysNamedOnce
  PROVE  Spec => []TransactionsSayWhatWasGiven
<1>1. Init => BInv /\ AllSigned
  <2>1. DOMAIN << >> = {}
    OBVIOUS
  <2> QED
    BY <2>1, InitBInv DEF Init, AllSigned
<1>2. BInv /\ AllSigned /\ [Next]_vars => (BInv /\ AllSigned)'
  BY NextKeeps, SignedStays
<1>3. AllSigned => SignersAsGiven
  BY DEF AllSigned, SignedAsGiven, SignersAsGiven
<1>4. Spec => []SignersAsGiven
  BY <1>1, <1>2, <1>3, PTL DEF Spec
<1>5. Spec => []CodeIsItsPath
  BY CodeIsWhatWasCalled
<1>6. SignersAsGiven /\ CodeIsItsPath => TransactionsSayWhatWasGiven
  BY DEF TransactionsSayWhatWasGiven
<1> QED
  BY <1>4, <1>5, <1>6, PTL

-----------------------------------------------------------------------------
(* Two runs of the same calls at two times *)

(* Pinned in both, or the time of each. *)
Alike(x, t1, y, t2) == (x = Given /\ y = Given) \/ (x = t1 /\ y = t2)

MetaAlike(m1, t1, m2, t2) ==
  /\ DOMAIN m1 = DOMAIN m2
  /\ \A f \in DOMAIN m1 \ {"creationTime"} : m1[f] = m2[f]
  /\ "creationTime" \in DOMAIN m1 => Alike(m1["creationTime"], t1, m2["creationTime"], t2)

(* The two differ in their references and where a time is a default. *)
Same(r1, t1, r2, t2) ==
  /\ r1.ok = r2.ok /\ View(r1) = View(r2)
  /\ DOMAIN r1.cmd = DOMAIN r2.cmd
  /\ \A f \in {"payload", "networkId", "verifiers"} \cap DOMAIN r1.cmd : r1.cmd[f] = r2.cmd[f]
  /\ "nonce" \in DOMAIN r1.cmd => Alike(r1.cmd["nonce"], t1, r2.cmd["nonce"], t2)
  /\ "meta" \in DOMAIN r1.cmd => MetaAlike(r1.cmd["meta"], t1, r2.cmd["meta"], t2)

(* What the consumer gave of nonce and creation time. *)
AllGiven(cmd) ==
  /\ "nonce" \in DOMAIN cmd => cmd["nonce"] = Given
  /\ "meta" \in DOMAIN cmd => \A f \in DOMAIN cmd["meta"] : cmd["meta"][f] = Given

(* Two runs from one start differ in their references only ... *)
LEMMA SameStart ==
  ASSUME NEW initial, "signers" \notin DOMAIN initial, AllGiven(initial),
         NEW o1, StartsFrom(initial, o1), NEW o2, StartsFrom(initial, o2), NEW t1, NEW t2
  PROVE  Same(PatchCommand(Start(o1), initial), t1, PatchCommand(Start(o2), initial), t2)
<1> DEFINE r1 == PatchCommand(Start(o1), initial)
           r2 == PatchCommand(Start(o2), initial)
           none == << >>
<1>1. /\ RunTyped(r1) /\ r1.ok /\ View(r1) = none /\ DOMAIN r1.cmd = DOMAIN initial
      /\ \A f \in DOMAIN initial : r1.cmd[f] = PatchOne(none, initial, f)
  BY StartIs
<1>2. /\ RunTyped(r2) /\ r2.ok /\ View(r2) = none /\ DOMAIN r2.cmd = DOMAIN initial
      /\ \A f \in DOMAIN initial : r2.cmd[f] = PatchOne(none, initial, f)
  BY StartIs
<1>3. "nonce" \in DOMAIN initial => PatchOne(none, initial, "nonce") = Given
  BY DEF PatchOne, AllGiven
<1>4. "meta" \in DOMAIN initial =>
        \A f \in DOMAIN PatchOne(none, initial, "meta") : PatchOne(none, initial, "meta")[f] = Given
  <2>1. PatchOne(none, initial, "meta") = Over(initial["meta"], none)
    BY DEF PatchOne, Field
  <2>2. DOMAIN none = {}
    OBVIOUS
  <2> HIDE DEF none
  <2> DEFINE m == initial["meta"]
  <2>3. DOMAIN Over(m, none) = DOMAIN m /\ \A f \in DOMAIN m : Over(m, none)[f] = m[f]
    BY <2>2 DEF Over
  <2> QED
    BY <2>1, <2>3 DEF AllGiven
<1>5. r1.ok = TRUE /\ r2.ok = TRUE
  BY <1>1, <1>2 DEF RunTyped, RunRecords
<1> HIDE DEF r1, r2, none
<1>6. "nonce" \in DOMAIN r1.cmd => Alike(r1.cmd["nonce"], t1, r2.cmd["nonce"], t2)
  BY <1>1, <1>2, <1>3 DEF Alike
<1>7. "meta" \in DOMAIN r1.cmd => MetaAlike(r1.cmd["meta"], t1, r2.cmd["meta"], t2)
  BY <1>1, <1>2, <1>4 DEF MetaAlike, Alike
<1> QED
  BY <1>1, <1>2, <1>5, <1>6, <1>7 DEF Same, r1, r2

(* ... and the finalisations in the time ... *)
LEMMA SameFinalize ==
  ASSUME NEW r1, RunTyped(r1), NEW r2, RunTyped(r2), NEW t1 \in Nat, NEW t2 \in Nat,
         Same(r1, t1, r2, t2)
  PROVE  Same(Finalize(r1, t1), t1, Finalize(r2, t2), t2)
<1> DEFINE n1 == Finalize(r1, t1)
           n2 == Finalize(r2, t2)
<1>1. Finalized(r1, t1, n1) /\ View(n1) = View(r1) /\ Finalized(r2, t2, n2) /\ View(n2) = View(r2)
  BY FinalizeIs, FinalizeKeeps
<1> HIDE DEF n1, n2
<1>2. n1.ok = n2.ok /\ View(n1) = View(n2)
  BY <1>1 DEF Finalized, Same
<1>3. DOMAIN n1.cmd = DOMAIN r1.cmd \cup {"nonce", "signers"} /\ DOMAIN n1.cmd = DOMAIN n2.cmd
  BY <1>1 DEF Finalized, Same
<1>4. \A f \in {"payload", "networkId", "verifiers"} \cap DOMAIN n1.cmd : n1.cmd[f] = n2.cmd[f]
  BY <1>1, <1>3 DEF Finalized, Same
<1>5. Alike(n1.cmd["nonce"], t1, n2.cmd["nonce"], t2)
  BY <1>1 DEF Finalized, Same, Field, Alike
<1>6. ASSUME "meta" \in DOMAIN n1.cmd PROVE MetaAlike(n1.cmd["meta"], t1, n2.cmd["meta"], t2)
  <2> DEFINE m1 == r1.cmd["meta"]
             m2 == r2.cmd["meta"]
             d1 == DefaultMeta(t1)
             d2 == DefaultMeta(t2)
  <2>1. "meta" \in DOMAIN r1.cmd /\ "meta" \in DOMAIN r2.cmd
    BY <1>3, <1>6 DEF Same
  <2>2. n1.cmd["meta"] = Over(m1, d1) /\ n2.cmd["meta"] = Over(m2, d2)
    BY <1>1, <2>1 DEF Finalized
  <2>3. MetaAlike(m1, t1, m2, t2)
    BY <2>1 DEF Same
  <2>4. /\ DOMAIN d1 = MetaFields \ {"chainId"} /\ DOMAIN d2 = DOMAIN d1
        /\ \A f \in DOMAIN d1 \ {"creationTime"} : d1[f] = 0 /\ d2[f] = 0
        /\ d1["creationTime"] = t1 /\ d2["creationTime"] = t2
    BY DEF DefaultMeta, MetaFields
  <2> HIDE DEF m1, m2, d1, d2
  <2>5. /\ DOMAIN Over(m1, d1) = DOMAIN m1 \cup DOMAIN d1
        /\ \A f \in DOMAIN m1 : Over(m1, d1)[f] = m1[f]
        /\ \A f \in DOMAIN d1 \ DOMAIN m1 : Over(m1, d1)[f] = d1[f]
    BY DEF Over
  <2>6. /\ DOMAIN Over(m2, d2) = DOMAIN m2 \cup DOMAIN d2
        /\ \A f \in DOMAIN m2 : Over(m2, d2)[f] = m2[f]
        /\ \A f \in DOMAIN d2 \ DOMAIN m2 : Over(m2, d2)[f] = d2[f]
    BY DEF Over
  <2>7. "creationTime" \in DOMAIN d1
    BY <2>4 DEF MetaFields
  <2> DEFINE w1 == Over(m1, d1)
             w2 == Over(m2, d2)
  <2> HIDE DEF w1, w2
  <2>8. DOMAIN w1 = DOMAIN w2
    BY <2>3, <2>4, <2>5, <2>6 DEF MetaAlike, w1, w2
  <2>9. \A f \in DOMAIN w1 \ {"creationTime"} : w1[f] = w2[f]
    BY <2>3, <2>4, <2>5, <2>6 DEF MetaAlike, w1, w2
  <2>10. Alike(w1["creationTime"], t1, w2["creationTime"], t2)
    BY <2>3, <2>4, <2>5, <2>6, <2>7 DEF MetaAlike, Alike, w1, w2
  <2>11. MetaAlike(w1, t1, w2, t2)
    BY <2>8, <2>9, <2>10 DEF MetaAlike
  <2> QED
    BY <2>2, <2>11 DEF w1, w2
<1> QED
  BY <1>2, <1>3, <1>4, <1>5, <1>6 DEF Same, n1, n2

(* ... a reducer without signers keeps that ... *)
LEMMA SamePlainReduce ==
  ASSUME NEW r1, Ready(r1), NEW r2, Ready(r2), NEW t1, NEW t2, Same(r1, t1, r2, t2),
         NEW step \in StepRecords, step.op # "addSigner"
  PROVE  Same(Reduce(r1, step), t1, Reduce(r2, step), t2)
<1> DEFINE n1 == Reduce(r1, step)
           n2 == Reduce(r2, step)
           p1 == PatchOf(r1, step)
           p2 == PatchOf(r2, step)
<1>1. /\ Throws(r1, step) => Thrown(r1, n1)
      /\ ~Throws(r1, step) => Based(r1, p1, n1) /\ "signers" \notin DOMAIN p1
      /\ Throws(r2, step) => Thrown(r2, n2)
      /\ ~Throws(r2, step) => Based(r2, p2, n2) /\ "signers" \notin DOMAIN p2
  BY PlainReduce
<1>2. View(n1) = View(r1) /\ View(n2) = View(r2)
  BY ReduceKeeps
<1>3. /\ r1.cmd["payload"] = r2.cmd["payload"] /\ DOMAIN r1.cmd = DOMAIN r2.cmd
      /\ {"payload", "nonce"} \subseteq DOMAIN r1.cmd
      /\ r1.ok = r2.ok
  BY DEF Ready, Complete, Same
<1>4. Throws(r1, step) <=> Throws(r2, step)
  BY <1>3 DEF Throws
<1> HIDE DEF n1, n2
<1>5. CASE Throws(r1, step)
  <2>1. /\ n1.cmd = r1.cmd /\ n2.cmd = r2.cmd /\ n1.ok = FALSE /\ n2.ok = FALSE
    BY <1>1, <1>4, <1>5 DEF Thrown, RunTyped, RunRecords
  <2> QED
    BY <1>2, <2>1 DEF Same, n1, n2
<1>6. CASE ~Throws(r1, step)
  <2>1. Based(r1, p1, n1) /\ Based(r2, p2, n2) /\ "signers" \notin DOMAIN p1 /\ "signers" \notin DOMAIN p2
    BY <1>1, <1>4, <1>6
  <2>2. /\ DOMAIN p1 = DOMAIN p2
        /\ \A f \in {"payload", "networkId", "verifiers"} \cap DOMAIN p1 : p1[f] = p2[f]
        /\ "nonce" \in DOMAIN p1 => Alike(p1["nonce"], t1, p2["nonce"], t2)
        /\ "meta" \in DOMAIN p1 =>
             p1["meta"] = p2["meta"] /\ \A f \in DOMAIN p1["meta"] : p1["meta"][f] = Given
    <3>1. CASE step.op = "addData"
      BY <1>3, <3>1 DEF PatchOf
    <3>2. CASE step.op = "addVerifier"
      BY <3>2 DEF PatchOf
    <3>3. CASE step.op = "setMeta"
      BY <3>3 DEF PatchOf
    <3>4. CASE step.op = "setNetworkId"
      BY <3>4 DEF PatchOf
    <3>5. CASE step.op = "setNonce"
      <4>1. DOMAIN p1 = {"nonce"} /\ DOMAIN p2 = {"nonce"}
        BY <3>5 DEF PatchOf
      <4>2. /\ p1["nonce"] = IF step.own THEN r1.cmd["nonce"] ELSE Given
            /\ p2["nonce"] = IF step.own THEN r2.cmd["nonce"] ELSE Given
        BY <3>5 DEF PatchOf
      <4>3. Alike(r1.cmd["nonce"], t1, r2.cmd["nonce"], t2)
        BY <1>3 DEF Same
      <4> HIDE DEF p1, p2
      <4> QED
        BY <4>1, <4>2, <4>3 DEF Alike
    <3> QED
      BY <3>1, <3>2, <3>3, <3>4, <3>5
         DEF StepRecords, DataStep, SignerStep, VerifierStep, MetaStep, NetworkStep, NonceStep
  <2> HIDE DEF p1, p2
  <2>3. /\ n1.ok = r1.ok /\ n2.ok = r2.ok
        /\ DOMAIN n1.cmd = DOMAIN r1.cmd \cup DOMAIN p1 /\ DOMAIN n2.cmd = DOMAIN r2.cmd \cup DOMAIN p2
        /\ \A f \in DOMAIN p1 : n1.cmd[f] = PatchOne(r1.cmd, p1, f)
        /\ \A f \in DOMAIN p2 : n2.cmd[f] = PatchOne(r2.cmd, p2, f)
        /\ \A f \in DOMAIN r1.cmd \ DOMAIN p1 : n1.cmd[f] = r1.cmd[f]
        /\ \A f \in DOMAIN r2.cmd \ DOMAIN p2 : n2.cmd[f] = r2.cmd[f]
    BY <2>1 DEF Based
  <2>4. \A f \in {"payload", "networkId", "verifiers"} \cap DOMAIN p1 :
          PatchOne(r1.cmd, p1, f) = PatchOne(r2.cmd, p2, f)
    <3>1. "payload" \in DOMAIN p1 => PatchOne(r1.cmd, p1, "payload") = PatchOne(r2.cmd, p2, "payload")
      BY <1>3, <2>2 DEF PatchOne
    <3>2. "networkId" \in DOMAIN p1 => PatchOne(r1.cmd, p1, "networkId") = PatchOne(r2.cmd, p2, "networkId")
      BY <2>2 DEF PatchOne
    <3>3. "verifiers" \in DOMAIN p1 => PatchOne(r1.cmd, p1, "verifiers") = PatchOne(r2.cmd, p2, "verifiers")
      <4>1. Field(r1.cmd, "verifiers", << >>) = Field(r2.cmd, "verifiers", << >>)
        BY DEF Field, Same
      <4> QED
        BY <2>2, <4>1 DEF PatchOne
    <3> QED
      BY <3>1, <3>2, <3>3
  <2>5. \A f \in {"payload", "networkId", "verifiers"} \cap DOMAIN n1.cmd : n1.cmd[f] = n2.cmd[f]
    <3>1. \A f \in {"payload", "networkId", "verifiers"} \cap DOMAIN r1.cmd : r1.cmd[f] = r2.cmd[f]
      BY DEF Same
    <3> QED
      BY <1>3, <2>2, <2>3, <2>4, <3>1
  <2>6. Alike(n1.cmd["nonce"], t1, n2.cmd["nonce"], t2)
    <3>1. CASE "nonce" \in DOMAIN p1
      BY <2>2, <2>3, <3>1 DEF PatchOne
    <3>2. CASE "nonce" \notin DOMAIN p1
      BY <1>3, <2>2, <2>3, <3>2 DEF Same
    <3> QED
      BY <3>1, <3>2
  <2>7. ASSUME "meta" \in DOMAIN n1.cmd PROVE MetaAlike(n1.cmd["meta"], t1, n2.cmd["meta"], t2)
    <3>1. CASE "meta" \notin DOMAIN p1
      BY <1>3, <2>2, <2>3, <2>7, <3>1 DEF Same
    <3>2. CASE "meta" \in DOMAIN p1
      <4> DEFINE none == << >>
                 g == p1["meta"]
                 m1 == Field(r1.cmd, "meta", none)
                 m2 == Field(r2.cmd, "meta", none)
      <4>1. n1.cmd["meta"] = Over(g, m1) /\ n2.cmd["meta"] = Over(g, m2)
        BY <2>2, <2>3, <3>2 DEF PatchOne
      <4>2. \A f \in DOMAIN g : g[f] = Given
        BY <2>2, <3>2
      <4>3. MetaAlike(m1, t1, m2, t2)
        <5>1. DOMAIN none = {}
          OBVIOUS
        <5> HIDE DEF none
        <5>2. MetaAlike(none, t1, none, t2)
          BY <5>1 DEF MetaAlike
        <5> QED
          BY <1>3, <5>2 DEF Field, Same
      <4> HIDE DEF g, m1, m2
      <4>4. /\ DOMAIN Over(g, m1) = DOMAIN g \cup DOMAIN m1
            /\ \A f \in DOMAIN g : Over(g, m1)[f] = g[f]
            /\ \A f \in DOMAIN m1 \ DOMAIN g : Over(g, m1)[f] = m1[f]
        BY DEF Over
      <4>5. /\ DOMAIN Over(g, m2) = DOMAIN g \cup DOMAIN m2
            /\ \A f \in DOMAIN g : Over(g, m2)[f] = g[f]
            /\ \A f \in DOMAIN m2 \ DOMAIN g : Over(g, m2)[f] = m2[f]
        BY DEF Over
      <4> DEFINE w1 == Over(g, m1)
                 w2 == Over(g, m2)
      <4> HIDE DEF w1, w2
      <4>6. DOMAIN w1 = DOMAIN w2 /\ \A f \in DOMAIN w1 \ {"creationTime"} : w1[f] = w2[f]
        BY <4>3, <4>4, <4>5 DEF MetaAlike, w1, w2
      <4>7. "creationTime" \in DOMAIN w1 => Alike(w1["creationTime"], t1, w2["creationTime"], t2)
        BY <4>2, <4>3, <4>4, <4>5 DEF MetaAlike, Alike, w1, w2
      <4>8. MetaAlike(w1, t1, w2, t2)
        BY <4>6, <4>7 DEF MetaAlike
      <4> QED
        BY <4>1, <4>8 DEF w1, w2
    <3> QED
      BY <3>1, <3>2
  <2>8. DOMAIN n1.cmd = DOMAIN n2.cmd /\ n1.ok = n2.ok
    BY <1>3, <2>2, <2>3
  <2>9. View(n1) = View(n2)
    BY <1>2 DEF Same
  <2> QED
    BY <2>5, <2>6, <2>7, <2>8, <2>9 DEF Same, n1, n2
<1> QED
  BY <1>5, <1>6

(* ... and so does addSigner, whatever objects each heap holds. *)
LEMMA SameAddSigner ==
  ASSUME NEW r1, Ready(r1), KeysDiffer(r1), r1.ok, NEW r2, Ready(r2), KeysDiffer(r2), r2.ok,
         NEW t1, NEW t2, Same(r1, t1, r2, t2), NEW keys \in Seq(Keys), NEW clist \in CapList
  PROVE  Same(AddSigner(r1, keys, clist), t1, AddSigner(r2, keys, clist), t2)
<1> DEFINE n1 == AddSigner(r1, keys, clist)
           n2 == AddSigner(r2, keys, clist)
           objects == Made(keys, clist)
<1>1. /\ RunTyped(r1) /\ RunTyped(r2) /\ View(r1) = View(r2) /\ DOMAIN r1.cmd = DOMAIN r2.cmd
      /\ {"nonce", "signers", "payload"} \subseteq DOMAIN r1.cmd
  BY DEF Ready, Complete, Same
<1>2. /\ RunTyped(n1) /\ n1.ok /\ DOMAIN n1.cmd = DOMAIN r1.cmd
      /\ \A f \in DOMAIN r1.cmd \ {"signers"} : n1.cmd[f] = r1.cmd[f]
  <2>1. /\ RunTyped(n1) /\ n1.ok
        /\ DOMAIN r1.cmd \subseteq DOMAIN n1.cmd
        /\ DOMAIN n1.cmd \subseteq DOMAIN r1.cmd \cup {"signers"}
        /\ \A f \in DOMAIN r1.cmd \ {"signers"} : n1.cmd[f] = r1.cmd[f]
    BY <1>1, AddSignerKeeps
  <2> HIDE DEF n1
  <2> QED
    BY <1>1, <2>1
<1>3. /\ RunTyped(n2) /\ n2.ok /\ DOMAIN n2.cmd = DOMAIN r1.cmd
      /\ \A f \in DOMAIN r1.cmd \ {"signers"} : n2.cmd[f] = r2.cmd[f]
  <2>1. /\ RunTyped(n2) /\ n2.ok
        /\ DOMAIN r2.cmd \subseteq DOMAIN n2.cmd
        /\ DOMAIN n2.cmd \subseteq DOMAIN r2.cmd \cup {"signers"}
        /\ \A f \in DOMAIN r2.cmd \ {"signers"} : n2.cmd[f] = r2.cmd[f]
    BY <1>1, AddSignerKeeps
  <2> HIDE DEF n2
  <2> QED
    BY <1>1, <2>1
<1>4. PICK v : ViewThrough(v, View(r1), objects) /\ View(n1) = v[Len(keys)]
  BY <1>1, AddSignerView
<1>5. PICK w : ViewThrough(w, View(r1), objects) /\ View(n2) = w[Len(keys)]
  <2>1. \E w : ViewThrough(w, View(r2), objects) /\ View(n2) = w[Len(keys)]
    BY <1>1, AddSignerView
  <2> QED
    BY <1>1, <2>1
<1>6. Len(objects) = Len(keys) /\ Len(objects) \in Nat
  BY <1>1, MadeIs
<1> HIDE DEF n1, n2, objects
<1>7. View(n1) = View(n2)
  BY <1>4, <1>5, <1>6, ViewThroughIsOne
<1>8. n1.ok = TRUE /\ n2.ok = TRUE
  BY <1>2, <1>3 DEF RunTyped, RunRecords
<1> QED
  BY <1>1, <1>2, <1>3, <1>7, <1>8 DEF Same, n1, n2

LEMMA SameDone ==
  ASSUME NEW r1, Ready(r1), KeysDiffer(r1), NEW r2, Ready(r2), KeysDiffer(r2),
         NEW t1 \in Nat, NEW t2 \in Nat, Same(r1, t1, r2, t2), NEW step \in StepRecords
  PROVE  Same(Done(r1, step, t1), t1, Done(r2, step, t2), t2)
<1> DEFINE m1 == Reduce(r1, step)
           m2 == Reduce(r2, step)
<1>1. RunTyped(m1) /\ RunTyped(m2)
  BY ReduceKeeps
<1>2. r1.ok = r2.ok
  BY DEF Same
<1>3. Same(m1, t1, m2, t2)
  <2>1. CASE step.op # "addSigner"
    BY <2>1, SamePlainReduce
  <2>2. CASE step.op = "addSigner" /\ r1.ok
    <3> DEFINE keys == step.keys
               clist == step.clist
    <3>1. keys \in Seq(Keys) /\ clist \in CapList
      BY <2>2 DEF StepRecords, DataStep, SignerStep, VerifierStep, MetaStep, NetworkStep, NonceStep
    <3>2. m1 = AddSigner(r1, keys, clist) /\ m2 = AddSigner(r2, keys, clist)
      BY <1>2, <2>2 DEF Reduce
    <3> HIDE DEF keys, clist, m1, m2
    <3> QED
      BY <1>2, <2>2, <3>1, <3>2, SameAddSigner
  <2>3. CASE ~r1.ok
    <3>1. m1 = r1 /\ m2 = r2
      BY <1>2, <2>3 DEF Reduce
    <3> QED
      BY <3>1
  <2> QED
    BY <2>1, <2>2, <2>3
<1> HIDE DEF m1, m2
<1>4. Same(Finalize(m1, t1), t1, Finalize(m2, t2), t2)
  BY <1>1, <1>3, SameFinalize
<1> QED
  BY <1>4 DEF Done, m1, m2

(* The same calls over two heaps at two times differ in references and     *)
(* default times only.                                                     *)
LEMMA InStep ==
  ASSUME NEW initial, "signers" \notin DOMAIN initial, AllGiven(initial),
         NEW o1, StartsFrom(initial, o1), NEW o2, StartsFrom(initial, o2),
         NEW steps \in Seq(StepRecords), NEW t1 \in Nat, NEW t2 \in Nat
  PROVE  Same(RunAll(initial, o1, steps, t1), t1, RunAll(initial, o2, steps, t2), t2)
<1> DEFINE N == Len(steps)
           P1 == PatchCommand(Start(o1), initial)
           P2 == PatchCommand(Start(o2), initial)
<1>1. PICK f : RunSoFar(f, initial, o1, steps, t1)
  BY RunsAreReady
<1>2. PICK g : RunSoFar(g, initial, o2, steps, t2)
  BY RunsAreReady
<1>3. N \in Nat /\ \A n \in 1..N : steps[n] \in StepRecords
  OBVIOUS
<1>4. /\ RunAll(initial, o1, steps, t1) = f[N] /\ f[0] = Finalize(P1, t1)
      /\ \A n \in 1..N : f[n] = Done(f[n-1], steps[n], t1)
      /\ \A n \in 0..N : Ready(f[n]) /\ KeysDiffer(f[n])
  BY <1>1 DEF RunSoFar
<1>5. /\ RunAll(initial, o2, steps, t2) = g[N] /\ g[0] = Finalize(P2, t2)
      /\ \A n \in 1..N : g[n] = Done(g[n-1], steps[n], t2)
      /\ \A n \in 0..N : Ready(g[n]) /\ KeysDiffer(g[n])
  BY <1>2 DEF RunSoFar
<1>6. Same(P1, t1, P2, t2)
  BY SameStart
<1>7. RunTyped(P1) /\ RunTyped(P2)
  BY StartIs
<1> HIDE DEF N, P1, P2
<1> DEFINE T == {n \in 0..N : Same(f[n], t1, g[n], t2)}
<1>8. 0 \in T
  <2>1. Same(Finalize(P1, t1), t1, Finalize(P2, t2), t2)
    BY <1>6, <1>7, SameFinalize
  <2>2. Same(f[0], t1, g[0], t2)
    BY <1>4, <1>5, <2>1
  <2> QED
    BY <1>3, <2>2
<1>9. ASSUME NEW n \in 0..N, n < N, n \in T PROVE n + 1 \in T
  <2> DEFINE r1 == f[n]
             r2 == g[n]
             step == steps[n+1]
  <2>1. n + 1 \in 1..N /\ (n + 1) - 1 = n /\ n + 1 \in 0..N
    BY <1>3, <1>9
  <2>2. /\ f[n+1] = Done(r1, step, t1) /\ g[n+1] = Done(r2, step, t2) /\ step \in StepRecords
        /\ Ready(r1) /\ KeysDiffer(r1) /\ Ready(r2) /\ KeysDiffer(r2) /\ Same(r1, t1, r2, t2)
    BY <1>3, <1>4, <1>5, <1>9, <2>1
  <2> HIDE DEF r1, r2, step, T
  <2>3. Same(Done(r1, step, t1), t1, Done(r2, step, t2), t2)
    BY <2>2, SameDone
  <2> QED
    BY <2>1, <2>2, <2>3 DEF T
<1> HIDE DEF T
<1>10. 0..N \subseteq T
  BY <1>3, <1>8, <1>9, BoundedInduction
<1>11. N \in T
  BY <1>3, <1>10
<1> QED
  BY <1>4, <1>5, <1>11 DEF T, N

(* The command of a run without references: what is sent. *)
LEMMA SentIs ==
  ASSUME NEW run, Ready(run)
  PROVE  LET body == Body(run.cmd, run.heap)
         IN  /\ DOMAIN body = DOMAIN run.cmd /\ body = [f \in DOMAIN body |-> body[f]]
             /\ DOMAIN body \subseteq {"payload", "meta", "nonce", "networkId", "signers", "verifiers"}
             /\ body["signers"] = View(run)
             /\ \A f \in DOMAIN body \ {"signers"} : body[f] = run.cmd[f]
             /\ "nonce" \in DOMAIN body
             /\ "meta" \in DOMAIN body => /\ body["meta"] = [f \in DOMAIN body["meta"] |-> body["meta"][f]]
                                          /\ "creationTime" \in DOMAIN body["meta"]
<1> DEFINE cmd == run.cmd
           body == Body(cmd, run.heap)
<1>1. /\ RunTyped(run) /\ Complete(cmd) /\ "signers" \in DOMAIN cmd /\ "nonce" \in DOMAIN cmd
      /\ DOMAIN cmd \subseteq Fields /\ ("meta" \in DOMAIN cmd => cmd["meta"] \in Metas)
  BY DEF Ready, Complete, RunTyped, Typed
<1>2. /\ DOMAIN body = DOMAIN cmd /\ body["signers"] = View(run)
      /\ \A f \in DOMAIN cmd \ {"signers"} : body[f] = cmd[f]
      /\ body = [f \in DOMAIN body |-> body[f]]
  BY <1>1, BodyIs
<1> HIDE DEF body, cmd
<1>3. "meta" \in DOMAIN cmd => /\ cmd["meta"] = [f \in DOMAIN cmd["meta"] |-> cmd["meta"][f]]
                               /\ "creationTime" \in DOMAIN cmd["meta"]
  <2> DEFINE m == cmd["meta"]
  <2>1. "meta" \in DOMAIN cmd => m \in Metas /\ MetaFields \ {"chainId"} \subseteq DOMAIN m
    BY <1>1 DEF Complete
  <2> HIDE DEF m
  <2>2. m \in Metas => m = [f \in DOMAIN m |-> m[f]]
    BY DEF Metas
  <2>3. "creationTime" \in MetaFields \ {"chainId"}
    BY DEF MetaFields
  <2> QED
    BY <2>1, <2>2, <2>3 DEF m
<1> QED
  BY <1>1, <1>2, <1>3 DEF Fields, body, cmd

(* Two such commands are one text exactly if the times are pinned or       *)
(* equal.                                                                  *)
LEMMA BodiesAgree ==
  ASSUME NEW r1, Ready(r1), NEW r2, Ready(r2), NEW t1 \in Nat, NEW t2 \in Nat,
         Same(r1, t1, r2, t2)
  PROVE  LET b1 == Body(r1.cmd, r1.heap)
             b2 == Body(r2.cmd, r2.heap)
         IN  b1 = b2 <=> Pinned(b1) \/ t1 = t2
<1> DEFINE b1 == Body(r1.cmd, r1.heap)
           b2 == Body(r2.cmd, r2.heap)
           m1 == b1["meta"]
           m2 == b2["meta"]
<1>1. /\ DOMAIN b1 = DOMAIN r1.cmd /\ b1 = [f \in DOMAIN b1 |-> b1[f]]
      /\ DOMAIN b1 \subseteq {"payload", "meta", "nonce", "networkId", "signers", "verifiers"}
      /\ b1["signers"] = View(r1)
      /\ \A f \in DOMAIN b1 \ {"signers"} : b1[f] = r1.cmd[f]
      /\ "nonce" \in DOMAIN b1
      /\ "meta" \in DOMAIN b1 => m1 = [f \in DOMAIN m1 |-> m1[f]] /\ "creationTime" \in DOMAIN m1
  BY SentIs
<1>2. /\ DOMAIN b2 = DOMAIN r2.cmd /\ b2 = [f \in DOMAIN b2 |-> b2[f]]
      /\ b2["signers"] = View(r2)
      /\ \A f \in DOMAIN b2 \ {"signers"} : b2[f] = r2.cmd[f]
      /\ "meta" \in DOMAIN b2 => m2 = [f \in DOMAIN m2 |-> m2[f]] /\ "creationTime" \in DOMAIN m2
  BY SentIs
<1> HIDE DEF b1, b2
<1>3. /\ DOMAIN b1 = DOMAIN b2
      /\ \A f \in DOMAIN b1 \ {"nonce", "meta"} : b1[f] = b2[f]
      /\ Alike(b1["nonce"], t1, b2["nonce"], t2)
      /\ "meta" \in DOMAIN b1 => MetaAlike(m1, t1, m2, t2)
  BY <1>1, <1>2 DEF Same
<1>4. Pinned(b1) <=> b1["nonce"] = Given /\ ("meta" \in DOMAIN b1 => m1["creationTime"] = Given)
  BY DEF Pinned
<1>5. t1 # Given /\ t2 # Given
  BY DEF Given
<1> HIDE DEF m1, m2
<1>6. ASSUME Pinned(b1) \/ t1 = t2 PROVE b1 = b2
  <2>1. b1["nonce"] = b2["nonce"]
    BY <1>3, <1>4, <1>5, <1>6 DEF Alike
  <2>2. "meta" \in DOMAIN b1 => m1 = m2
    <3> SUFFICES ASSUME "meta" \in DOMAIN b1 PROVE m1 = m2
      OBVIOUS
    <3>1. Alike(m1["creationTime"], t1, m2["creationTime"], t2)
      BY <1>1, <1>3 DEF MetaAlike
    <3>2. m1["creationTime"] = m2["creationTime"]
      BY <1>4, <1>5, <1>6, <3>1 DEF Alike
    <3>3. DOMAIN m1 = DOMAIN m2 /\ \A f \in DOMAIN m1 : m1[f] = m2[f]
      BY <1>3, <3>2 DEF MetaAlike
    <3> QED
      BY <1>1, <1>2, <1>3, <3>3
  <2>3. \A f \in DOMAIN b1 : b1[f] = b2[f]
    BY <1>3, <2>1, <2>2 DEF m1, m2
  <2> QED
    BY <1>1, <1>2, <1>3, <2>3
<1>7. ASSUME b1 = b2, t1 # t2 PROVE Pinned(b1)
  <2>1. b1["nonce"] = Given
    BY <1>3, <1>7 DEF Alike
  <2>2. "meta" \in DOMAIN b1 => m1["creationTime"] = Given
    BY <1>1, <1>3, <1>7 DEF MetaAlike, Alike, m1, m2
  <2> QED
    BY <1>4, <2>1, <2>2
<1> QED
  BY <1>6, <1>7 DEF b1, b2

(* What the calls on a builder of its own send at a time: its run with no  *)
(* other object in the heap.                                               *)
SentBody(of, time) ==
  LET run == RunAll(of.init, << >>, of.steps, time)
  IN  Body(run.cmd, run.heap)

Begun(of) == BuilderTyped(of) /\ of.made /\ AllGiven(of.init)

FromItsCalls(tx) ==
  /\ tx.time \in Nat /\ Begun(tx.of)
  /\ Own(tx.of) => tx.body = SentBody(tx.of, tx.time)

(* Only finalizeCommand puts in a time: what was started from has none,    *)
(* and a transaction is what its builder's calls give at its time.         *)
NothingInvented ==
  /\ AllGiven(template)
  /\ \A b \in Builders : AllGiven(builders[b].init)
  /\ \A i \in DOMAIN txs : FromItsCalls(txs[i])

LEMMA BareStart ==
  ASSUME NEW of, Begun(of)
  PROVE  /\ StartsFrom(of.init, << >>) /\ "signers" \notin DOMAIN of.init
         /\ of.steps \in Seq(StepRecords)
<1> DEFINE init == of.init
           steps == of.steps
           none == << >>
<1>1. /\ Typed(init, {}) /\ "signers" \notin DOMAIN init /\ "payload" \in DOMAIN init
      /\ steps \in Seq(Steps)
  BY DEF Begun, BuilderTyped
<1>2. DOMAIN none = {} /\ none \in Seq(Signers)
  OBVIOUS
<1> HIDE DEF init, steps, none
<1>3. steps \in Seq(StepRecords)
  BY <1>1, StepAssumption
<1>4. StartsFrom(init, none)
  BY <1>1, <1>2 DEF StartsFrom, Typed
<1> QED
  BY <1>1, <1>3, <1>4 DEF init, steps, none

(* One builder at two times. *)
LEMMA SentTwice ==
  ASSUME NEW of, Begun(of), NEW o1, StartsFrom(of.init, o1), NEW o2, StartsFrom(of.init, o2),
         NEW t1 \in Nat, NEW t2 \in Nat
  PROVE  LET r1 == RunAll(of.init, o1, of.steps, t1)
             r2 == RunAll(of.init, o2, of.steps, t2)
             b1 == Body(r1.cmd, r1.heap)
         IN  b1 = Body(r2.cmd, r2.heap) <=> Pinned(b1) \/ t1 = t2
<1> DEFINE init == of.init
           steps == of.steps
           r1 == RunAll(init, o1, steps, t1)
           r2 == RunAll(init, o2, steps, t2)
<1>1. "signers" \notin DOMAIN init /\ steps \in Seq(StepRecords) /\ AllGiven(init)
  BY BareStart DEF Begun
<1>2. StartsFrom(init, o1) /\ StartsFrom(init, o2)
  OBVIOUS
<1> HIDE DEF init, steps
<1>3. Same(r1, t1, r2, t2)
  BY <1>1, <1>2, InStep
<1>4. Ready(r1) /\ Ready(r2)
  BY <1>1, <1>2, RunAllIs
<1> HIDE DEF r1, r2
<1>5. LET b1 == Body(r1.cmd, r1.heap)
      IN  b1 = Body(r2.cmd, r2.heap) <=> Pinned(b1) \/ t1 = t2
  BY <1>3, <1>4, BodiesAgree
<1> QED
  BY <1>5 DEF r1, r2, init, steps

(* A transaction is what its builder's calls give at its time: nothing     *)
(* else that happened before shows in it.                                  *)
LEMMA NewTxFromItsCalls ==
  ASSUME BInv, NothingInvented, NEW b \in Builders, builders[b].made
  PROVE  FromItsCalls([body |-> Body(RunOnce(b).cmd, RunOnce(b).heap), time |-> clock,
                       of |-> builders[b]])
<1> DEFINE of == builders[b]
           run == RunOnce(b)
           body == Body(run.cmd, run.heap)
<1>1. clock \in Nat /\ Begun(of)
  BY DEF BInv, NothingInvented, Begun
<1>2. StartsFrom(Initial(b), heap)
  BY InitialIs
<1>3. Own(of) => Initial(b) = of.init
  BY InitialIs DEF Own
<1>4. run = RunAll(Initial(b), heap, of.steps, clock)
  BY DEF RunOnce
<1>5. StartsFrom(of.init, << >>)
  BY <1>1, BareStart
<1> HIDE DEF of
<1>6. ASSUME Own(of) PROVE body = SentBody(of, clock)
  <2> DEFINE other == RunAll(of.init, << >>, of.steps, clock)
  <2>1. run = RunAll(of.init, heap, of.steps, clock) /\ StartsFrom(of.init, heap)
    BY <1>2, <1>3, <1>4, <1>6
  <2> HIDE DEF run
  <2>2. Body(run.cmd, run.heap) = Body(other.cmd, other.heap)
    BY <1>1, <1>5, <2>1, SentTwice
  <2> QED
    BY <2>2 DEF SentBody, run
<1> HIDE DEF body
<1> DEFINE tx == [body |-> body, time |-> clock, of |-> of]
<1>7. tx.body = body /\ tx.time = clock /\ tx.of = of
  OBVIOUS
<1> HIDE DEF tx
<1>8. FromItsCalls(tx)
  BY <1>1, <1>6, <1>7 DEF FromItsCalls
<1> QED
  BY <1>8 DEF tx, body, run, of

LEMMA InitInventsNothing == Init => NothingInvented
<1> SUFFICES ASSUME Init PROVE NothingInvented
  OBVIOUS
<1>1. PICK t \in Templates : template = t.cmd
  BY DEF Init
<1>2. IsTemplate(t)
  BY TemplateAssumption
<1>3. AllGiven(template)
  <2>1. "meta" \in DOMAIN template => template["meta"] \in [DOMAIN template["meta"] -> {Given}]
    BY <1>1, <1>2 DEF IsTemplate
  <2>2. "nonce" \in DOMAIN template => template["nonce"] = Given
    BY <1>1, <1>2 DEF IsTemplate
  <2> QED
    BY <2>1, <2>2 DEF AllGiven
<1>4. DOMAIN << >> = {}
  OBVIOUS
<1>5. AllGiven(<< >>)
  BY <1>4 DEF AllGiven
<1>6. \A b \in Builders : builders[b].init = << >>
  BY DEF Init, NoBuilder
<1> QED
  BY <1>3, <1>4, <1>5, <1>6 DEF NothingInvented, Init

LEMMA NewBuilderInventsNothing ==
  ASSUME BInv, NothingInvented, NEW b \in Builders, NEW p \in Payloads, NEW fromTemplate \in BOOLEAN,
         NewBuilder(b, [payload |-> p], fromTemplate)
  PROVE  AllGiven(template') /\ \A x \in Builders : AllGiven(builders'[x].init)
<1> DEFINE cmd == IF fromTemplate THEN Restrict(template, DOMAIN template \ {"signers"}) ELSE << >>
           patched == PatchCommand([cmd |-> cmd, heap |-> heap, ok |-> TRUE], [payload |-> p])
           new == [init |-> patched.cmd, steps |-> << >>, fromTemplate |-> fromTemplate, made |-> TRUE]
<1>1. /\ patched.ok /\ builders' = [builders EXCEPT ![b] = new]
      /\ template' = template
  BY DEF NewBuilder
<1>2. /\ DOMAIN patched.cmd = DOMAIN cmd \cup {"payload"}
      /\ \A f \in DOMAIN cmd \ {"payload"} : patched.cmd[f] = cmd[f]
  BY <1>1, NewBuilderInit
<1>3. AllGiven(cmd)
  <2>1. CASE fromTemplate
    <3>1. cmd = [f \in DOMAIN template \ {"signers"} |-> template[f]]
      BY <2>1 DEF Restrict
    <3> HIDE DEF cmd
    <3> QED
      BY <3>1 DEF NothingInvented, AllGiven
  <2>2. CASE ~fromTemplate
    <3>1. DOMAIN cmd = {}
      BY <2>2
    <3> HIDE DEF cmd
    <3> QED
      BY <3>1 DEF AllGiven
  <2> QED
    BY <2>1, <2>2
<1> HIDE DEF patched, cmd
<1>4. AllGiven(patched.cmd)
  BY <1>2, <1>3 DEF AllGiven
<1>5. DOMAIN builders = Builders
  BY DEF BInv
<1>6. new.init = patched.cmd
  OBVIOUS
<1> HIDE DEF new
<1> QED
  BY <1>1, <1>4, <1>5, <1>6 DEF NothingInvented

(* NothingInvented is inductive. *)
LEMMA NothingIsInvented ==
  ASSUME BInv, NothingInvented, [Next]_vars
  PROVE  NothingInvented'
<1>1. DOMAIN template' = DOMAIN template
  BY NextKeeps DEF StepKeeps
<1>2. ASSUME NEW tx PROVE FromItsCalls(tx)' = FromItsCalls(tx)
  BY <1>1 DEF FromItsCalls, Own
<1> DEFINE Starts == AllGiven(template') /\ \A x \in Builders : AllGiven(builders'[x].init)
           Sent == \A i \in DOMAIN txs' : FromItsCalls(txs'[i])
<1>3. UNCHANGED txs => Sent
  BY DEF NothingInvented
<1>4. UNCHANGED <<template, builders>> => Starts
  BY DEF NothingInvented
<1>5. ASSUME NEW path \in Paths, CallRefused(path) PROVE Starts /\ Sent
  <2>1. UNCHANGED <<template, builders, txs>>
    BY <1>5 DEF CallRefused
  <2> QED
    BY <1>3, <1>4, <2>1
<1>6. ASSUME NEW b \in Builders, NEW p \in Payloads, NEW fromTemplate \in BOOLEAN,
             NewBuilder(b, [payload |-> p], fromTemplate)
      PROVE  Starts /\ Sent
  <2>1. UNCHANGED txs
    BY <1>6 DEF NewBuilder
  <2> QED
    BY <1>3, <1>6, <2>1, NewBuilderInventsNothing
<1>7. ASSUME NEW b \in Builders, NEW path \in Paths, NEW fromTemplate \in BOOLEAN,
             NewExecution(b, path, fromTemplate)
      PROVE  Starts /\ Sent
  <2> DEFINE p == [kind |-> "exec", code |-> Append(module, path), data |-> {}, proof |-> "undefined"]
  <2>1. Append(module, path) \in Seq(Paths)
    BY DEF BInv
  <2>2. p \in Payloads
    BY <2>1 DEF Payloads
  <2>3. NewBuilder(b, [payload |-> p], fromTemplate)
    BY <1>7, Zenon DEF NewExecution, Execution, Expression
  <2> HIDE DEF p, Starts, Sent
  <2> QED
    BY <1>6, <2>2, <2>3
<1>8. ASSUME NEW b \in Builders, NEW fromTemplate \in BOOLEAN, NewContinuation(b, fromTemplate)
      PROVE  Starts /\ Sent
  <2> DEFINE p == [kind |-> "cont", code |-> << >>, data |-> {}, proof |-> "null"]
  <2>1. p \in Payloads
    BY DEF Payloads
  <2>2. NewBuilder(b, [payload |-> p], fromTemplate)
    BY <1>8, Zenon DEF NewContinuation, Continuation
  <2> HIDE DEF p, Starts, Sent
  <2> QED
    BY <1>6, <2>1, <2>2
<1>9. ASSUME NEW b \in Builders, NEW step \in Steps, AddStep(b, step) PROVE Starts /\ Sent
  <2>1. UNCHANGED <<template, txs>> /\ builders' = [builders EXCEPT ![b].steps = Append(@, step)]
    BY <1>9 DEF AddStep
  <2>2. DOMAIN builders = Builders
    BY DEF BInv
  <2>3. ASSUME NEW x \in Builders PROVE builders'[x].init = builders[x].init
    BY <2>1, <2>2
  <2> QED
    BY <1>3, <2>1, <2>3 DEF NothingInvented
<1>10. ASSUME NEW b \in Builders, GetCommand(b) PROVE Starts /\ Sent
  <2>1. UNCHANGED <<template, builders, txs>>
    BY <1>10 DEF GetCommand
  <2> QED
    BY <1>3, <1>4, <2>1
<1>11. ASSUME NEW b \in Builders, CreateTransaction(b) PROVE Starts /\ Sent
  <2> DEFINE run == RunOnce(b)
             new == [body |-> Body(run.cmd, run.heap), time |-> clock, of |-> builders[b]]
  <2>1. /\ builders[b].made /\ UNCHANGED <<template, builders>>
        /\ \/ txs' = Append(txs, new)
           \/ txs' = txs
    BY <1>11 DEF CreateTransaction
  <2>2. FromItsCalls(new)
    BY <2>1, NewTxFromItsCalls
  <2> HIDE DEF new, run
  <2>3. CASE txs' = Append(txs, new)
    <3>1. IsSeq(txs)
      BY DEF BInv
    <3>2. /\ DOMAIN txs' = DOMAIN txs \cup {Len(txs) + 1}
          /\ \A i \in DOMAIN txs : txs'[i] = txs[i]
          /\ txs'[Len(txs) + 1] = new
      BY <2>3, <3>1, SeqGrows
    <3>3. Sent
      BY <2>2, <3>2 DEF NothingInvented
    <3> QED
      BY <1>4, <2>1, <3>3
  <2> QED
    BY <1>3, <1>4, <2>1, <2>3
<1>12. ASSUME NEW step \in Steps, ComposeOnTemplate(step) PROVE Starts /\ Sent
  <2>1. UNCHANGED <<builders, txs>>
    BY <1>12 DEF ComposeOnTemplate
  <2>2. TemplateSettles
    BY <1>12, ComposeOnTemplateKeeps
  <2>3. AllGiven(template')
    BY <2>2 DEF NothingInvented, AllGiven, TemplateSettles
  <2> QED
    BY <1>3, <2>1, <2>3 DEF NothingInvented
<1>13. ASSUME Tick PROVE Starts /\ Sent
  <2>1. UNCHANGED <<template, builders, txs>>
    BY <1>13 DEF Tick
  <2> QED
    BY <1>3, <1>4, <2>1
<1>14. ASSUME UNCHANGED vars PROVE Starts /\ Sent
  <2>1. UNCHANGED <<template, builders, txs>>
    BY <1>14 DEF vars
  <2> QED
    BY <1>3, <1>4, <2>1
<1> HIDE DEF Starts, Sent
<1>15. Starts /\ Sent
  BY <1>5, <1>7, <1>8, <1>9, <1>10, <1>11, <1>12, <1>13, <1>14 DEF Next
<1> QED
  BY <1>2, <1>15 DEF NothingInvented, Starts, Sent, AllGiven

LEMMA FromTheSameCalls ==
  ASSUME NEW of, Begun(of), NEW t1 \in Nat, NEW t2 \in Nat
  PROVE  LET b1 == SentBody(of, t1)
         IN  b1 = SentBody(of, t2) <=> Pinned(b1) \/ t1 = t2
<1> DEFINE none == << >>
<1>1. StartsFrom(of.init, none)
  BY BareStart
<1> HIDE DEF none
<1>2. LET r1 == RunAll(of.init, none, of.steps, t1)
          r2 == RunAll(of.init, none, of.steps, t2)
          b1 == Body(r1.cmd, r1.heap)
      IN  b1 = Body(r2.cmd, r2.heap) <=> Pinned(b1) \/ t1 = t2
  BY <1>1, SentTwice
<1> QED
  BY <1>2 DEF SentBody, none

(* Two transactions of the same calls on a builder of its own are the      *)
(* same text exactly if nonce and creation time are pinned or no time has  *)
(* passed between them, whatever other builders, commands and              *)
(* transactions were made before or between                                *)
(* (composePactCommand.cjs:8-24).                                          *)
THEOREM TransactionsAgreeAlways == Spec => []TransactionsAgree
<1>1. Init => BInv /\ NothingInvented
  BY InitBInv, InitInventsNothing
<1>2. BInv /\ NothingInvented /\ [Next]_vars => (BInv /\ NothingInvented)'
  BY NextKeeps, NothingIsInvented
<1>3. NothingInvented => TransactionsAgree
  <2> SUFFICES ASSUME NothingInvented, NEW i \in DOMAIN txs, NEW j \in DOMAIN txs,
                      txs[i].of = txs[j].of, Own(txs[i].of)
               PROVE  txs[i].body = txs[j].body <=> Pinned(txs[i].body) \/ txs[i].time = txs[j].time
    BY DEF TransactionsAgree
  <2>1. /\ txs[i].time \in Nat /\ txs[j].time \in Nat /\ Begun(txs[i].of)
        /\ txs[i].body = SentBody(txs[i].of, txs[i].time)
        /\ txs[j].body = SentBody(txs[i].of, txs[j].time)
    BY DEF NothingInvented, FromItsCalls
  <2> QED
    BY <2>1, FromTheSameCalls
<1> QED
  BY <1>1, <1>2, <1>3, PTL DEF Spec
=============================================================================
