----------------------------- MODULE Splitters -----------------------------
(***************************************************************************)
(* The index logic of validation/cpcv.py and validation/walkforward.py.    *)
(*                                                                         *)
(* An event is the time of the bar it starts at, and time counts bars: an  *)
(* index is a set of such times.  t1 gives the end of each event's label   *)
(* span [e, t1[e]].  A split is two sets of events, train and test.        *)
(*                                                                         *)
(* Operators commented "Mutant:" are not part of the model; each is a      *)
(* plausible bug that a property of Validation is shown to catch.          *)
(***************************************************************************)
EXTENDS Integers, FiniteSetsExt

Smaller(a, b) == IF a <= b THEN a ELSE b
Larger(a, b) == IF a >= b THEN a ELSE b

(* Position of an event in an index. *)
Rank(I, e) == Cardinality({f \in I : f < e})

(* Mutants: the remainder is left out; neighbouring groups share an event. *)
EqualGroup(I, k, g) ==
  LET size == Cardinality(I) \div k IN {e \in I : Rank(I, e) \in g * size .. (g + 1) * size - 1}
ClosedGroup(I, k, g) ==
  LET size == Cardinality(I) \div k IN {e \in I : Rank(I, e) \in g * size .. (g + 1) * size}

(* np.array_split(np.arange(n), k)[g]: the first n % k groups are longer.  *)
Group(I, k, g) ==
  LET n == Cardinality(I)
      from == g * (n \div k) + Smaller(g, n % k)
      to == (g + 1) * (n \div k) + Smaller(g + 1, n % k)
  IN {e \in I : Rank(I, e) \in from .. to - 1}

-----------------------------------------------------------------------------
(* purge_train_times.                                                      *)

(* Do two label spans share a bar?  (The definition the code is checked    *)
(* against, not part of it.)                                               *)
Overlap(t1, a, b) == a <= t1[b] /\ b <= t1[a]

(* _merge_intervals: starts of the merged intervals - the test events that *)
(* start after every earlier test label has ended - and their ends.        *)
MergedStarts(t1, test) == {s \in test : \A r \in test : r < s => t1[r] < s}
MergedOf(t1, test, e) == Max({s \in MergedStarts(t1, test) : s <= e})

(* Mutants: a merged interval ends with its last label; with the last of   *)
(* all labels.                                                             *)
EndOfLast(t1, test, s) == t1[Max({e \in test : MergedOf(t1, test, e) = s})]
EndOfAll(t1, test, s) == Max({t1[e] : e \in test})
MergedEnd(t1, test, s) == Max({t1[e] : e \in {f \in test : MergedOf(t1, test, f) = s}})

(* Mutant: looked up by the start of a's span. *)
StabbedByStart(t1, test, a) ==
  LET started == {s \in MergedStarts(t1, test) : s <= a} IN
  started # {} /\ MergedEnd(t1, test, Max(started)) >= a

(* The rightmost merged interval that starts by t1[a] is the only one that *)
(* can overlap a's span.                                                   *)
Stabbed(t1, test, a) ==
  LET started == {s \in MergedStarts(t1, test) : s <= t1[a]} IN
  started # {} /\ MergedEnd(t1, test, Max(started)) >= a

Purge(t1, train, test) == {a \in train : ~ Stabbed(t1, test, a)}

(* apply_embargo: the next embargo positions of the index after the end of *)
(* a test label - provided that end is itself an event of the index.       *)
Embargoed(t1, I, test, bars) ==
  UNION {Rank(I, t1[b]) + 1 .. Rank(I, t1[b]) + bars : b \in {e \in test : t1[e] \in I}}

Embargo(t1, I, train, test, bars) ==
  {a \in train : Rank(I, a) \notin Embargoed(t1, I, test, bars)}

-----------------------------------------------------------------------------
(* The splitters.                                                          *)

Split(train, test) == [train |-> train, test |-> test]

(* int(n * pct), pct in percent. *)
Portion(I, pct) == (Cardinality(I) * pct) \div 100

PurgedSplit(t1, I, test, pct) ==
  Split(Embargo(t1, I, Purge(t1, I, test), test, Portion(I, pct)), test)

(* One iteration of PurgedKFold.split, and of CombinatorialPurgedCV.split. *)
KFoldSplit(t1, I, k, g, pct) == PurgedSplit(t1, I, Group(I, k, g), pct)
CPCVSplit(t1, I, k, combo, pct) ==
  PurgedSplit(t1, I, UNION {Group(I, k, g) : g \in combo}, pct)

(* WalkForwardSplit.split, fold i; no train set when it skips the fold.    *)
WalkSplit(t1, I, k, i, pct, anchored) ==
  LET test == Group(I, k + 1, i)
      before == {e \in I : /\ test # {} /\ Rank(I, e) < Rank(I, Min(test)) - Portion(I, pct)
                           /\ anchored \/ e >= Min(Group(I, k + 1, i - 1))}
  IN Split(Purge(t1, before, test), test)

(* Mutant: the development set is everything before the cut.               *)
UnpurgedHoldout(t1, I, pct) ==
  LET cut == Portion(I, 100 - pct)
      hold == {e \in I : Rank(I, e) >= cut}
  IN Split(I \ hold, hold)

(* holdout_split: train is the development set, test the holdout.          *)
HoldoutSplit(t1, I, pct) ==
  LET cut == Portion(I, 100 - pct)
      hold == {e \in I : Rank(I, e) >= cut}
  IN Split(Purge(t1, I \ hold, hold), hold)
=============================================================================
