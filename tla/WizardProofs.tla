---------------------------- MODULE WizardProofs ----------------------------
(* Proofs about Wizard (what is created is what the pages showed, for any     *)
(* template, addresses, answers and typings) and about BOQRollup               *)
(* (no row without its parent, and when the budgets of the three levels       *)
(* agree).  Both sum over finite sets with the folds of the community         *)
(* modules; what the fold computes is proved first, from a least set on which *)
(* it would be wrong.                                                         *)
EXTENDS Wizard, BOQRollup, FiniteSetTheorems, TLAPS

(* FoldFunction: the sum of f over a finite set, unfolded. *)

Picked(s) == CHOOSE x \in s : TRUE
Folds(g, f, S) == g = [s \in SUBSET S |-> IF s = {} THEN 0 ELSE f[Picked(s)] + g[s \ {Picked(s)}]]

\* Among some subsets of a finite set one contains no other: what is wrong for
\* one of them is wrong for a least one.
LEMMA LeastSubset ==
    ASSUME NEW S, IsFiniteSet(S), NEW B, B \subseteq SUBSET S, B # {}
    PROVE  \E b \in B : \A c \in B : c \subseteq b => c = b
<1>1. \A s \in SUBSET S : s \in FiniteSubsetsOf(S)
  BY FS_Subset DEF FiniteSubsetsOf
<1>2. IsWellFoundedOn(StrictSubsetOrdering(S), FiniteSubsetsOf(S))
  BY FS_StrictSubsetOrderingWellFounded
<1>3. PICK b \in B : \A c \in B : ~(<<c, b>> \in StrictSubsetOrdering(S))
  BY <1>1, <1>2, WFMin
<1> QED
  BY <1>3 DEF StrictSubsetOrdering

\* The fold picks an element and adds it to the sum over the others.
LEMMA Unfold == ASSUME NEW f PROVE
  Sum(f) = (CHOOSE g : Folds(g, f, DOMAIN f))[DOMAIN f]
BY DEF Sum, FoldFunction, FoldFunctionOnSet, MapThenFoldSet, Picked, Folds

\* Two functions with the recursive equation agree where both are defined.
LEMMA SameFold ==
    ASSUME NEW f, NEW S, NEW T, NEW g, NEW h, Folds(g, f, S), Folds(h, f, T),
           NEW w, w \subseteq S, w \subseteq T, IsFiniteSet(w)
    PROVE  g[w] = h[w]
<1> DEFINE B == {v \in SUBSET w : g[v] # h[v]}
<1>1. SUFFICES ASSUME B # {} PROVE FALSE
  BY DEF B
<1>2. PICK v \in B : \A c \in B : c \subseteq v => c = v
  <2> B \subseteq SUBSET w
    OBVIOUS
  <2> HIDE DEF B
  <2> QED
    BY <1>1, LeastSubset
<1>3. v \in SUBSET S /\ v \in SUBSET T /\ g[v] # h[v] /\ v \subseteq w
  OBVIOUS
<1>4. v # {}
  BY <1>3 DEF Folds
<1>5. Picked(v) \in v
  BY <1>4 DEF Picked
<1> DEFINE u == v \ {Picked(v)}
<1>6. u \in SUBSET w /\ u \subseteq v /\ u # v
  BY <1>3, <1>5
<1>7. g[u] = h[u]
  BY <1>2, <1>6
<1>8. g[v] = f[Picked(v)] + g[u]
  BY <1>3, <1>4 DEF Folds
<1>9. h[v] = f[Picked(v)] + h[u]
  BY <1>3, <1>4 DEF Folds
<1> QED
  BY <1>3, <1>7, <1>8, <1>9

\* The recursive equation has a solution: glued from those for the smaller sets.
LEMMA FoldExists ==
    ASSUME NEW f, NEW S, IsFiniteSet(S)
    PROVE  \E g : Folds(g, f, S)
<1> DEFINE B == {T \in SUBSET S : ~ \E g : Folds(g, f, T)}
<1>1. SUFFICES ASSUME B # {} PROVE FALSE
  BY DEF B
<1>2. PICK T \in B : \A c \in B : c \subseteq T => c = T
  <2> B \subseteq SUBSET S
    OBVIOUS
  <2> HIDE DEF B
  <2> QED
    BY <1>1, LeastSubset
<1>3. T \subseteq S /\ ~ \E g : Folds(g, f, T)
  OBVIOUS
<1> DEFINE H(u) == CHOOSE g : Folds(g, f, u)
           g == [s \in SUBSET T |-> IF s = {} THEN 0 ELSE f[Picked(s)] + H(s \ {Picked(s)})[s \ {Picked(s)}]]
<1>4. ASSUME NEW u, u \subseteq T, u # T PROVE Folds(H(u), f, u)
  <2>1. \E h : Folds(h, f, u)
    BY <1>2, <1>3, <1>4
  <2> QED
    BY <2>1
<1>5. ASSUME NEW u, u \subseteq T, u # T PROVE g[u] = H(u)[u]
  <2>1. Folds(H(u), f, u)
    BY <1>4, <1>5
  <2>2. CASE u = {}
    BY <2>1, <2>2 DEF Folds
  <2>3. CASE u # {}
    <3> DEFINE v == u \ {Picked(u)}
    <3>1. Picked(u) \in u
      BY <2>3 DEF Picked
    <3>2. v \subseteq T /\ v # T /\ v \subseteq u
      BY <1>5, <3>1
    <3>3. Folds(H(v), f, v)
      BY <1>4, <3>2
    <3>4. IsFiniteSet(v)
      BY <1>3, <3>2, FS_Subset
    <3>5. H(u)[v] = H(v)[v]
      <4> HIDE DEF H, v
      <4> QED
        BY <2>1, <3>2, <3>3, <3>4, SameFold
    <3>6. H(u)[u] = f[Picked(u)] + H(u)[v]
      <4> HIDE DEF H
      <4> QED
        BY <2>1, <2>3 DEF Folds
    <3>7. g[u] = f[Picked(u)] + H(v)[v]
      <4> HIDE DEF H
      <4> QED
        BY <1>5, <2>3
    <3> QED
      BY <3>5, <3>6, <3>7
  <2> QED
    BY <2>2, <2>3
<1>6. ASSUME NEW s \in SUBSET T, s # {} PROVE H(s \ {Picked(s)})[s \ {Picked(s)}] = g[s \ {Picked(s)}]
  <2>1. Picked(s) \in s
    BY <1>6 DEF Picked
  <2>2. s \ {Picked(s)} \subseteq T /\ s \ {Picked(s)} # T
    BY <1>6, <2>1
  <2> HIDE DEF g, H
  <2> QED
    BY <1>5, <2>2
<1>7. g = [s \in SUBSET T |-> IF s = {} THEN 0 ELSE f[Picked(s)] + g[s \ {Picked(s)}]]
  <2> DEFINE r == [s \in SUBSET T |-> IF s = {} THEN 0 ELSE f[Picked(s)] + g[s \ {Picked(s)}]]
  <2>1. ASSUME NEW s \in SUBSET T PROVE g[s] = r[s]
    <3>1. CASE s = {}
      BY <3>1
    <3>2. CASE s # {}
      <4>1. g[s] = f[Picked(s)] + H(s \ {Picked(s)})[s \ {Picked(s)}]
        <5> HIDE DEF H
        <5> QED
          BY <3>2
      <4>2. r[s] = f[Picked(s)] + g[s \ {Picked(s)}]
        <5> HIDE DEF g
        <5> QED
          BY <3>2
      <4> HIDE DEF g, r, H
      <4> QED
        BY <1>6, <3>2, <4>1, <4>2
    <3> QED
      BY <3>1, <3>2
  <2>2. DOMAIN g = SUBSET T /\ DOMAIN r = SUBSET T
    OBVIOUS
  <2>3. g = [s \in SUBSET T |-> g[s]] /\ r = [s \in SUBSET T |-> r[s]]
    OBVIOUS
  <2> HIDE DEF g, r
  <2>4. g = r
    BY <2>1, <2>3
  <2> QED
    BY <2>4 DEF r
<1>8. Folds(g, f, T)
  BY <1>7 DEF Folds
<1> QED
  BY <1>3, <1>8
-----------------------------------------------------------------------------
(* What the sum is, in terms of any element. *)

TotalOf(f, S) == (CHOOSE g : Folds(g, f, S))[S]

LEMMA SumIsTotal == ASSUME NEW f PROVE Sum(f) = TotalOf(f, DOMAIN f)
  BY Unfold DEF TotalOf

LEMMA TotalEmpty == ASSUME NEW f PROVE TotalOf(f, {}) = 0
<1>1. \E g : Folds(g, f, {})
  BY FoldExists, FS_EmptySet
<1> QED
  BY <1>1 DEF TotalOf, Folds

LEMMA TotalStep ==
    ASSUME NEW f, NEW S, IsFiniteSet(S), S # {}
    PROVE  /\ Picked(S) \in S
           /\ TotalOf(f, S) = f[Picked(S)] + TotalOf(f, S \ {Picked(S)})
<1>1. Picked(S) \in S
  BY DEF Picked
<1> DEFINE u == S \ {Picked(S)}
           g == CHOOSE h : Folds(h, f, S)
           k == CHOOSE h : Folds(h, f, u)
<1>2. IsFiniteSet(u)
  BY FS_Subset
<1>3. Folds(g, f, S)
  BY FoldExists
<1>4. Folds(k, f, u)
  <2> HIDE DEF u
  <2> QED
    BY <1>2, FoldExists
<1>5. g[u] = k[u]
  <2>1. u \subseteq S
    OBVIOUS
  <2> HIDE DEF u, g, k
  <2> QED
    BY <1>2, <1>3, <1>4, <2>1, SameFold
<1>6. g[S] = f[Picked(S)] + g[u]
  <2> HIDE DEF g
  <2> QED
    BY <1>3 DEF Folds
<1> QED
  BY <1>1, <1>5, <1>6 DEF TotalOf

LEMMA TotalInNat ==
    ASSUME NEW S, IsFiniteSet(S), NEW f, \A x \in S : f[x] \in Nat
    PROVE  TotalOf(f, S) \in Nat
<1> DEFINE B == {T \in SUBSET S : TotalOf(f, T) \notin Nat}
<1>1. SUFFICES ASSUME B # {} PROVE FALSE
  BY DEF B
<1>2. PICK T \in B : \A c \in B : c \subseteq T => c = T
  <2> B \subseteq SUBSET S
    OBVIOUS
  <2> HIDE DEF B
  <2> QED
    BY <1>1, LeastSubset
<1>3. T \subseteq S /\ IsFiniteSet(T) /\ TotalOf(f, T) \notin Nat
  BY FS_Subset
<1>4. T # {}
  BY <1>3, TotalEmpty
<1>5. Picked(T) \in T /\ TotalOf(f, T) = f[Picked(T)] + TotalOf(f, T \ {Picked(T)})
  BY <1>3, <1>4, TotalStep
<1>6. TotalOf(f, T \ {Picked(T)}) \in Nat
  <2>1. T \ {Picked(T)} \in SUBSET S /\ T \ {Picked(T)} \subseteq T /\ T \ {Picked(T)} # T
    BY <1>3, <1>5
  <2> QED
    BY <1>2, <2>1
<1>7. f[Picked(T)] \in Nat
  BY <1>3, <1>5
<1> QED
  BY <1>3, <1>5, <1>6, <1>7

LEMMA TotalSame ==
    ASSUME NEW S, IsFiniteSet(S), NEW f, NEW h, \A x \in S : f[x] = h[x]
    PROVE  TotalOf(f, S) = TotalOf(h, S)
<1> DEFINE B == {T \in SUBSET S : TotalOf(f, T) # TotalOf(h, T)}
<1>1. SUFFICES ASSUME B # {} PROVE FALSE
  BY DEF B
<1>2. PICK T \in B : \A c \in B : c \subseteq T => c = T
  <2> B \subseteq SUBSET S
    OBVIOUS
  <2> HIDE DEF B
  <2> QED
    BY <1>1, LeastSubset
<1>3. T \subseteq S /\ IsFiniteSet(T) /\ TotalOf(f, T) # TotalOf(h, T)
  BY FS_Subset
<1>4. T # {}
  BY <1>3, TotalEmpty
<1>5. /\ Picked(T) \in T /\ TotalOf(f, T) = f[Picked(T)] + TotalOf(f, T \ {Picked(T)})
      /\ TotalOf(h, T) = h[Picked(T)] + TotalOf(h, T \ {Picked(T)})
  BY <1>3, <1>4, TotalStep
<1>6. TotalOf(f, T \ {Picked(T)}) = TotalOf(h, T \ {Picked(T)})
  <2>1. T \ {Picked(T)} \in SUBSET S /\ T \ {Picked(T)} \subseteq T /\ T \ {Picked(T)} # T
    BY <1>3, <1>5
  <2> QED
    BY <1>2, <2>1
<1>7. f[Picked(T)] = h[Picked(T)]
  BY <1>3, <1>5
<1> QED
  BY <1>3, <1>5, <1>6, <1>7

\* The element that the fold picks does not matter.
LEMMA TotalRemove ==
    ASSUME NEW S, IsFiniteSet(S), NEW f, \A x \in S : f[x] \in Nat
    PROVE  \A x \in S : TotalOf(f, S) = f[x] + TotalOf(f, S \ {x})
<1> DEFINE B == {T \in SUBSET S : \E x \in T : TotalOf(f, T) # f[x] + TotalOf(f, T \ {x})}
<1>1. SUFFICES ASSUME B # {} PROVE FALSE
  BY DEF B
<1>2. PICK T \in B : \A c \in B : c \subseteq T => c = T
  <2> B \subseteq SUBSET S
    OBVIOUS
  <2> HIDE DEF B
  <2> QED
    BY <1>1, LeastSubset
<1>3. T \subseteq S /\ IsFiniteSet(T)
  BY FS_Subset
<1>4. PICK x \in T : TotalOf(f, T) # f[x] + TotalOf(f, T \ {x})
  OBVIOUS
<1>5. \A U \in SUBSET S : U \subseteq T /\ U # T =>
          \A y \in U : TotalOf(f, U) = f[y] + TotalOf(f, U \ {y})
  BY <1>2
<1>6. PICK p \in T : TotalOf(f, T) = f[p] + TotalOf(f, T \ {p})
  BY <1>3, <1>4, TotalStep
<1>7. p # x
  BY <1>4, <1>6
<1> DEFINE U == T \ {p}  V == T \ {x}  W == (T \ {p}) \ {x}
<1>8. TotalOf(f, U) = f[x] + TotalOf(f, W)
  <2>1. U \in SUBSET S /\ x \in U /\ U \subseteq T /\ U # T
    BY <1>3, <1>7
  <2> QED
    BY <1>5, <2>1
<1>9. TotalOf(f, V) = f[p] + TotalOf(f, W)
  <2>1. V \in SUBSET S /\ p \in V /\ V \subseteq T /\ V # T /\ V \ {p} = W
    BY <1>3, <1>7
  <2> HIDE DEF V, W
  <2> QED
    BY <1>5, <2>1
<1>10. TotalOf(f, W) \in Nat /\ f[x] \in Nat /\ f[p] \in Nat
  <2>1. IsFiniteSet(W) /\ W \subseteq S /\ x \in S /\ p \in S
    BY <1>3, FS_Subset
  <2> HIDE DEF W
  <2> QED
    BY <2>1, TotalInNat
<1> HIDE DEF W
<1> QED
  BY <1>4, <1>6, <1>8, <1>9, <1>10

LEMMA TotalAtLeastSubset ==
    ASSUME NEW S, IsFiniteSet(S), NEW f, \A x \in S : f[x] \in Nat, NEW x \in S
    PROVE  TotalOf(f, S) >= f[x]
<1>1. TotalOf(f, S) = f[x] + TotalOf(f, S \ {x})
  BY TotalRemove
<1>2. TotalOf(f, S \ {x}) \in Nat
  BY FS_Subset, TotalInNat
<1> QED
  BY <1>1, <1>2

\* Elements with value 0 may be left out.
LEMMA TotalZero ==
    ASSUME NEW S, IsFiniteSet(S), NEW f, \A x \in S : f[x] \in Nat,
           NEW T, T \subseteq S, \A x \in S \ T : f[x] = 0
    PROVE  TotalOf(f, S) = TotalOf(f, T)
<1> DEFINE B == {R \in SUBSET S : T \subseteq R /\ TotalOf(f, R) # TotalOf(f, T)}
<1>1. SUFFICES ASSUME B # {} PROVE FALSE
  BY DEF B
<1>2. PICK R \in B : \A c \in B : c \subseteq R => c = R
  <2> B \subseteq SUBSET S
    OBVIOUS
  <2> HIDE DEF B
  <2> QED
    BY <1>1, LeastSubset
<1>3. R \subseteq S /\ IsFiniteSet(R) /\ T \subseteq R /\ TotalOf(f, R) # TotalOf(f, T)
  BY FS_Subset
<1>4. PICK x \in R : x \notin T
  BY <1>3
<1>5. TotalOf(f, R) = f[x] + TotalOf(f, R \ {x})
  <2>1. \A y \in R : f[y] \in Nat
    BY <1>3
  <2> QED
    BY <1>3, <2>1, TotalRemove
<1>6. TotalOf(f, R \ {x}) = TotalOf(f, T)
  <2>1. R \ {x} \in SUBSET S /\ T \subseteq R \ {x} /\ R \ {x} # R
    BY <1>3, <1>4
  <2> QED
    BY <1>2, <2>1
<1>7. f[x] = 0 /\ TotalOf(f, T) \in Nat
  <2>1. IsFiniteSet(T)
    BY FS_Subset
  <2> QED
    BY <1>3, <1>4, <2>1, TotalInNat
<1> QED
  BY <1>3, <1>5, <1>6, <1>7

-----------------------------------------------------------------------------
(* What the pages carry. *)

Tabs == [page : 1 .. 4, kind : Kinds \cup {None}, form : Answers \cup {None},
         tax : TaxTypes \cup {None}, typed : Typings \cup {None}, errors : SUBSET Items,
         byHand : BOOLEAN, back : BOOLEAN, news : SUBSET Serials]

Carries ==
    /\ tab \in Tabs /\ stored \subseteq Serials
    /\ tab.page >= 2 => tab.kind \in Kinds
    /\ tab.page >= 3 => /\ tab.tax \in TaxTypes /\ tab.form \in Forms
                        /\ None \notin ToSet(tab.form.to)
    /\ (tab.page = 4) <=> (tab.typed # None)

\* An override that the user did not choose came from a way back.
TaxComputed ==
    /\ (tab.page = 2 /\ tab.form # None /\ tab.form.override # None) => tab.byHand \/ tab.back
    /\ tab.page >= 3 =>
          \/ tab.byHand \/ tab.back
          \/ tab.tax = determineTaxType(tab.form.from, tab.form.to)

Distinct(typed) == \A i \in Items : ~HasDuplicates(typed[i].serials)
Counted(typed, to) ==
    \A i \in Required : Shown(typed, to)[i] > 0 => Len(typed[i].serials) = Shown(typed, to)[i]
StoredSince(typed, news) == \A i \in Items : ToSet(typed[i].serials) \cap stored \subseteq news

\* A review without errors still holds: the serials typed are stored since, if at all.
Reviewed ==
    (tab.page = 4 /\ tab.errors = {}) =>
        /\ Distinct(tab.typed) /\ Counted(tab.typed, tab.form.to)
        /\ StoredSince(tab.typed, tab.news)

\* The shipment is what its last page was.
Created ==
    shipment # None =>
        /\ shipment.form \in Forms /\ shipment.typed \in Typings /\ shipment.tax \in TaxTypes
        /\ None \notin ToSet(shipment.form.to)
        /\ shipment.goods = GoodsLines(Quantities(shipment.typed, shipment.form.to), shipment.typed)
        /\ \E kind \in Kinds :
              shipment.parts = Parts(kind, Quantities(shipment.typed, shipment.form.to), shipment.form.to)
        /\ \/ shipment.byHand \/ shipment.back
           \/ shipment.tax = determineTaxType(shipment.form.from, shipment.form.to)
        /\ shipment.clean => /\ Distinct(shipment.typed) /\ shipment.stale = {}
                             /\ Counted(shipment.typed, shipment.form.to)

IInv == Carries /\ TaxComputed /\ Reviewed /\ Created

LEMMA InitInv == Init => IInv
BY DEF Init, IInv, Carries, TaxComputed, Reviewed, Created, NewTab, Tabs

LEMMA NextInv == IInv /\ [Next]_vars => IInv'
<1> SUFFICES ASSUME IInv, [Next]_vars PROVE IInv'
  OBVIOUS
<1> USE DEF IInv
<1>1. CASE HandleDCWizardStep1
  BY <1>1 DEF HandleDCWizardStep1, Carries, TaxComputed, Reviewed, Created, NewTab, Tabs
<1>2. ASSUME NEW kind \in Kinds, HandleDCWizardStep2(kind) PROVE IInv'
  <2>1. /\ tab' = [page |-> 2, kind |-> kind, form |-> None, tax |-> None, typed |-> None,
                   errors |-> {}, byHand |-> FALSE, back |-> FALSE, news |-> {}]
        /\ UNCHANGED <<shipment, stored>>
    BY <1>2 DEF HandleDCWizardStep2, NewTab
  <2>2. Carries'
    BY <2>1 DEF Carries, Tabs
  <2>3. TaxComputed' /\ Reviewed' /\ Created'
    BY <2>1 DEF TaxComputed, Reviewed, Created
  <2> QED
    BY <2>2, <2>3
<1>3. CASE HandleDCWizardBackToStep1
  BY <1>3 DEF HandleDCWizardBackToStep1, Carries, TaxComputed, Reviewed, Created, NewTab, Tabs
<1>4. ASSUME NEW f \in Forms, HandleDCWizardStep3(f) PROVE IInv'
  <2> DEFINE hand == f.override # None /\ (tab.byHand \/ f.override # Prefilled)
             tax == IF f.override # None THEN f.override ELSE determineTaxType(f.from, f.to)
  <2>1. f \in Answers /\ f.override \in TaxTypes \cup {None} /\ tax \in TaxTypes /\ hand \in BOOLEAN
    BY WizardAssumption DEF Answers, TaxTypes, determineTaxType
  <2>2. /\ tab.page = 2 /\ None \notin ToSet(f.to)
        /\ tab' = [page |-> 3, kind |-> tab.kind, form |-> f, tax |-> tax, typed |-> tab.typed,
                   errors |-> tab.errors, byHand |-> hand, back |-> tab.back, news |-> tab.news]
        /\ UNCHANGED <<shipment, stored>>
    BY <1>4 DEF HandleDCWizardStep3, Answered, Carries, Tabs
  <2>3. f.override # None => hand \/ tab.back
    <3>1. CASE f.override = Prefilled
      BY <2>2, <3>1 DEF TaxComputed, Prefilled
    <3> QED
      BY <3>1
  <2> HIDE DEF hand
  <2>4. Carries'
    <3> HIDE DEF tax
    <3> QED
      BY <2>1, <2>2 DEF Carries, Tabs
  <2>5. TaxComputed'
    BY <2>2, <2>3 DEF TaxComputed
  <2>6. Reviewed' /\ Created'
    BY <2>2 DEF Reviewed, Created
  <2> QED
    BY <2>4, <2>5, <2>6
<1>5. ASSUME NEW f \in Forms, Step2Refused(f) PROVE IInv'
  <2> DEFINE hand == f.override # None /\ (tab.byHand \/ f.override # Prefilled)
  <2>1. f \in Answers /\ hand \in BOOLEAN
    BY WizardAssumption
  <2>2. /\ tab.page = 2
        /\ tab' = [page |-> 2, kind |-> tab.kind, form |-> f, tax |-> tab.tax, typed |-> tab.typed,
                   errors |-> tab.errors, byHand |-> hand, back |-> tab.back, news |-> tab.news]
        /\ UNCHANGED <<shipment, stored>>
    BY <1>5 DEF Step2Refused, Answered, Carries, Tabs
  <2>3. f.override # None => hand \/ tab.back
    <3>1. CASE f.override = Prefilled
      BY <2>2, <3>1 DEF TaxComputed, Prefilled
    <3> QED
      BY <3>1
  <2> HIDE DEF hand
  <2>4. Carries'
    BY <2>1, <2>2 DEF Carries, Tabs
  <2>5. TaxComputed'
    BY <2>2, <2>3 DEF TaxComputed
  <2>6. Reviewed' /\ Created'
    BY <2>2 DEF Reviewed, Created
  <2> QED
    BY <2>4, <2>5, <2>6
<1>6. CASE HandleDCWizardBackToStep2
  <2>1. tab.page = 3 /\ tab.tax \in TaxTypes /\ tab.form \in Answers
    BY <1>6, WizardAssumption DEF HandleDCWizardBackToStep2, Carries
  <2> DEFINE form == [tab.form EXCEPT !.override = tab.tax]
  <2>2. form \in Answers
    BY <2>1 DEF Answers
  <2> HIDE DEF form
  <2>3. /\ tab' = [page |-> 2, kind |-> tab.kind, form |-> form, tax |-> None, typed |-> tab.typed,
                   errors |-> tab.errors, byHand |-> tab.byHand, back |-> TRUE, news |-> tab.news]
        /\ UNCHANGED <<shipment, stored>>
    BY <1>6 DEF HandleDCWizardBackToStep2, Carries, Tabs, form
  <2>4. Carries'
    BY <2>1, <2>2, <2>3 DEF Carries, Tabs
  <2>5. TaxComputed' /\ Reviewed' /\ Created'
    BY <2>3 DEF TaxComputed, Reviewed, Created
  <2> QED
    BY <2>4, <2>5
<1>7. ASSUME NEW typed \in Typings, HandleDCWizardStep4(typed) PROVE IInv'
  <2> DEFINE counts == CountErrors(typed, tab.form.to)
             errors == IF counts # {} THEN counts ELSE ValidateSerials(typed)
  <2>1. errors \subseteq Items
    BY WizardAssumption DEF CountErrors, ValidateSerials
  <2> HIDE DEF errors
  <2>2. /\ tab.page = 3
        /\ tab' = [page |-> 4, kind |-> tab.kind, form |-> tab.form, tax |-> tab.tax, typed |-> typed,
                   errors |-> errors, byHand |-> tab.byHand, back |-> tab.back, news |-> {}]
        /\ UNCHANGED <<shipment, stored>>
    BY <1>7 DEF HandleDCWizardStep4, Carries, Tabs, errors
  <2>3. Carries'
    BY <2>1, <2>2, WizardAssumption DEF Carries, Tabs
  <2>4. TaxComputed' /\ Created'
    BY <2>2 DEF TaxComputed, Created
  <2>5. ASSUME errors = {}
        PROVE  Distinct(typed) /\ Counted(typed, tab.form.to) /\ StoredSince(typed, {})
    <3>1. counts = {} /\ ValidateSerials(typed) = {}
      BY <2>5 DEF errors
    <3>2. Counted(typed, tab.form.to)
      BY <3>1 DEF CountErrors, Counted
    <3>3. Distinct(typed) /\ StoredSince(typed, {})
      BY <3>1 DEF ValidateSerials, Distinct, StoredSince
    <3> QED
      BY <3>2, <3>3
  <2>6. Reviewed'
    BY <2>2, <2>5 DEF Reviewed, StoredSince
  <2> QED
    BY <2>3, <2>4, <2>6
<1>8. CASE HandleDCWizardBackToStep3
  <2>1. /\ tab.page = 4
        /\ tab' = [page |-> 3, kind |-> tab.kind, form |-> tab.form, tax |-> tab.tax, typed |-> None,
                   errors |-> {}, byHand |-> tab.byHand, back |-> tab.back, news |-> {}]
        /\ UNCHANGED <<shipment, stored>>
    BY <1>8 DEF HandleDCWizardBackToStep3, Carries, Tabs
  <2>2. Carries'
    BY <2>1 DEF Carries, Tabs
  <2>3. TaxComputed' /\ Reviewed' /\ Created'
    BY <2>1 DEF TaxComputed, Reviewed, Created
  <2> QED
    BY <2>2, <2>3
<1>9. CASE HandleDCCreate
  <2> DEFINE to == tab.form.to
             qty == Quantities(tab.typed, to)
             goods == GoodsLines(qty, tab.typed)
             serials == UNION {ToSet(goods[i].serials) : i \in DOMAIN goods}
             stale == (serials \cap stored) \ tab.news
             news == tab.news \cup serials
  <2>1. /\ tab.page = 4 /\ tab.typed \in Typings /\ tab.form \in Forms
        /\ tab.tax \in TaxTypes /\ tab.kind \in Kinds /\ None \notin ToSet(tab.form.to)
    BY <1>9 DEF HandleDCCreate, Carries, Tabs
  <2>2. /\ \A x \in serials : \E i \in Items : x \in ToSet(tab.typed[i].serials)
        /\ serials \subseteq Serials
    <3>1. ASSUME NEW i \in DOMAIN goods
          PROVE  i \in Items /\ goods[i].serials = tab.typed[i].serials
      BY <3>1 DEF GoodsLines
    <3>2. ASSUME NEW i \in Items PROVE ToSet(tab.typed[i].serials) \subseteq Serials
      <4>1. tab.typed[i].serials \in Seq(Serials)
        BY <2>1, WizardAssumption
      <4> QED
        BY <4>1 DEF ToSet
    <3> HIDE DEF goods
    <3> QED
      BY <3>1, <3>2
  <2>3. /\ shipment' = [form |-> tab.form, tax |-> tab.tax, typed |-> tab.typed, goods |-> goods,
                        parts |-> Parts(tab.kind, qty, to), clean |-> tab.errors = {},
                        stale |-> stale, byHand |-> tab.byHand, back |-> tab.back]
        /\ stored' = stored \cup serials
        /\ tab' = [tab EXCEPT !.news = news]
    BY <1>9 DEF HandleDCCreate
  <2> HIDE DEF serials, goods, qty
  <2>4. /\ tab' \in Tabs /\ tab'.news = news /\ tab'.page = tab.page /\ tab'.kind = tab.kind
        /\ tab'.form = tab.form /\ tab'.tax = tab.tax /\ tab'.typed = tab.typed
        /\ tab'.errors = tab.errors /\ tab'.byHand = tab.byHand /\ tab'.back = tab.back
    BY <2>2, <2>3 DEF Carries, Tabs
  <2>5. Carries'
    BY <2>2, <2>3, <2>4 DEF Carries
  <2>6. TaxComputed'
    BY <2>4 DEF TaxComputed
  <2>7. Reviewed'
    <3>1. \A i \in Items : StoredSince(tab.typed, tab.news) =>
             ToSet(tab.typed[i].serials) \cap stored' \subseteq news
      BY <2>3 DEF StoredSince
    <3> HIDE DEF news
    <3> QED
      BY <2>4, <3>1 DEF Reviewed, StoredSince
  <2>8. tab.errors = {} => stale = {} /\ Distinct(tab.typed) /\ Counted(tab.typed, to)
    BY <2>1, <2>2 DEF Reviewed, StoredSince
  <2>9. /\ shipment'.form = tab.form /\ shipment'.typed = tab.typed /\ shipment'.tax = tab.tax
        /\ shipment'.goods = goods /\ shipment'.parts = Parts(tab.kind, qty, to)
        /\ (shipment'.clean => tab.errors = {}) /\ shipment'.stale = stale
        /\ shipment'.byHand = tab.byHand /\ shipment'.back = tab.back
    BY <2>3
  <2>10. Created'
    <3>1. tab.byHand \/ tab.back \/ tab.tax = determineTaxType(tab.form.from, tab.form.to)
      BY <2>1 DEF TaxComputed
    <3>2. /\ goods = GoodsLines(Quantities(tab.typed, tab.form.to), tab.typed)
          /\ qty = Quantities(tab.typed, tab.form.to)
      BY DEF goods, qty
    <3> HIDE DEF stale
    <3> QED
      BY <2>1, <2>8, <2>9, <3>1, <3>2 DEF Created
  <2> QED
    BY <2>5, <2>6, <2>7, <2>10
<1>10. CASE SerialsElsewhere
  <2> DEFINE news == IF tab.page = 4 THEN tab.news \cup (stored' \ stored) ELSE tab.news
  <2>1. /\ stored' \subseteq Serials /\ tab' = [tab EXCEPT !.news = news] /\ shipment' = shipment
    BY <1>10 DEF SerialsElsewhere, Carries
  <2>2. news \subseteq Serials
    BY <2>1 DEF Carries, Tabs
  <2>3. /\ tab' \in Tabs /\ tab'.news = news /\ tab'.page = tab.page /\ tab'.kind = tab.kind
        /\ tab'.form = tab.form /\ tab'.tax = tab.tax /\ tab'.typed = tab.typed
        /\ tab'.errors = tab.errors /\ tab'.byHand = tab.byHand /\ tab'.back = tab.back
    <3> HIDE DEF news
    <3> QED
      BY <2>1, <2>2 DEF Carries, Tabs
  <2>4. Carries'
    BY <2>1, <2>3 DEF Carries
  <2>5. TaxComputed'
    BY <2>3 DEF TaxComputed
  <2>6. Reviewed'
    <3>1. tab.page = 4 => \A i \in Items : StoredSince(tab.typed, tab.news) =>
             ToSet(tab.typed[i].serials) \cap stored' \subseteq news
      BY DEF StoredSince
    <3> HIDE DEF news
    <3> QED
      BY <2>3, <3>1 DEF Reviewed, StoredSince
  <2>7. Created'
    BY <2>1 DEF Created
  <2> QED
    BY <2>4, <2>5, <2>6, <2>7
<1>11. CASE UNCHANGED vars
  BY <1>11 DEF vars, Carries, TaxComputed, Reviewed, Created, StoredSince
<1> QED
  BY <1>1, <1>2, <1>3, <1>4, <1>5, <1>6, <1>7, <1>8, <1>9, <1>10, <1>11 DEF Next

LEMMA Inductive == Spec => []IInv
BY InitInv, NextInv, PTL DEF Spec

-----------------------------------------------------------------------------
LEMMA InvTypes == IInv => TypeOK
<1> SUFFICES ASSUME IInv PROVE TypeOK
  OBVIOUS
<1> USE DEF IInv
<1>1. /\ tab.page \in 1 .. 4
      /\ tab.page >= 2 => tab.kind \in Kinds /\ (tab.form # None => tab.form \in Answers)
      /\ (tab.page = 4) <=> (tab.typed # None)
      /\ tab.errors \subseteq Items /\ tab.news \subseteq Serials /\ stored \subseteq Serials
  BY DEF Carries, Tabs
<1>2. tab.page >= 3 => /\ tab.tax \in TaxTypes /\ tab.form \in Answers
                       /\ None \notin ToSet(tab.form.to)
  BY WizardAssumption DEF Carries
<1>3. ASSUME shipment # None
      PROVE  /\ shipment.tax \in TaxTypes /\ DOMAIN shipment.goods \subseteq Items
             /\ DOMAIN shipment.parts \subseteq DOMAIN shipment.form.to
  BY <1>3 DEF Created, GoodsLines, Parts, HasQty
<1> QED
  BY <1>1, <1>2, <1>3 DEF TypeOK

\* The quantities of a shipment are natural numbers for each of its finitely many
\* destinations.
LEMMA Quantity ==
    ASSUME IInv, shipment # None, NEW i \in Items
    PROVE  LET D == DOMAIN shipment.form.to
               qty == Quantities(shipment.typed, shipment.form.to)[i]
           IN  /\ IsFiniteSet(D) /\ qty = [d \in D |-> shipment.typed[i].qty[d].scan]
               /\ \A d \in D : /\ qty[d] \in Nat /\ shipment.typed[i].qty[d].atoi \in Nat
                               /\ qty[d] = shipment.typed[i].qty[d].scan
<1> DEFINE D == DOMAIN shipment.form.to
<1>1. shipment.form \in Forms /\ shipment.typed \in Typings
  BY DEF IInv, Created
<1>2. IsFiniteSet(D)
  <2>1. shipment.form.to \in Seq(ShipTos \cup {None})
    BY <1>1, WizardAssumption DEF Answers
  <2>2. D = 1 .. Len(shipment.form.to) /\ Len(shipment.form.to) \in Nat
    BY <2>1
  <2> QED
    BY <2>2, FS_Interval
<1>3. \A d \in D : shipment.typed[i].qty[d] \in Tokens
  BY <1>1, WizardAssumption
<1>4. \A d \in D : shipment.typed[i].qty[d].scan \in Nat /\ shipment.typed[i].qty[d].atoi \in Nat
  BY <1>3 DEF Tokens
<1> QED
  BY <1>2, <1>4 DEF Quantities

\* The goods challan carries the sum of the quantities, be it 0.
LEMMA CarriedIsSum ==
    ASSUME IInv, shipment # None, NEW i \in Items
    PROVE  Carried(i) = Sum(Quantities(shipment.typed, shipment.form.to)[i])
BY DEF IInv, Created, Carried, GoodsLines

\* With parsers that agree it is the number the review showed.
LEMMA ReadAlikeMeansShown ==
    ASSUME IInv, shipment # None, ReadAlike, NEW i \in Items
    PROVE  Sum(Quantities(shipment.typed, shipment.form.to)[i])
               = Shown(shipment.typed, shipment.form.to)[i]
<1> DEFINE D == DOMAIN shipment.form.to
<1>1. [d \in D |-> shipment.typed[i].qty[d].scan] = [d \in D |-> shipment.typed[i].qty[d].atoi]
  BY DEF ReadAlike
<1> QED
  BY <1>1 DEF Quantities, Shown

\* Destinations without an official challan were to receive nothing.
LEMMA ReceivedIsSum ==
    ASSUME IInv, shipment # None, NEW i \in Items
    PROVE  Sum([d \in DOMAIN shipment.parts |-> Received(i, d)])
               = Sum(Quantities(shipment.typed, shipment.form.to)[i])
<1> DEFINE to == shipment.form.to
           D == DOMAIN to
           quantities == Quantities(shipment.typed, to)
           qty == quantities[i]
           P == DOMAIN shipment.parts
           got == [d \in P |-> Received(i, d)]
<1>1. PICK kind \in Kinds : shipment.parts = Parts(kind, quantities, to)
  BY DEF IInv, Created
<1>2. IsFiniteSet(D) /\ DOMAIN qty = D /\ \A d \in D : qty[d] \in Nat
  BY Quantity
<1>3. P \subseteq D /\ IsFiniteSet(P)
  <2>1. P \subseteq D
    BY <1>1 DEF Parts, HasQty
  <2> QED
    BY <1>2, <2>1, FS_Subset
<1>4. ASSUME NEW d \in P PROVE got[d] = qty[d]
  <2>1. shipment.parts[d] = [j \in {k \in Items : quantities[k][d] # 0} |-> quantities[j][d]]
    BY <1>1, <1>4 DEF Parts
  <2> QED
    BY <2>1 DEF Received
<1>5. ASSUME NEW d \in D \ P PROVE qty[d] = 0
  <2>1. d \notin HasQty(quantities, to)
    BY <1>1, <1>5 DEF Parts
  <2>2. ~(qty[d] > 0)
    BY <1>5, <2>1 DEF HasQty
  <2> QED
    BY <1>2, <1>5, <2>2
<1> HIDE DEF P, D, qty
<1>6. TotalOf(got, P) = TotalOf(qty, P)
  <2> HIDE DEF got
  <2> QED
    BY <1>3, <1>4, TotalSame
<1>7. TotalOf(qty, D) = TotalOf(qty, P)
  BY <1>2, <1>3, <1>5, TotalZero
<1>8. Sum(got) = TotalOf(got, P)
  <2>1. DOMAIN got = P
    OBVIOUS
  <2> HIDE DEF got
  <2> QED
    BY <2>1, SumIsTotal
<1>9. Sum(qty) = TotalOf(qty, D)
  BY <1>2, SumIsTotal
<1>10. Sum(got) = Sum(qty)
  BY <1>6, <1>7, <1>8, <1>9
<1> QED
  BY <1>10 DEF P, qty

LEMMA InvConserves == IInv => QuantitiesAreConserved
<1> SUFFICES ASSUME IInv PROVE QuantitiesAreConserved
  OBVIOUS
<1>1. ASSUME shipment # None, NEW i \in Items
      PROVE  /\ Carried(i) = Sum([d \in DOMAIN shipment.parts |-> Received(i, d)])
             /\ ReadAlike => Carried(i) = Shown(shipment.typed, shipment.form.to)[i]
  BY <1>1, CarriedIsSum, ReceivedIsSum, ReadAlikeMeansShown
<1> QED
  BY <1>1, InvTypes DEF QuantitiesAreConserved

LEMMA InvTaxes == IInv => TaxTypeFollowsStates
<1> SUFFICES ASSUME IInv, shipment # None, ~shipment.byHand, ~shipment.back
             PROVE  (shipment.tax = "igst") <=>
                       /\ shipment.form.from # None
                       /\ \E s \in ToSet(shipment.form.to) : State[s] # State[shipment.form.from]
  BY DEF TaxTypeFollowsStates
<1>1. /\ shipment.tax = determineTaxType(shipment.form.from, shipment.form.to)
      /\ None \notin ToSet(shipment.form.to)
  BY DEF IInv, Created
<1> QED
  BY <1>1 DEF determineTaxType

LEMMA InvClean == IInv => CleanReviewMeansCleanSerials
<1> SUFFICES ASSUME IInv, shipment # None, shipment.clean PROVE
        /\ shipment.stale = {}
        /\ ReadAlike => \A i \in DOMAIN shipment.goods :
              /\ ~HasDuplicates(shipment.goods[i].serials)
              /\ i \in Required => Len(shipment.goods[i].serials) = shipment.goods[i].qty
  BY DEF CleanReviewMeansCleanSerials
<1> DEFINE qty == Quantities(shipment.typed, shipment.form.to)
<1>1. /\ shipment.stale = {} /\ Distinct(shipment.typed)
      /\ Counted(shipment.typed, shipment.form.to)
  BY DEF IInv, Created
<1>2. ASSUME ReadAlike, NEW i \in DOMAIN shipment.goods
      PROVE  /\ ~HasDuplicates(shipment.goods[i].serials)
             /\ i \in Required => Len(shipment.goods[i].serials) = shipment.goods[i].qty
  <2>1. /\ i \in Items /\ Sum(qty[i]) # 0 /\ shipment.goods[i].serials = shipment.typed[i].serials
        /\ shipment.goods[i].qty = Sum(qty[i])
    BY <1>2 DEF IInv, Created, GoodsLines
  <2>2. Sum(qty[i]) = Shown(shipment.typed, shipment.form.to)[i]
    BY <1>2, <2>1, ReadAlikeMeansShown
  <2>3. Sum(qty[i]) \in Nat
    <3> DEFINE q == qty[i]
    <3>1. IsFiniteSet(DOMAIN q) /\ \A d \in DOMAIN q : q[d] \in Nat
      BY <2>1, Quantity
    <3> HIDE DEF q
    <3>2. Sum(q) \in Nat
      BY <3>1, SumIsTotal, TotalInNat
    <3> QED
      BY <3>2 DEF q
  <2> HIDE DEF qty
  <2> QED
    BY <1>1, <2>1, <2>2, <2>3 DEF Distinct, Counted
<1> QED
  BY <1>1, <1>2

-----------------------------------------------------------------------------
\* Every page carries the fields of the pages before it, well typed.
THEOREM TypeCorrect == Spec => []TypeOK
BY Inductive, InvTypes, PTL

\* What the goods challan carries is what the destinations receive between them,
\* and what the review showed if both parsers read the same (CreateDirectShipment's
\* sums at dc_creation.go:509, the review's at dc_wizard.go:769).
THEOREM ShipmentsConserveQuantities == Spec => []QuantitiesAreConserved
BY Inductive, InvConserves, PTL

\* Unless the user chose it or went back, the tax type of a shipment is across
\* states exactly when a destination is in another state than the sender.
THEOREM TaxFollowsStates == Spec => []TaxTypeFollowsStates
BY Inductive, InvTaxes, PTL

\* A shipment whose review showed no error has distinct serials, as many as pieces
\* of the required items, and none that was stored before the review.
THEOREM CleanReviewsCreateCleanSerials == Spec => []CleanReviewMeansCleanSerials
BY Inductive, InvClean, PTL

-----------------------------------------------------------------------------
(* The roll-up of a bill of quantities. *)

-----------------------------------------------------------------------------
(* The sums of a bill are those above. *)

LEMMA BillTotalIs ==
    ASSUME NEW S, IsFiniteSet(S), NEW of
    PROVE  Total(S, of) = TotalOf([i \in S |-> of[i].budget], S)
<1> DEFINE h == [i \in S |-> of[i].budget]
           P(g) == g = [s \in SUBSET S |-> IF s = {} THEN 0
                          ELSE of[Picked(s)].budget + g[s \ {Picked(s)}]]
<1>1. Total(S, of) = (CHOOSE g : P(g))[S]
  BY DEF Total, MapThenSumSet, MapThenFoldSet, Picked
<1>2. ASSUME NEW g PROVE P(g) <=> Folds(g, h, S)
  <2>1. ASSUME NEW s \in SUBSET S, s # {} PROVE h[Picked(s)] = of[Picked(s)].budget
    BY <2>1 DEF Picked
  <2>2. [s \in SUBSET S |-> IF s = {} THEN 0 ELSE of[Picked(s)].budget + g[s \ {Picked(s)}]]
          = [s \in SUBSET S |-> IF s = {} THEN 0 ELSE h[Picked(s)] + g[s \ {Picked(s)}]]
    <3> HIDE DEF h
    <3> QED
      BY <2>1
  <2> HIDE DEF h
  <2> QED
    BY <2>2 DEF Folds
<1>3. PICK g : Folds(g, h, S)
  <2> HIDE DEF h
  <2> QED
    BY FoldExists
<1> HIDE DEF P, h
<1>4. P(CHOOSE k : P(k))
  BY <1>2, <1>3
<1>5. Folds(CHOOSE k : P(k), h, S)
  BY <1>2, <1>4
<1>6. Folds(CHOOSE k : Folds(k, h, S), h, S)
  BY <1>3
<1>7. (CHOOSE k : P(k))[S] = (CHOOSE k : Folds(k, h, S))[S]
  BY <1>5, <1>6, SameFold
<1> QED
  BY <1>1, <1>7 DEF TotalOf, h

LEMMA BillTotalInNat ==
    ASSUME NEW S, IsFiniteSet(S), NEW of, \A i \in S : of[i].budget \in Nat
    PROVE  Total(S, of) \in Nat
<1> DEFINE h == [i \in S |-> of[i].budget]
<1>1. \A i \in S : h[i] \in Nat
  OBVIOUS
<1>2. Total(S, of) = TotalOf(h, S)
  BY BillTotalIs
<1> HIDE DEF h
<1> QED
  BY <1>1, <1>2, TotalInNat

LEMMA BillTotalEmpty == ASSUME NEW of PROVE Total({}, of) = 0
<1> DEFINE h == [i \in {} |-> of[i].budget]
<1>1. IsFiniteSet({})
  BY FS_EmptySet
<1>2. Total({}, of) = TotalOf(h, {})
  BY <1>1, BillTotalIs
<1>3. TotalOf(h, {}) = 0
  BY TotalEmpty
<1> QED
  BY <1>2, <1>3

LEMMA BillTotalSame ==
    ASSUME NEW S, IsFiniteSet(S), NEW of, NEW on, \A i \in S : of[i].budget = on[i].budget
    PROVE  Total(S, of) = Total(S, on)
<1>1. [i \in S |-> of[i].budget] = [i \in S |-> on[i].budget]
  OBVIOUS
<1>2. /\ Total(S, of) = TotalOf([i \in S |-> of[i].budget], S)
      /\ Total(S, on) = TotalOf([i \in S |-> on[i].budget], S)
  BY BillTotalIs
<1> QED
  BY <1>1, <1>2

LEMMA BillTotalAdd ==
    ASSUME NEW S, IsFiniteSet(S), NEW of, \A i \in S : of[i].budget \in Nat, NEW x \in S
    PROVE  Total(S, of) = Total(S \ {x}, of) + of[x].budget
<1> DEFINE h == [i \in S |-> of[i].budget]
           k == [i \in S \ {x} |-> of[i].budget]
<1>1. IsFiniteSet(S \ {x})
  BY FS_Subset
<1>2. Total(S, of) = TotalOf(h, S) /\ Total(S \ {x}, of) = TotalOf(k, S \ {x})
  BY <1>1, BillTotalIs
<1>3. /\ \A i \in S : h[i] \in Nat
      /\ \A i \in S \ {x} : h[i] = k[i] /\ h[i] \in Nat
      /\ h[x] = of[x].budget /\ h[x] \in Nat
  OBVIOUS
<1> HIDE DEF h, k
<1>4. TotalOf(h, S) = h[x] + TotalOf(h, S \ {x})
  BY <1>3, TotalRemove
<1>5. TotalOf(h, S \ {x}) = TotalOf(k, S \ {x})
  BY <1>1, <1>3, TotalSame
<1>6. TotalOf(h, S \ {x}) \in Nat
  BY <1>1, <1>3, TotalInNat
<1> QED
  BY <1>2, <1>3, <1>4, <1>5, <1>6

-----------------------------------------------------------------------------
(* The rows of a bill and what a request on them holds in memory. *)

SubReads == [id : Subs, row : SubItem]
LeafReads == [id : Leaves, row : SubSubItem]
Ops == {"idle", "leaf", "sub", "saveSub", "find", "main", "saveMain", "update", "kids", "ownCost"}
Updating == {"update", "kids", "ownCost"}
Jobs == [op : Ops, s : {NoId} \cup Subs \cup Leaves \cup SubReads,
         row : {Gone} \cup MainItem \cup SubItem \cup SubSubItem,
         new : {Gone} \cup MainItem \cup SubItem \cup SubSubItem,
         rest : SUBSET SubReads, kids : SUBSET LeafReads,
         sum : Nat, kidSum : Nat, any : BOOLEAN]

RowsTyped ==
    /\ main \in {Gone} \cup MainItem /\ (main # Gone => main.qty \in Typed)
    /\ sub \in [Subs -> {Gone} \cup SubItem]
    /\ \A s \in Subs : sub[s] # Gone => sub[s].cost \in Typed
    /\ leaf \in [Leaves -> {Gone} \cup SubSubItem]
    /\ \A l \in Leaves : leaf[l] # Gone => leaf[l].qty \in Typed /\ leaf[l].price \in Typed

\* What is held is a record of the kind that the next call saves.  A request
\* never moves a row, nor sets a number to 0 but in the form of the whole bill.
Held(j) ==
    /\ j.op = "leaf" => /\ j.s \in Leaves /\ j.row \in SubSubItem /\ j.new \in SubSubItem
                        /\ j.new.s = j.row.s /\ j.row.s \in Subs
                        /\ j.new.qty \in Typed /\ j.new.price \in Typed
    /\ j.op \in {"sub", "saveSub", "find"} => j.s \in Subs
    /\ j.op = "saveSub" => /\ j.row \in SubItem /\ j.new \in SubItem
                           /\ j.new.cost \in Typed
    /\ j.op = "saveMain" => /\ j.row \in MainItem /\ j.new \in MainItem
                            /\ j.new.qty \in Typed
    /\ j.op \in Updating => /\ j.row \in MainItem /\ j.new \in MainItem
                            /\ j.new.qty \in Form
    /\ j.op \in {"kids", "ownCost"} => j.s \in j.rest
    /\ \A r \in j.kids : r.row.price \in Typed

BillTyped ==
    /\ RowsTyped
    /\ job \in [Workers -> Jobs] /\ \A w \in Workers : Held(job[w])
    /\ causes \subseteq Causes /\ clean \in BOOLEAN
    /\ requests \in 0 .. MaxRequests /\ crashes \in 0 .. MaxCrashes

Parented ==
    /\ \A s \in SubsOf(sub) : main # Gone
    /\ \A l \in Leaves : leaf[l] # Gone => sub[leaf[l].s] # Gone

\* The ghosts: a clean request is the only one, and only a clean request runs
\* while nothing has gone wrong.
Single ==
    /\ clean => \A v, w \in Workers : job[v].op = "idle" \/ job[w].op = "idle" \/ v = w
    /\ causes = {} => clean \/ AtRest

LeafAgrees(l) == leaf[l].budget = leaf[l].qty * leaf[l].price
LeavesAgree == \A l \in Leaves : leaf[l] # Gone => LeafAgrees(l)
SubsAgree(S) == \A s \in S : sub[s].budget = SubBudget(s)
MainAgrees == SubsOf(sub) # {} => main.budget = main.qty * Total(SubsOf(sub), sub)
Agree == LeavesAgree /\ SubsAgree(SubsOf(sub)) /\ MainAgrees

\* A recalculation repairs the levels in turn, from the rows as they are.
Repairs(j) ==
    /\ j.op = "idle" => Agree
    /\ j.op = "leaf" => /\ Agree /\ j.row = leaf[j.s] /\ j.row # Gone
                        /\ j.new.budget = j.new.qty * j.new.price
    /\ j.op \notin Updating \cup {"idle"} => LeavesAgree
    /\ j.op \in {"sub", "saveSub"} => j.s \in SubsOf(sub) /\ SubsAgree(SubsOf(sub) \ {j.s})
    /\ j.op = "saveSub" => /\ j.row = sub[j.s]
                           /\ j.new = [sub[j.s] EXCEPT !.budget = SubBudget(j.s)]
    /\ j.op \in {"find", "main", "saveMain"} => SubsAgree(SubsOf(sub))
    /\ j.op = "find" => j.s \in SubsOf(sub)
    /\ j.op = "saveMain" => /\ j.row = main
                            /\ j.new = [main EXCEPT !.budget = MainBudget]

IdsOf(reads) == {r.id : r \in reads}
Done(j) == SubsOf(sub) \ IdsOf(j.rest)
DoneLeaves(j) == LeavesOf(leaf, j.s.id) \ IdsOf(j.kids)

\* The update of the whole bill has the sums of what it has saved, and has read
\* the rest as it is.
Updates(j) ==
    j.op \in Updating =>
        /\ j.row = main
        /\ \A r \in j.rest : r.id \in SubsOf(sub) /\ r.row = sub[r.id]
        /\ SubsAgree(Done(j))
        /\ \A l \in Leaves : leaf[l] # Gone /\ leaf[l].s \in Done(j) => LeafAgrees(l)
        /\ j.sum = Total(Done(j), sub)
        /\ j.any <=> Done(j) # {}
        /\ j.op = "kids" =>
              /\ \A r \in j.kids : r.id \in LeavesOf(leaf, j.s.id) /\ r.row = leaf[r.id]
              /\ \A l \in DoneLeaves(j) : LeafAgrees(l)
              /\ j.kidSum = Total(DoneLeaves(j), leaf)
              /\ LeavesOf(leaf, j.s.id) # {}
        /\ j.op = "ownCost" => LeavesOf(leaf, j.s.id) = {}

Agreement ==
    /\ clean => \A w \in Workers : Updates(job[w])
    /\ causes = {} => \A w \in Workers : job[w].op # "idle" => Repairs(job[w])
    /\ causes = {} /\ AtRest => Agree

BillInv == BillTyped /\ Parented /\ Single /\ Agreement

-----------------------------------------------------------------------------
\* A save changes the columns that differ from what was read, and nothing in a
\* row that is gone.
LEMMA NothingToSave == \A read, new : Update(Gone, read, new) = Gone
  BY DEF Update

LEMMA SavedMain ==
    ASSUME            NEW cur \in MainItem, NEW read \in MainItem, NEW new \in MainItem
    PROVE  /\ Update(cur, read, new) \in MainItem
           /\ Update(cur, read, new).qty \in {cur.qty, new.qty}
           /\ read = cur => Update(cur, read, new) = new
<1>1. cur # Gone
  BY BOQAssumption
<1>2. Update(cur, read, new) =
        [f \in {"qty", "budget"} |-> IF new[f] = read[f] THEN cur[f] ELSE new[f]]
  BY <1>1 DEF Update, MainItem
<1> QED
  BY <1>2 DEF MainItem

LEMMA SavedSub ==
    ASSUME            NEW cur \in SubItem, NEW read \in SubItem, NEW new \in SubItem
    PROVE  /\ Update(cur, read, new) \in SubItem
           /\ Update(cur, read, new).cost \in {cur.cost, new.cost}
           /\ read = cur => Update(cur, read, new) = new
<1>1. cur # Gone
  BY BOQAssumption
<1>2. Update(cur, read, new) =
        [f \in {"cost", "budget"} |-> IF new[f] = read[f] THEN cur[f] ELSE new[f]]
  BY <1>1 DEF Update, SubItem
<1> QED
  BY <1>2 DEF SubItem

LEMMA SavedLeaf ==
    ASSUME NEW cur \in SubSubItem,
           NEW read \in SubSubItem, NEW new \in SubSubItem, new.s = read.s
    PROVE  /\ Update(cur, read, new) \in SubSubItem
           /\ Update(cur, read, new).s = cur.s
           /\ Update(cur, read, new).qty \in {cur.qty, new.qty}
           /\ Update(cur, read, new).price \in {cur.price, new.price}
           /\ read = cur => Update(cur, read, new) = new
<1>1. cur # Gone
  BY BOQAssumption
<1>2. Update(cur, read, new) =
        [f \in {"s", "qty", "price", "budget"} |-> IF new[f] = read[f] THEN cur[f] ELSE new[f]]
  BY <1>1 DEF Update, SubSubItem
<1> QED
  BY <1>2 DEF SubSubItem

\* What every step does to the memory of one request.
LEMMA Remembers ==
    ASSUME BillTyped, NEW w \in Workers, NEW j \in Jobs, Held(j), Go(w, j)
    PROVE  /\ job' \in [Workers -> Jobs] /\ job'[w] = j /\ crashes' = crashes
           /\ \A v \in Workers : v # w => job'[v] = job[v]
           /\ \A v \in Workers : Held(job'[v])
<1>1. /\ job' \in [Workers -> Jobs] /\ job'[w] = j /\ crashes' = crashes
      /\ \A v \in Workers : v # w => job'[v] = job[v]
  BY DEF BillTyped, Go
<1>2. \A v \in Workers : Held(job[v])
  BY DEF BillTyped
<1> QED
  BY <1>1, <1>2

LEMMA GoesTo ==
    ASSUME NEW w, NEW s \in {NoId} \cup Subs \cup Leaves, NEW op \in {"idle", "sub", "find", "main"},
           op \in {"sub", "find"} => s \in Subs, Goes(w, op, s)
    PROVE  \E j \in Jobs : Held(j) /\ Go(w, j) /\ j.op = op /\ j.s = s
<1> DEFINE j == [Idle EXCEPT !.op = op, !.s = s]
<1>1. j \in Jobs /\ Held(j) /\ j.op = op /\ j.s = s
  BY DEF Idle, Jobs, Held, Ops, Updating
<1>2. Go(w, j)
  BY DEF Goes
<1> HIDE DEF j
<1> QED
  BY <1>1, <1>2

LEMMA IdleJob == Idle \in Jobs /\ Held(Idle) /\ Idle.op = "idle"
  BY DEF Idle, Jobs, Held, Ops, Updating

\* Rows below a parent are finitely many.
LEMMA FiniteRows ==
    /\ \A S \in SUBSET Subs : IsFiniteSet(S)
    /\ \A S \in SUBSET Leaves : IsFiniteSet(S)
    /\ IsFiniteSet(SubsOf(sub)) /\ SubsOf(sub) \in SUBSET Subs
    /\ \A s : IsFiniteSet(LeavesOf(leaf, s)) /\ LeavesOf(leaf, s) \in SUBSET Leaves
<1>1. /\ \A S \in SUBSET Subs : IsFiniteSet(S)
      /\ \A S \in SUBSET Leaves : IsFiniteSet(S)
  BY BOQAssumption, FS_Subset
<1> QED
  BY <1>1 DEF SubsOf, LeavesOf

LEMMA BudgetsAreNumbers ==
    ASSUME BillTyped
    PROVE  /\ \A s \in SubsOf(sub) : SubBudget(s) \in Nat
           /\ main # Gone => MainBudget \in Nat
<1>1. ASSUME NEW s \in SubsOf(sub) PROVE SubBudget(s) \in Nat
  <2>1. sub[s] \in SubItem
    BY <1>1 DEF BillTyped, RowsTyped, SubsOf, Exists
  <2>2. \A l \in LeavesOf(leaf, s) : leaf[l].budget \in Nat
    BY DEF BillTyped, RowsTyped, LeavesOf, Exists, SubSubItem
  <2>3. Total(LeavesOf(leaf, s), leaf) \in Nat
    BY <2>2, FiniteRows, BillTotalInNat
  <2> QED
    BY <2>1, <2>3 DEF SubBudget, SubItem
<1>2. ASSUME main # Gone PROVE MainBudget \in Nat
  <2>1. \A s \in SubsOf(sub) : sub[s].budget \in Nat
    BY DEF BillTyped, RowsTyped, SubsOf, Exists, SubItem
  <2>2. Total(SubsOf(sub), sub) \in Nat
    BY <2>1, FiniteRows, BillTotalInNat
  <2>3. main.budget \in Nat /\ main.qty \in Nat
    BY <1>2 DEF BillTyped, RowsTyped, MainItem
  <2> QED
    BY <2>2, <2>3 DEF MainBudget
<1> QED
  BY <1>1, <1>2

-----------------------------------------------------------------------------
(* The rows keep their kind and their parents. *)

LEMMA StaysTyped ==
    ASSUME BillTyped, RowsTyped',
           NEW w \in Workers, NEW j \in Jobs, Held(j), Go(w, j),
           \/ \E c \in SUBSET {"added", "patched"} : Begins(w, c)
           \/ GoesOn \/ Refuses
           \/ causes' \in {causes, {}} /\ UNCHANGED <<clean, requests>>
    PROVE  BillTyped'
<1>1. /\ job' \in [Workers -> Jobs] /\ crashes' = crashes
      /\ \A v \in Workers : Held(job'[v])
  BY Remembers
<1>2. causes' \subseteq Causes /\ clean' \in BOOLEAN
  BY DEF BillTyped, Begins, Alone, GoesOn, Refuses, Causes
<1>3. requests' \in 0 .. MaxRequests
  <2>1. CASE \E c \in SUBSET {"added", "patched"} : Begins(w, c)
    <3>1. requests < MaxRequests /\ requests' = requests + 1
      BY <2>1 DEF Begins
    <3> QED
      BY <3>1, BOQAssumption DEF BillTyped
  <2>2. CASE UNCHANGED requests
    BY <2>2 DEF BillTyped
  <2> QED
    BY <2>1, <2>2 DEF GoesOn, Refuses
<1> QED
  BY <1>1, <1>2, <1>3 DEF BillTyped

LEMMA StaysParented ==
    ASSUME Parented, UNCHANGED <<main, sub, leaf>>
    PROVE  Parented'
BY DEF Parented, SubsOf, Exists

LEMMA RowsStayTyped ==
    ASSUME BillTyped, UNCHANGED <<main, sub, leaf>>
    PROVE  RowsTyped'
BY DEF BillTyped, RowsTyped

\* A save of rows that exist keeps every row where it is.
LEMMA LeafSaved ==
    ASSUME BillTyped, Parented, NEW l \in Leaves,
           NEW read \in SubSubItem, NEW new \in SubSubItem, new.s = read.s,
           new.qty \in Typed, new.price \in Typed,
           leaf' = [leaf EXCEPT ![l] = Update(leaf[l], read, new)], UNCHANGED <<main, sub>>
    PROVE  /\ RowsTyped' /\ Parented'
           /\ \A k \in Leaves : /\ (leaf'[k] # Gone) <=> (leaf[k] # Gone)
                                /\ leaf[k] # Gone => leaf'[k].s = leaf[k].s
                                /\ k # l => leaf'[k] = leaf[k]
<1>1. CASE leaf[l] = Gone
  <2>1. leaf' = leaf
    BY <1>1, NothingToSave DEF BillTyped, RowsTyped
  <2> QED
    BY <2>1, StaysParented, RowsStayTyped
<1>2. CASE leaf[l] # Gone
  <2>1. leaf[l] \in SubSubItem /\ leaf[l].qty \in Typed /\ leaf[l].price \in Typed
    BY <1>2 DEF BillTyped, RowsTyped
  <2> DEFINE row == Update(leaf[l], read, new)
  <2>2. row \in SubSubItem /\ row.s = leaf[l].s /\ row.qty \in Typed /\ row.price \in Typed
    BY <2>1, SavedLeaf
  <2>3. row # Gone
    BY <2>2, BOQAssumption
  <2> HIDE DEF row
  <2>4. leaf'[l] = row /\ \A k \in Leaves : k # l => leaf'[k] = leaf[k]
    BY DEF row, BillTyped, RowsTyped
  <2>5. leaf' \in [Leaves -> {Gone} \cup SubSubItem]
    BY <2>2 DEF row, BillTyped, RowsTyped
  <2>6. RowsTyped'
    BY <2>2, <2>4, <2>5 DEF BillTyped, RowsTyped
  <2>7. Parented'
    BY <1>2, <2>2, <2>3, <2>4 DEF Parented, SubsOf, Exists
  <2> QED
    BY <1>2, <2>2, <2>3, <2>4, <2>6, <2>7
<1> QED
  BY <1>1, <1>2

LEMMA SubSaved ==
    ASSUME BillTyped, Parented, NEW s \in Subs,
           NEW read \in SubItem, NEW new \in SubItem, new.cost \in Typed,
           sub' = [sub EXCEPT ![s] = Update(sub[s], read, new)], UNCHANGED <<main, leaf>>
    PROVE  /\ RowsTyped' /\ Parented'
           /\ \A t \in Subs : /\ (sub'[t] # Gone) <=> (sub[t] # Gone)
                              /\ t # s => sub'[t] = sub[t]
<1>1. CASE sub[s] = Gone
  <2>1. sub' = sub
    BY <1>1, NothingToSave DEF BillTyped, RowsTyped
  <2> QED
    BY <2>1, StaysParented, RowsStayTyped
<1>2. CASE sub[s] # Gone
  <2>1. sub[s] \in SubItem /\ sub[s].cost \in Typed
    BY <1>2 DEF BillTyped, RowsTyped
  <2> DEFINE row == Update(sub[s], read, new)
  <2>2. row \in SubItem /\ row.cost \in Typed
    BY <2>1, SavedSub
  <2>3. row # Gone
    BY <2>2, BOQAssumption
  <2> HIDE DEF row
  <2>4. sub'[s] = row /\ \A t \in Subs : t # s => sub'[t] = sub[t]
    BY DEF row, BillTyped, RowsTyped
  <2>5. sub' \in [Subs -> {Gone} \cup SubItem]
    BY <2>2 DEF row, BillTyped, RowsTyped
  <2>6. RowsTyped'
    BY <2>2, <2>4, <2>5 DEF BillTyped, RowsTyped
  <2>7. \A t \in Subs : (sub'[t] # Gone) <=> (sub[t] # Gone)
    BY <1>2, <2>3, <2>4
  <2>8. Parented'
    BY <2>7 DEF Parented, SubsOf, Exists, BillTyped, RowsTyped, SubSubItem
  <2> QED
    BY <2>4, <2>6, <2>7, <2>8
<1> QED
  BY <1>1, <1>2

LEMMA MainSaved ==
    ASSUME BillTyped, Parented,
           NEW read \in MainItem, NEW new \in MainItem, new.qty \in Typed,
           main' = Update(main, read, new), UNCHANGED <<sub, leaf>>
    PROVE  RowsTyped' /\ Parented'
<1>1. CASE main = Gone
  <2>1. main' = main
    BY <1>1, NothingToSave
  <2> QED
    BY <2>1, StaysParented, RowsStayTyped
<1>2. CASE main # Gone
  <2>1. main \in MainItem /\ main.qty \in Typed
    BY <1>2 DEF BillTyped, RowsTyped
  <2>2. main' \in MainItem /\ main'.qty \in Typed
    BY <2>1, SavedMain
  <2>3. main' # Gone
    BY <2>2, BOQAssumption
  <2> QED
    BY <2>2, <2>3 DEF BillTyped, RowsTyped, Parented, SubsOf, Exists
<1> QED
  BY <1>1, <1>2

-----------------------------------------------------------------------------
\* What each step leaves in memory.

\* The two patches of a leaf, and what a request remembers of one and of the
\* sub-item that it has come to.
PatchedTo(l, v, new) ==
    \/ new = [leaf[l] EXCEPT !.qty = v, !.budget = v * leaf[l].price]
    \/ new = [leaf[l] EXCEPT !.price = v, !.budget = leaf[l].qty * v]
LeafJob(l, row, new) == [Idle EXCEPT !.op = "leaf", !.s = l, !.row = row, !.new = new]
KidsJob(j, op, r, kids) == [j EXCEPT !.op = op, !.s = r, !.kids = kids, !.kidSum = 0]

LEMMA PatchedLeaf ==
    ASSUME BillTyped, NEW l \in Leaves, leaf[l] # Gone, NEW v \in Typed,
           NEW new, PatchedTo(l, v, new)
    PROVE  /\ leaf[l] \in SubSubItem /\ new \in SubSubItem
           /\ new.s = leaf[l].s /\ leaf[l].s \in Subs
           /\ new.qty \in Typed /\ new.price \in Typed /\ new.budget = new.qty * new.price
<1>1. leaf[l] \in SubSubItem /\ leaf[l].qty \in Typed /\ leaf[l].price \in Typed
  BY DEF BillTyped, RowsTyped
<1>2. v \in Nat /\ leaf[l].qty \in Nat /\ leaf[l].price \in Nat
  BY <1>1 DEF Typed
<1>3. CASE new = [leaf[l] EXCEPT !.qty = v, !.budget = v * leaf[l].price]
  <2>1. v * leaf[l].price \in Nat
    BY <1>2
  <2> QED
    BY <1>1, <1>2, <1>3, <2>1 DEF SubSubItem
<1>4. CASE new = [leaf[l] EXCEPT !.price = v, !.budget = leaf[l].qty * v]
  <2>1. leaf[l].qty * v \in Nat
    BY <1>2
  <2> QED
    BY <1>1, <1>2, <1>4, <2>1 DEF SubSubItem
<1> QED
  BY <1>3, <1>4 DEF PatchedTo

LEMMA LeafHeld ==
    ASSUME NEW l \in Leaves, NEW row \in SubSubItem, NEW new \in SubSubItem,
           new.s = row.s, row.s \in Subs, new.qty \in Typed, new.price \in Typed
    PROVE  /\ LeafJob(l, row, new) \in Jobs /\ Held(LeafJob(l, row, new))
           /\ LeafJob(l, row, new).op = "leaf" /\ LeafJob(l, row, new).s = l
           /\ LeafJob(l, row, new).row = row /\ LeafJob(l, row, new).new = new
<1>1. /\ LeafJob(l, row, new) \in Jobs /\ LeafJob(l, row, new).kids = {}
      /\ LeafJob(l, row, new).op = "leaf" /\ LeafJob(l, row, new).s = l
      /\ LeafJob(l, row, new).row = row /\ LeafJob(l, row, new).new = new
  BY DEF Idle, Jobs, Ops, LeafJob
<1>2. Held(LeafJob(l, row, new))
  BY <1>1 DEF Held, Updating
<1> QED
  BY <1>1, <1>2

SubJob(w) == LET s == job[w].s IN
    [job[w] EXCEPT !.op = "saveSub", !.row = sub[s],
                   !.new = [sub[s] EXCEPT !.budget = SubBudget(s)]]

LEMMA SubHeld ==
    ASSUME BillTyped, NEW w \in Workers, At(w, "sub"),
           sub[job[w].s] # Gone
    PROVE  /\ SubJob(w) \in Jobs /\ Held(SubJob(w))
           /\ SubJob(w).op = "saveSub" /\ SubJob(w).s = job[w].s
           /\ SubJob(w).row = sub[SubJob(w).s]
           /\ SubJob(w).new = [sub[SubJob(w).s] EXCEPT !.budget = SubBudget(SubJob(w).s)]
<1> DEFINE s == job[w].s
<1>1. job[w] \in Jobs /\ Held(job[w]) /\ job[w].op = "sub"
  BY DEF BillTyped, At
<1>2. s \in Subs
  BY <1>1 DEF Held
<1>3. sub[s] \in SubItem /\ sub[s].cost \in Typed
  BY <1>2 DEF BillTyped, RowsTyped
<1>4. SubBudget(s) \in Nat
  BY <1>2, BudgetsAreNumbers DEF SubsOf, Exists
<1>5. /\ [sub[s] EXCEPT !.budget = SubBudget(s)] \in SubItem
      /\ [sub[s] EXCEPT !.budget = SubBudget(s)].cost \in Typed
  BY <1>3, <1>4 DEF SubItem
<1> QED
  BY <1>1, <1>2, <1>3, <1>5 DEF SubJob, Jobs, Held, Ops, Updating

LEMMA MainHeld ==
    ASSUME BillTyped, NEW w \in Workers, At(w, "main"), main # Gone
    PROVE  LET j == [job[w] EXCEPT !.op = "saveMain", !.row = main,
                                   !.new = [main EXCEPT !.budget = MainBudget]] IN
           /\ j \in Jobs /\ Held(j)
           /\ j.op = "saveMain" /\ j.row = main
           /\ j.new = [main EXCEPT !.budget = MainBudget]
<1>1. job[w] \in Jobs /\ Held(job[w]) /\ job[w].op = "main"
  BY DEF BillTyped, At
<1>2. main \in MainItem /\ main.qty \in Typed
  BY DEF BillTyped, RowsTyped
<1>3. MainBudget \in Nat
  BY BudgetsAreNumbers
<1>4. /\ [main EXCEPT !.budget = MainBudget] \in MainItem
      /\ [main EXCEPT !.budget = MainBudget].qty \in Typed
  BY <1>2, <1>3 DEF MainItem
<1> QED
  BY <1>1, <1>2, <1>4 DEF Jobs, Held, Ops, Updating

LEMMA ReadRows ==
    ASSUME BillTyped
    PROVE  /\ Read(SubsOf(sub), sub) \subseteq SubReads
           /\ \A s : Read(LeavesOf(leaf, s), leaf) \subseteq LeafReads
           /\ \A s : \A r \in Read(LeavesOf(leaf, s), leaf) : r.row.price \in Typed
BY DEF BillTyped, RowsTyped, Read, SubsOf, LeavesOf, Exists, SubReads, LeafReads

LEMMA UpdateHeld ==
    ASSUME BillTyped, main # Gone, NEW q \in Form
    PROVE  LET j == [Idle EXCEPT !.op = "update", !.row = main, !.new = [main EXCEPT !.qty = q],
                                      !.rest = Read(SubsOf(sub), sub)] IN
           /\ j \in Jobs /\ Held(j)
           /\ j.op = "update" /\ j.row = main /\ j.new.budget = main.budget
           /\ j.rest = Read(SubsOf(sub), sub) /\ j.sum = 0 /\ j.any = FALSE
<1>1. main \in MainItem
  BY DEF BillTyped, RowsTyped
<1>2. q \in Nat
  BY BOQAssumption DEF Form
<1>3. /\ [main EXCEPT !.qty = q] \in MainItem /\ [main EXCEPT !.qty = q].qty = q
      /\ [main EXCEPT !.qty = q].budget = main.budget
  BY <1>1, <1>2 DEF MainItem
<1> QED
  BY <1>1, <1>3, ReadRows DEF Idle, Jobs, Held, Ops, Updating

LEMMA KidsHeld ==
    ASSUME BillTyped, NEW i \in Jobs, Held(i), i.op = "update",
           NEW r \in i.rest, NEW op \in {"kids", "ownCost"},
           NEW kids, kids = Read(LeavesOf(leaf, r.id), leaf)
    PROVE  \E j \in Jobs :
               /\ j = KidsJob(i, op, r, kids)
               /\ Held(j) /\ j.op = op /\ j.s = r /\ j.kids = kids /\ j.kidSum = 0
               /\ j.row = i.row /\ j.new = i.new /\ j.rest = i.rest
               /\ j.sum = i.sum /\ j.any = i.any
<1> DEFINE j == KidsJob(i, op, r, kids)
<1>1. r \in SubReads /\ kids \in SUBSET LeafReads /\ \A k \in kids : k.row.price \in Typed
  BY ReadRows DEF Jobs
<1>2. /\ j.op = op /\ j.s = r /\ j.kids = kids /\ j.kidSum = 0
      /\ j.row = i.row /\ j.new = i.new /\ j.rest = i.rest
      /\ j.sum = i.sum /\ j.any = i.any
  BY DEF Jobs, KidsJob
<1>3. j \in Jobs
  BY <1>1, ZenonT(30) DEF Jobs, Ops, KidsJob
<1>4. Held(j)
  BY <1>1, <1>2 DEF Held, Updating
<1> QED
  BY <1>2, <1>3, <1>4

\* What the form of the whole bill makes of a leaf and of a sub-item, and what
\* the request knows then.
LeafForm(r, v) == [r.row EXCEPT !.qty = v, !.budget = v * r.row.price]
LeafDone(j, r, v) == [j EXCEPT !.kids = @ \ {r}, !.kidSum = @ + LeafForm(r, v).budget]
SubForm(j, v) == [cost |-> v, budget |-> IF j.op = "kids" THEN j.kidSum ELSE v]
SubDone(j, v) == [j EXCEPT !.op = "update", !.s = NoId, !.kidSum = 0,
                           !.rest = @ \ {j.s}, !.sum = @ + SubForm(j, v).budget, !.any = TRUE]

LEMMA LeafFormHeld ==
    ASSUME NEW r \in LeafReads, r.row.price \in Typed, NEW v \in Form
    PROVE  /\ r.id \in Leaves /\ r.row \in SubSubItem
           /\ LeafForm(r, v) \in SubSubItem /\ LeafForm(r, v).s = r.row.s
           /\ LeafForm(r, v).price \in Typed /\ (v # 0 => LeafForm(r, v).qty \in Typed)
           /\ LeafForm(r, v).budget = LeafForm(r, v).qty * LeafForm(r, v).price
           /\ LeafForm(r, v).budget \in Nat
<1>1. v \in Nat /\ (v # 0 => v \in Typed) /\ Typed \subseteq Nat
  BY BOQAssumption DEF Form, Typed
<1>2. r.id \in Leaves /\ r.row \in SubSubItem /\ r.row.price \in Nat
  BY <1>1 DEF LeafReads
<1>3. v * r.row.price \in Nat
  BY <1>1, <1>2
<1>4. /\ LeafForm(r, v) \in SubSubItem /\ LeafForm(r, v).s = r.row.s
      /\ LeafForm(r, v).price = r.row.price /\ LeafForm(r, v).qty = v
      /\ LeafForm(r, v).budget = LeafForm(r, v).qty * LeafForm(r, v).price
  BY <1>1, <1>2, <1>3 DEF LeafForm, SubSubItem
<1>5. LeafForm(r, v).budget \in Nat
  BY <1>4 DEF SubSubItem
<1> QED
  BY <1>1, <1>2, <1>4, <1>5

LEMMA LeafDoneHeld ==
    ASSUME NEW j \in Jobs, Held(j), j.op = "kids",
           NEW r \in j.kids, NEW v \in Form
    PROVE  /\ r \in LeafReads /\ r.row.price \in Typed
           /\ LeafDone(j, r, v) \in Jobs /\ Held(LeafDone(j, r, v))
           /\ LeafDone(j, r, v).op = "kids" /\ LeafDone(j, r, v).s = j.s
           /\ LeafDone(j, r, v).kids = j.kids \ {r}
           /\ LeafDone(j, r, v).kidSum = j.kidSum + LeafForm(r, v).budget
           /\ LeafDone(j, r, v).row = j.row /\ LeafDone(j, r, v).new = j.new
           /\ LeafDone(j, r, v).rest = j.rest
           /\ LeafDone(j, r, v).sum = j.sum /\ LeafDone(j, r, v).any = j.any
<1>1. r \in LeafReads /\ r.row.price \in Typed
  BY DEF Jobs, Held
<1>2. LeafForm(r, v).budget \in Nat
  BY <1>1, LeafFormHeld
<1>3. j.kidSum + LeafForm(r, v).budget \in Nat
  BY <1>2 DEF Jobs
<1>4. /\ LeafDone(j, r, v) \in Jobs
      /\ LeafDone(j, r, v).op = "kids" /\ LeafDone(j, r, v).s = j.s
      /\ LeafDone(j, r, v).kids = j.kids \ {r}
      /\ LeafDone(j, r, v).kidSum = j.kidSum + LeafForm(r, v).budget
      /\ LeafDone(j, r, v).row = j.row /\ LeafDone(j, r, v).new = j.new
      /\ LeafDone(j, r, v).rest = j.rest
      /\ LeafDone(j, r, v).sum = j.sum /\ LeafDone(j, r, v).any = j.any
  BY <1>3 DEF Jobs, LeafDone
<1>5. Held(LeafDone(j, r, v))
  BY <1>4 DEF Held, Updating
<1> QED
  BY <1>1, <1>4, <1>5

LEMMA SubFormHeld ==
    ASSUME NEW j \in Jobs, Held(j), j.op \in {"kids", "ownCost"},
           NEW v \in Form
    PROVE  /\ j.s \in j.rest /\ j.s.id \in Subs /\ j.s.row \in SubItem
           /\ SubForm(j, v) \in SubItem /\ SubForm(j, v).cost = v
           /\ j.op = "kids" => SubForm(j, v).budget = j.kidSum
           /\ j.op = "ownCost" => SubForm(j, v).budget = v
           /\ SubForm(j, v).budget \in Nat
           /\ v # 0 => SubForm(j, v).cost \in Typed
<1>1. j.s \in j.rest /\ j.s \in SubReads
  BY DEF Jobs, Held
<1>2. v \in Nat /\ (v # 0 => v \in Typed)
  BY BOQAssumption DEF Form, Typed
<1>3. /\ SubForm(j, v) \in SubItem /\ SubForm(j, v).cost = v /\ SubForm(j, v).budget \in Nat
      /\ j.op = "kids" => SubForm(j, v).budget = j.kidSum
      /\ j.op = "ownCost" => SubForm(j, v).budget = v
  BY <1>2 DEF Jobs, SubItem, SubForm
<1> QED
  BY <1>1, <1>2, <1>3 DEF SubReads

LEMMA SubDoneHeld ==
    ASSUME NEW j \in Jobs, Held(j), j.op \in {"kids", "ownCost"},
           NEW v \in Form
    PROVE  /\ SubDone(j, v) \in Jobs /\ Held(SubDone(j, v)) /\ SubDone(j, v).op = "update"
           /\ SubDone(j, v).row = j.row /\ SubDone(j, v).new = j.new
           /\ SubDone(j, v).rest = j.rest \ {j.s}
           /\ SubDone(j, v).sum = j.sum + SubForm(j, v).budget /\ SubDone(j, v).any = TRUE
<1>1. j.sum + SubForm(j, v).budget \in Nat
  BY SubFormHeld DEF Jobs
<1>2. /\ SubDone(j, v) \in Jobs /\ SubDone(j, v).op = "update" /\ SubDone(j, v).kids = j.kids
      /\ SubDone(j, v).row = j.row /\ SubDone(j, v).new = j.new
      /\ SubDone(j, v).rest = j.rest \ {j.s}
      /\ SubDone(j, v).sum = j.sum + SubForm(j, v).budget /\ SubDone(j, v).any = TRUE
  BY <1>1 DEF Jobs, Ops, SubDone
<1>3. Held(SubDone(j, v))
  BY <1>2 DEF Held, Updating
<1> QED
  BY <1>2, <1>3

-----------------------------------------------------------------------------
LEMMA DeletedTyped ==
    ASSUME BillTyped, Parented, NEW s \in Subs,
           sub' = [sub EXCEPT ![s] = Gone], leaf' = WithoutKids(s), UNCHANGED main
    PROVE  /\ RowsTyped' /\ Parented'
           /\ \A t \in Subs : sub'[t] = IF t = s THEN Gone ELSE sub[t]
           /\ \A l \in Leaves : leaf'[l] = IF leaf[l] # Gone /\ leaf[l].s = s THEN Gone ELSE leaf[l]
<1>1. \A t \in Subs : sub'[t] = IF t = s THEN Gone ELSE sub[t]
  BY DEF BillTyped, RowsTyped
<1>2. \A l \in Leaves : leaf'[l] = IF leaf[l] # Gone /\ leaf[l].s = s THEN Gone ELSE leaf[l]
  BY DEF WithoutKids, Exists
<1>3. sub' \in [Subs -> {Gone} \cup SubItem] /\ leaf' \in [Leaves -> {Gone} \cup SubSubItem]
  BY DEF BillTyped, RowsTyped, WithoutKids
<1>4. RowsTyped'
  BY <1>1, <1>2, <1>3 DEF BillTyped, RowsTyped
<1>5. Parented'
  <2>1. \A t \in SubsOf(sub)' : main' # Gone
    BY <1>1 DEF Parented, SubsOf, Exists
  <2>2. ASSUME NEW l \in Leaves, leaf'[l] # Gone PROVE sub'[leaf'[l].s] # Gone
    <3>1. leaf[l] # Gone /\ leaf'[l] = leaf[l] /\ leaf[l].s # s
      BY <1>2, <2>2
    <3>2. leaf[l].s \in Subs /\ sub[leaf[l].s] # Gone
      BY <3>1 DEF Parented, BillTyped, RowsTyped, SubSubItem
    <3> QED
      BY <1>1, <3>1, <3>2
  <2> QED
    BY <2>1, <2>2 DEF Parented
<1> QED
  BY <1>1, <1>2, <1>4, <1>5

LEMMA TypedStep ==
    ASSUME BillTyped, Parented, BOQNext
    PROVE  BillTyped' /\ Parented'
<1>1. ASSUME NEW w \in Workers, PatchLeaf(w) PROVE BillTyped' /\ Parented'
  <2>1. PICK l \in Leaves, v \in Typed :
          /\ leaf[l] # Gone
          /\ \E new : PatchedTo(l, v, new) /\ Go(w, LeafJob(l, leaf[l], new))
    BY <1>1 DEF PatchLeaf, Exists, PatchedTo, LeafJob
  <2>2. Begins(w, {}) /\ UNCHANGED <<main, sub, leaf>>
    BY <1>1 DEF PatchLeaf, rows
  <2>3. PICK new : PatchedTo(l, v, new) /\ Go(w, LeafJob(l, leaf[l], new))
    BY <2>1
  <2>4. \E j \in Jobs : Held(j) /\ Go(w, j)
    <3>1. /\ leaf[l] \in SubSubItem /\ new \in SubSubItem
          /\ new.s = leaf[l].s /\ leaf[l].s \in Subs
          /\ new.qty \in Typed /\ new.price \in Typed
      BY <2>1, <2>3, PatchedLeaf
    <3> QED
      BY <2>3, <3>1, LeafHeld
  <2> QED
    BY <2>2, <2>4, StaysTyped, StaysParented, RowsStayTyped
<1>2. ASSUME NEW w \in Workers, SaveLeaf(w) PROVE BillTyped' /\ Parented'
  <2>1. job[w] \in Jobs /\ Held(job[w]) /\ job[w].op = "leaf"
    BY <1>2 DEF SaveLeaf, At, BillTyped
  <2>2. \E j \in Jobs : Held(j) /\ Go(w, j)
    BY <1>2, <2>1, GoesTo DEF Held, SaveLeaf
  <2>3. GoesOn /\ UNCHANGED <<main, sub>>
        /\ leaf' = [leaf EXCEPT ![job[w].s] = Update(leaf[job[w].s], job[w].row, job[w].new)]
    BY <1>2 DEF SaveLeaf
  <2>4. RowsTyped' /\ Parented'
    BY <2>1, <2>3, LeafSaved DEF Held
  <2> QED
    BY <2>2, <2>3, <2>4, StaysTyped
<1>3. ASSUME NEW w \in Workers, PatchSub(w) PROVE BillTyped' /\ Parented'
  <2>1. PICK s \in Subs : Goes(w, "sub", s)
    BY <1>3 DEF PatchSub, SubsOf
  <2>2. Begins(w, {}) /\ UNCHANGED <<main, sub, leaf>>
    BY <1>3 DEF PatchSub, rows
  <2>3. \E j \in Jobs : Held(j) /\ Go(w, j)
    BY <2>1, GoesTo
  <2> QED
    BY <2>2, <2>3, StaysTyped, StaysParented, RowsStayTyped
<1>4. ASSUME NEW w \in Workers, ReadSub(w) PROVE BillTyped' /\ Parented'
  <2>1. GoesOn /\ UNCHANGED <<main, sub, leaf>> /\ At(w, "sub")
    BY <1>4 DEF ReadSub, rows
  <2>2. \E j \in Jobs : Held(j) /\ Go(w, j)
    <3>1. IF sub[job[w].s] # Gone THEN Go(w, SubJob(w)) ELSE Go(w, Idle)
      BY <1>4 DEF ReadSub, Exists, SubJob
    <3>2. sub[job[w].s] # Gone => SubJob(w) \in Jobs /\ Held(SubJob(w))
      BY <2>1, SubHeld
    <3> QED
      BY <3>1, <3>2, IdleJob
  <2> QED
    BY <2>1, <2>2, StaysTyped, StaysParented, RowsStayTyped
<1>5. ASSUME NEW w \in Workers, SaveSub(w) PROVE BillTyped' /\ Parented'
  <2>1. job[w] \in Jobs /\ Held(job[w]) /\ job[w].op = "saveSub"
    BY <1>5 DEF SaveSub, At, BillTyped
  <2>2. \E j \in Jobs : Held(j) /\ Go(w, j)
    BY <1>5, <2>1, GoesTo DEF Held, SaveSub
  <2>3. GoesOn /\ UNCHANGED <<main, leaf>>
        /\ sub' = [sub EXCEPT ![job[w].s] = Update(sub[job[w].s], job[w].row, job[w].new)]
    BY <1>5 DEF SaveSub
  <2>4. RowsTyped' /\ Parented'
    BY <2>1, <2>3, SubSaved DEF Held
  <2> QED
    BY <2>2, <2>3, <2>4, StaysTyped
<1>6. ASSUME NEW w \in Workers, FindSub(w) PROVE BillTyped' /\ Parented'
  <2>1. GoesOn /\ UNCHANGED <<main, sub, leaf>>
    BY <1>6 DEF FindSub, rows
  <2>2. \E j \in Jobs : Held(j) /\ Go(w, j)
    BY <1>6, GoesTo, IdleJob DEF FindSub
  <2> QED
    BY <2>1, <2>2, StaysTyped, StaysParented, RowsStayTyped
<1>7. ASSUME NEW w \in Workers, ReadMain(w) PROVE BillTyped' /\ Parented'
  <2>1. GoesOn /\ UNCHANGED <<main, sub, leaf>> /\ At(w, "main")
    BY <1>7 DEF ReadMain, rows
  <2>2. \E j \in Jobs : Held(j) /\ Go(w, j)
    BY <1>7, <2>1, MainHeld, IdleJob DEF ReadMain, Exists
  <2> QED
    BY <2>1, <2>2, StaysTyped, StaysParented, RowsStayTyped
<1>8. ASSUME NEW w \in Workers, SaveMain(w) PROVE BillTyped' /\ Parented'
  <2>1. job[w] \in Jobs /\ Held(job[w]) /\ job[w].op = "saveMain"
    BY <1>8 DEF SaveMain, At, BillTyped
  <2>2. RowsTyped' /\ Parented'
    BY <1>8, <2>1, MainSaved DEF Held, SaveMain
  <2> QED
    BY <1>8, <2>2, IdleJob, StaysTyped DEF SaveMain
<1>9. ASSUME NEW w \in Workers, HandleDeleteSubSubItem(w) PROVE BillTyped' /\ Parented'
  <2>1. PICK l \in Leaves : /\ leaf[l] # Gone /\ leaf' = [leaf EXCEPT ![l] = Gone]
                            /\ Goes(w, "sub", leaf[l].s)
    BY <1>9 DEF HandleDeleteSubSubItem, Exists
  <2>2. Begins(w, {}) /\ UNCHANGED <<main, sub>>
    BY <1>9 DEF HandleDeleteSubSubItem
  <2>3. leaf[l].s \in Subs
    BY <2>1 DEF BillTyped, RowsTyped, SubSubItem
  <2>4. \E j \in Jobs : Held(j) /\ Go(w, j)
    BY <2>1, <2>3, GoesTo
  <2>5. RowsTyped' /\ Parented'
    BY <2>1, <2>2 DEF BillTyped, RowsTyped, Parented, SubsOf, Exists
  <2> QED
    BY <2>2, <2>4, <2>5, StaysTyped
<1>10. ASSUME NEW w \in Workers, HandleDeleteSubItem(w) PROVE BillTyped' /\ Parented'
  <2>1. RowsTyped' /\ Parented'
    BY <1>10, DeletedTyped DEF HandleDeleteSubItem, SubsOf
  <2>2. \E j \in Jobs : Held(j) /\ Go(w, j)
    BY <1>10, GoesTo DEF HandleDeleteSubItem
  <2> QED
    BY <1>10, <2>1, <2>2, StaysTyped DEF HandleDeleteSubItem
<1>11. ASSUME NEW w \in Workers, HandleDeleteMainItem(w) PROVE BillTyped' /\ Parented'
  <2>1. RowsTyped' /\ Parented'
    BY <1>11 DEF HandleDeleteMainItem, RowsTyped, Parented, SubsOf, Exists
  <2> QED
    BY <1>11, <2>1, IdleJob, StaysTyped DEF HandleDeleteMainItem
<1>12. ASSUME NEW w \in Workers, HandlePatchMainItem(w) PROVE BillTyped' /\ Parented'
  <2>1. main # Gone /\ main \in MainItem /\ main.qty \in Typed
    BY <1>12 DEF HandlePatchMainItem, Begins, Exists, BillTyped, RowsTyped
  <2>2. main' \in MainItem /\ main'.qty \in Typed
    BY <1>12, <2>1 DEF HandlePatchMainItem, MainItem, Typed
  <2>3. main' # Gone
    BY <2>2, BOQAssumption
  <2>4. RowsTyped' /\ Parented'
    BY <1>12, <2>2, <2>3
    DEF HandlePatchMainItem, BillTyped, RowsTyped, Parented, SubsOf, Exists
  <2> QED
    BY <1>12, <2>4, IdleJob, StaysTyped DEF HandlePatchMainItem
<1>13. ASSUME NEW w \in Workers, HandleAddSubItem(w) PROVE BillTyped' /\ Parented'
  <2>1. PICK s \in Subs : sub[s] = Gone /\ sub' = [sub EXCEPT ![s] = [cost |-> 1, budget |-> 1]]
    BY <1>13 DEF HandleAddSubItem, Exists
  <2>2. main # Gone /\ UNCHANGED <<main, leaf>>
    BY <1>13 DEF HandleAddSubItem, Begins, Exists
  <2>3. 1 \in Typed /\ [cost |-> 1, budget |-> 1] \in SubItem
    BY BOQAssumption DEF Typed, SubItem
  <2>4. [cost |-> 1, budget |-> 1] # Gone
    BY <2>3, BOQAssumption
  <2>5. RowsTyped'
    BY <2>1, <2>2, <2>3 DEF BillTyped, RowsTyped
  <2>6. Parented'
    BY <2>1, <2>2, <2>4 DEF Parented, BillTyped, RowsTyped, SubsOf, Exists, SubSubItem
  <2> QED
    BY <1>13, <2>5, <2>6, IdleJob, StaysTyped DEF HandleAddSubItem
<1>14. ASSUME NEW w \in Workers, HandleAddSubSubItem(w) PROVE BillTyped' /\ Parented'
  <2>1. PICK l \in Leaves, s \in Subs :
          /\ leaf[l] = Gone /\ sub[s] # Gone
          /\ leaf' = [leaf EXCEPT ![l] = [s |-> s, qty |-> 1, price |-> 1, budget |-> 1]]
    BY <1>14 DEF HandleAddSubSubItem, Exists, SubsOf
  <2>2. UNCHANGED <<main, sub>>
    BY <1>14 DEF HandleAddSubSubItem
  <2>3. 1 \in Typed /\ [s |-> s, qty |-> 1, price |-> 1, budget |-> 1] \in SubSubItem
    BY BOQAssumption DEF Typed, SubSubItem
  <2>4. RowsTyped'
    BY <2>1, <2>2, <2>3 DEF BillTyped, RowsTyped
  <2>5. Parented'
    BY <2>1, <2>2 DEF Parented, BillTyped, RowsTyped, SubsOf, Exists
  <2> QED
    BY <1>14, <2>4, <2>5, IdleJob, StaysTyped DEF HandleAddSubSubItem
<1>15. ASSUME NEW w \in Workers, BeginUpdate(w) PROVE BillTyped' /\ Parented'
  <2>1. Begins(w, {}) /\ UNCHANGED <<main, sub, leaf>> /\ main # Gone
    BY <1>15 DEF BeginUpdate, rows, Begins, Exists
  <2>2. \E j \in Jobs : Held(j) /\ Go(w, j)
    BY <1>15, <2>1, UpdateHeld DEF BeginUpdate
  <2> QED
    BY <2>1, <2>2, StaysTyped, StaysParented, RowsStayTyped
<1>16. ASSUME NEW w \in Workers, UpdateSub(w) PROVE BillTyped' /\ Parented'
  <2>1. /\ GoesOn /\ UNCHANGED <<main, sub, leaf>>
        /\ job[w].op = "update" /\ job[w] \in Jobs /\ Held(job[w])
    BY <1>16 DEF UpdateSub, rows, At, BillTyped
  <2>2. PICK r \in job[w].rest, op \in {"kids", "ownCost"} :
          Go(w, KidsJob(job[w], op, r, Read(LeavesOf(leaf, r.id), leaf)))
    BY <1>16 DEF UpdateSub, KidsJob
  <2>3. \E j \in Jobs : Held(j) /\ Go(w, j)
    BY <2>1, <2>2, KidsHeld
  <2> QED
    BY <2>1, <2>3, StaysTyped, StaysParented, RowsStayTyped
<1>17. ASSUME NEW w \in Workers, UpdateLeaf(w) PROVE BillTyped' /\ Parented'
  <2>1. PICK r \in job[w].kids, v \in Form :
          /\ Go(w, LeafDone(job[w], r, v))
          /\ IF v = 0 THEN Refuses /\ UNCHANGED leaf
             ELSE /\ leaf' = [leaf EXCEPT ![r.id] = Update(leaf[r.id], r.row, LeafForm(r, v))]
                  /\ GoesOn
    BY <1>17 DEF UpdateLeaf, Accepts, LeafDone, LeafForm
  <2>2. job[w] \in Jobs /\ Held(job[w]) /\ job[w].op = "kids" /\ UNCHANGED <<main, sub>>
    BY <1>17 DEF UpdateLeaf, At, BillTyped
  <2>3. r \in LeafReads /\ r.row.price \in Typed
        /\ LeafDone(job[w], r, v) \in Jobs /\ Held(LeafDone(job[w], r, v))
    BY <2>2, LeafDoneHeld
  <2>4. RowsTyped' /\ Parented'
    BY <2>1, <2>2, <2>3, LeafFormHeld, LeafSaved, StaysParented, RowsStayTyped
  <2> QED
    BY <2>1, <2>3, <2>4, StaysTyped
<1>18. ASSUME NEW w \in Workers, UpdateSubEnds(w) PROVE BillTyped' /\ Parented'
  <2>1. PICK v \in Form :
          /\ Go(w, SubDone(job[w], v))
          /\ IF v = 0 THEN Refuses /\ UNCHANGED sub
             ELSE /\ sub' = [sub EXCEPT ![job[w].s.id] =
                               Update(sub[job[w].s.id], job[w].s.row, SubForm(job[w], v))]
                  /\ GoesOn
    BY <1>18 DEF UpdateSubEnds, Accepts, At, SubDone, SubForm
  <2>2. /\ job[w] \in Jobs /\ Held(job[w]) /\ job[w].op \in {"kids", "ownCost"}
        /\ UNCHANGED <<main, leaf>>
    BY <1>18 DEF UpdateSubEnds, At, BillTyped
  <2>3. RowsTyped' /\ Parented'
    <3>1. /\ job[w].s.id \in Subs /\ job[w].s.row \in SubItem
          /\ SubForm(job[w], v) \in SubItem /\ (v # 0 => SubForm(job[w], v).cost \in Typed)
      BY <2>2, SubFormHeld
    <3>2. CASE v = 0
      BY <2>1, <2>2, <3>2, StaysParented, RowsStayTyped
    <3>3. CASE v # 0
      BY <2>1, <2>2, <3>1, <3>3, SubSaved
    <3> QED
      BY <3>2, <3>3
  <2> QED
    BY <2>1, <2>2, <2>3, SubDoneHeld, StaysTyped
<1>19. ASSUME NEW w \in Workers, EndUpdate(w) PROVE BillTyped' /\ Parented'
  <2> DEFINE typed == job[w].new
             new == [typed EXCEPT !.budget = IF job[w].any THEN job[w].sum * typed.qty ELSE @]
  <2>1. /\ Go(w, Idle) /\ UNCHANGED <<sub, leaf>>
        /\ IF typed.qty = 0 THEN UNCHANGED main /\ Refuses
           ELSE /\ main' = Update(main, job[w].row, new)
                /\ causes' \in {causes, {}} /\ UNCHANGED <<clean, requests>>
    BY <1>19 DEF EndUpdate, Accepts
  <2>2. job[w] \in Jobs /\ Held(job[w]) /\ job[w].op = "update"
    BY <1>19 DEF EndUpdate, At, BillTyped
  <2>3. /\ job[w].row \in MainItem /\ typed \in MainItem /\ job[w].sum \in Nat
        /\ typed.qty # 0 => typed.qty \in Typed
    BY <2>2, BOQAssumption DEF Held, Updating, Jobs, Form, Typed
  <2>4. new \in MainItem /\ new.qty = typed.qty
    <3>1. job[w].sum * typed.qty \in Nat
      BY <2>3 DEF MainItem
    <3> QED
      BY <2>3, <3>1 DEF MainItem
  <2> HIDE DEF new, typed
  <2>5. RowsTyped' /\ Parented'
    BY <2>1, <2>3, <2>4, MainSaved, StaysParented, RowsStayTyped
  <2> QED
    BY <2>1, <2>5, IdleJob, StaysTyped
<1>20. ASSUME Crash PROVE BillTyped' /\ Parented'
  <2>1. /\ UNCHANGED <<main, sub, leaf, clean, requests>> /\ causes' = causes \cup {"crash"}
        /\ crashes < MaxCrashes /\ crashes' = crashes + 1 /\ job' = [v \in Workers |-> Idle]
    BY <1>20 DEF Crash, rows
  <2>2. crashes' \in 0 .. MaxCrashes
    BY <2>1, BOQAssumption DEF BillTyped
  <2>3. job' \in [Workers -> Jobs] /\ \A v \in Workers : Held(job'[v])
    BY <2>1, IdleJob
  <2>4. RowsTyped' /\ Parented'
    BY <2>1, StaysParented, RowsStayTyped
  <2> QED
    BY <2>1, <2>2, <2>3, <2>4 DEF BillTyped, Causes
<1> QED
  BY <1>1, <1>2, <1>3, <1>4, <1>5, <1>6, <1>7, <1>8, <1>9, <1>10, <1>11, <1>12, <1>13, <1>14,
     <1>15, <1>16, <1>17, <1>18, <1>19, <1>20 DEF BOQNext

-----------------------------------------------------------------------------
(* Agreement, from one step of a request to its next. *)

LEMMA UnchangedAgree ==
    ASSUME UNCHANGED <<main, sub, leaf>>, NEW j
    PROVE  /\ Agree' <=> Agree
           /\ Repairs(j)' <=> Repairs(j)
           /\ Updates(j)' <=> Updates(j)
<1>1. \A s : SubBudget(s)' = SubBudget(s)
  BY DEF SubBudget
<1>2. MainBudget' = MainBudget
  BY DEF MainBudget
<1>3. Agree' <=> Agree
  BY <1>1 DEF Agree, LeavesAgree, LeafAgrees, SubsAgree, MainAgrees
<1>4. Repairs(j)' <=> Repairs(j)
  BY <1>1, <1>2, <1>3 DEF Repairs, LeavesAgree, LeafAgrees, SubsAgree
<1>5. Updates(j)' <=> Updates(j)
  BY <1>1 DEF Updates, LeafAgrees, SubsAgree, Done, DoneLeaves
<1> QED
  BY <1>3, <1>4, <1>5

\* A request that begins alone begins at rest.
LEMMA BeginsAgree ==
    ASSUME BillTyped, Single, Agreement, NEW w \in Workers, NEW c, Begins(w, c),
           NEW j \in Jobs, Held(j), Go(w, j),
           j.op \in Updating => Updates(j)',
           AtRest /\ Agree /\ c = {} => IF j.op = "idle" THEN Agree' ELSE Repairs(j)'
    PROVE  Single' /\ Agreement'
<1>1. /\ job'[w] = j /\ \A v \in Workers : v # w => job'[v] = job[v]
  BY Remembers
<1>2. clean' = Alone(w) /\ (causes' = {} => Alone(w) /\ causes = {} /\ c = {})
  BY DEF Begins
<1>3. Alone(w) => AtRest /\ \A v \in Workers : v # w => job'[v].op = "idle"
  BY <1>1 DEF Alone, AtRest, At, Begins
<1>4. Single'
  BY <1>2, <1>3 DEF Single, Alone
<1>5. ASSUME clean', NEW v \in Workers PROVE Updates(job[v])'
  <2>1. CASE v = w /\ j.op \in Updating
    BY <1>1, <2>1 DEF Updates, Done, DoneLeaves, SubsAgree
  <2>2. CASE v = w /\ j.op \notin Updating
    BY <1>1, <2>2 DEF Updates
  <2>3. CASE v # w
    BY <1>2, <1>3, <1>5, <2>3 DEF Updates, Updating
  <2> QED
    BY <2>1, <2>2, <2>3
<1>6. causes' = {} => AtRest /\ Agree /\ c = {}
  BY <1>2, <1>3 DEF Agreement
<1>7. ASSUME causes' = {}, NEW v \in Workers, job'[v].op # "idle" PROVE Repairs(job[v])'
  <2>1. v = w
    BY <1>2, <1>3, <1>7
  <2>2. Repairs(j)'
    BY <1>1, <1>6, <1>7, <2>1
  <2> QED
    BY <1>1, <2>1, <2>2 DEF Repairs
<1>8. ASSUME causes' = {}, AtRest' PROVE Agree'
  <2>1. j.op = "idle"
    BY <1>1, <1>8 DEF AtRest, At
  <2> QED
    BY <1>6, <1>8, <2>1
<1> QED
  BY <1>4, <1>5, <1>7, <1>8 DEF Agreement

\* One that goes on while all is clean is the only one.
LEMMA GoesOnAgree ==
    ASSUME BillTyped, Single, Agreement, NEW w \in Workers, job[w].op # "idle", GoesOn,
           NEW j \in Jobs, Held(j), Go(w, j),
           clean /\ Updates(job[w]) /\ j.op \in Updating => Updates(j)',
           causes = {} /\ Repairs(job[w]) => IF j.op = "idle" THEN Agree' ELSE Repairs(j)'
    PROVE  Single' /\ Agreement'
<1>1. /\ job'[w] = j /\ \A v \in Workers : v # w => job'[v] = job[v]
  BY Remembers
<1>2. clean' = clean /\ causes' = causes
  BY DEF GoesOn
<1>3. causes = {} => clean
  BY DEF Single, AtRest, At
<1>4. clean => \A v \in Workers : v # w => job'[v].op = "idle"
  BY <1>1 DEF Single
<1>5. Single'
  BY <1>2, <1>3, <1>4 DEF Single
<1>6. ASSUME clean', NEW v \in Workers PROVE Updates(job[v])'
  <2>1. CASE v = w /\ j.op \in Updating
    <3>1. Updates(j)'
      BY <1>2, <1>6, <2>1 DEF Agreement
    <3> QED
      BY <1>1, <2>1, <3>1 DEF Updates, Done, DoneLeaves, SubsAgree
  <2>2. CASE v = w /\ j.op \notin Updating
    BY <1>1, <2>2 DEF Updates
  <2>3. CASE v # w
    BY <1>2, <1>4, <1>6, <2>3 DEF Updates, Updating
  <2> QED
    BY <2>1, <2>2, <2>3
<1>7. causes' = {} => IF j.op = "idle" THEN Agree' ELSE Repairs(j)'
  BY <1>2 DEF Agreement
<1>8. ASSUME causes' = {}, NEW v \in Workers, job'[v].op # "idle" PROVE Repairs(job[v])'
  <2>1. v = w
    BY <1>2, <1>3, <1>4, <1>8
  <2>2. Repairs(j)'
    BY <1>1, <1>7, <1>8, <2>1
  <2> QED
    BY <1>1, <2>1, <2>2 DEF Repairs
<1>9. ASSUME causes' = {}, AtRest' PROVE Agree'
  <2>1. j.op = "idle"
    BY <1>1, <1>9 DEF AtRest, At
  <2> QED
    BY <1>7, <1>9, <2>1
<1> QED
  BY <1>5, <1>6, <1>8, <1>9 DEF Agreement

\* A refused save is a cause of its own.
LEMMA RefusesAgree == ASSUME Refuses PROVE Single' /\ Agreement'
  BY DEF Refuses, Single, Agreement

\* What an update of the whole bill needs of the recalculation: nothing.
LEMMA UpdatingRepairs == \A j : j.op \in Updating => Repairs(j) /\ Repairs(j)'
  BY DEF Repairs, Updating

LEMMA SubBudgetSame ==
    ASSUME NEW t \in Subs, sub'[t].cost = sub[t].cost,
           LeavesOf(leaf', t) = LeavesOf(leaf, t),
           \A l \in LeavesOf(leaf, t) : leaf'[l].budget = leaf[l].budget
    PROVE  SubBudget(t)' = SubBudget(t)
<1>1. Total(LeavesOf(leaf, t), leaf') = Total(LeavesOf(leaf, t), leaf)
  BY FiniteRows, BillTotalSame
<1> QED
  BY <1>1 DEF SubBudget

LEMMA SaveLeafRepairs ==
    ASSUME BillTyped, Parented, NEW w \in Workers, SaveLeaf(w),
           Repairs(job[w]), NEW j \in Jobs, j.op = "sub", j.s = job[w].row.s
    PROVE  Repairs(j)'
<1> DEFINE l == job[w].s  new == job[w].new
<1>1. job[w] \in Jobs /\ Held(job[w]) /\ job[w].op = "leaf"
  BY DEF SaveLeaf, At, BillTyped
<1>2. /\ l \in Leaves /\ job[w].row \in SubSubItem /\ new \in SubSubItem
      /\ new.s = job[w].row.s /\ new.qty \in Typed /\ new.price \in Typed
      /\ j.s \in Subs
  BY <1>1 DEF Held
<1>3. Agree /\ job[w].row = leaf[l] /\ leaf[l] # Gone /\ new.budget = new.qty * new.price
  BY <1>1 DEF Repairs
<1>4. leaf' = [leaf EXCEPT ![l] = Update(leaf[l], job[w].row, new)] /\ UNCHANGED <<main, sub>>
  BY DEF SaveLeaf
<1>5. /\ RowsTyped' /\ Parented'
      /\ \A k \in Leaves : /\ (leaf'[k] # Gone) <=> (leaf[k] # Gone)
                           /\ leaf[k] # Gone => leaf'[k].s = leaf[k].s
                           /\ k # l => leaf'[k] = leaf[k]
  BY <1>2, <1>4, LeafSaved
<1>6. leaf'[l] = new
  BY <1>2, <1>3, <1>4, SavedLeaf DEF BillTyped, RowsTyped
<1> HIDE DEF l, new
<1>7. LeavesAgree'
  BY <1>3, <1>5, <1>6 DEF Agree, LeavesAgree, LeafAgrees
<1>8. \A t : LeavesOf(leaf', t) = LeavesOf(leaf, t)
  BY <1>5 DEF LeavesOf, Exists
<1>9. ASSUME NEW t \in SubsOf(sub) \ {j.s} PROVE sub'[t].budget = SubBudget(t)'
  <2>1. \A k \in LeavesOf(leaf, t) : leaf'[k] = leaf[k]
    BY <1>2, <1>3, <1>5, <1>9 DEF LeavesOf, Exists
  <2>2. SubBudget(t)' = SubBudget(t)
    BY <1>4, <1>8, <2>1, SubBudgetSame DEF SubsOf
  <2> QED
    BY <1>3, <1>4, <1>9, <2>2 DEF Agree, SubsAgree
<1>10. SubsAgree(SubsOf(sub) \ {j.s})'
  BY <1>4, <1>9 DEF SubsAgree
<1>11. j.s \in SubsOf(sub)'
  BY <1>2, <1>3, <1>4 DEF Parented, SubsOf, Exists, l
<1> QED
  BY <1>7, <1>10, <1>11 DEF Repairs, Updating

LEMMA SaveSubRepairs ==
    ASSUME BillTyped, Parented, NEW w \in Workers, SaveSub(w),
           Repairs(job[w]), NEW j \in Jobs, j.op = "find", j.s = job[w].s
    PROVE  Repairs(j)'
<1> DEFINE s == job[w].s  new == job[w].new
<1>1. job[w] \in Jobs /\ Held(job[w]) /\ job[w].op = "saveSub"
  BY DEF SaveSub, At, BillTyped
<1>2. s \in Subs /\ job[w].row \in SubItem /\ new \in SubItem /\ new.cost \in Typed
  BY <1>1 DEF Held
<1>3. /\ LeavesAgree /\ s \in SubsOf(sub) /\ SubsAgree(SubsOf(sub) \ {s})
      /\ job[w].row = sub[s] /\ new = [sub[s] EXCEPT !.budget = SubBudget(s)]
  BY <1>1 DEF Repairs, Updating
<1>4. sub' = [sub EXCEPT ![s] = Update(sub[s], job[w].row, new)] /\ UNCHANGED <<main, leaf>>
  BY DEF SaveSub
<1>5. \A t \in Subs : (sub'[t] # Gone <=> sub[t] # Gone) /\ (t # s => sub'[t] = sub[t])
  BY <1>2, <1>4, SubSaved
<1>6. sub[s] \in SubItem
  BY <1>3 DEF BillTyped, RowsTyped, SubsOf, Exists
<1>7. sub'[s] = new
  BY <1>2, <1>3, <1>4, <1>6, SavedSub DEF BillTyped, RowsTyped
<1>8. sub'[s].budget = SubBudget(s) /\ sub'[s].cost = sub[s].cost
  BY <1>3, <1>6, <1>7 DEF SubItem
<1> HIDE DEF s, new
<1>9. \A t \in Subs : SubBudget(t)' = SubBudget(t)
  <2>1. \A t \in Subs : sub'[t].cost = sub[t].cost
    BY <1>5, <1>8
  <2> QED
    BY <1>4, <2>1, SubBudgetSame
<1>10. SubsAgree(SubsOf(sub))'
  BY <1>3, <1>5, <1>8, <1>9 DEF SubsAgree, SubsOf, Exists
<1>11. j.s \in SubsOf(sub)' /\ LeavesAgree'
  BY <1>3, <1>4, <1>5 DEF SubsOf, Exists, LeavesAgree, LeafAgrees, s
<1> QED
  BY <1>10, <1>11 DEF Repairs, Updating

LEMMA SaveMainAgrees ==
    ASSUME BillTyped, Parented, NEW w \in Workers, SaveMain(w),
           Repairs(job[w])
    PROVE  Agree'
<1> DEFINE new == job[w].new
<1>1. job[w] \in Jobs /\ Held(job[w]) /\ job[w].op = "saveMain"
  BY DEF SaveMain, At, BillTyped
<1>2. job[w].row \in MainItem /\ new \in MainItem /\ new.qty \in Typed
  BY <1>1 DEF Held
<1>3. /\ LeavesAgree /\ SubsAgree(SubsOf(sub)) /\ job[w].row = main
      /\ new = [main EXCEPT !.budget = MainBudget]
  BY <1>1 DEF Repairs, Updating
<1>4. main' = new /\ UNCHANGED <<sub, leaf>>
  BY <1>2, <1>3, SavedMain DEF SaveMain
<1>5. main'.budget = MainBudget /\ main'.qty = main.qty
  BY <1>2, <1>3, <1>4 DEF MainItem
<1> HIDE DEF new
<1>6. \A s : SubBudget(s)' = SubBudget(s)
  BY <1>4 DEF SubBudget
<1>7. LeavesAgree' /\ SubsAgree(SubsOf(sub))'
  BY <1>3, <1>4, <1>6 DEF LeavesAgree, LeafAgrees, SubsAgree
<1>8. MainAgrees'
  <2>1. SUFFICES ASSUME SubsOf(sub) # {}
                 PROVE  main'.budget = main'.qty * Total(SubsOf(sub), sub)
    BY <1>4 DEF MainAgrees
  <2>2. Total(SubsOf(sub), sub) \in Nat
    <3>1. \A s \in SubsOf(sub) : sub[s].budget \in Nat
      BY DEF BillTyped, RowsTyped, SubsOf, Exists, SubItem
    <3> QED
      BY <3>1, FiniteRows, BillTotalInNat
  <2>3. main.qty \in Nat
    BY <1>2, <1>3 DEF MainItem
  <2> QED
    BY <1>5, <2>1, <2>2, <2>3 DEF MainBudget
<1> QED
  BY <1>7, <1>8 DEF Agree

\* A deleted row is no part of any sum but its parent's.
LEMMA DeleteLeafRepairs ==
    ASSUME BillTyped, Parented, Agree, NEW l \in Leaves, leaf[l] # Gone,
           leaf' = [leaf EXCEPT ![l] = Gone], UNCHANGED <<main, sub>>,
           NEW j \in Jobs, j.op = "sub", j.s = leaf[l].s
    PROVE  Repairs(j)'
<1>1. \A k \in Leaves : leaf'[k] = IF k = l THEN Gone ELSE leaf[k]
  BY DEF BillTyped, RowsTyped
<1>2. LeavesAgree'
  BY <1>1 DEF Agree, LeavesAgree, LeafAgrees
<1>3. j.s \in SubsOf(sub)
  BY DEF Parented, BillTyped, RowsTyped, SubsOf, Exists, SubSubItem
<1>4. ASSUME NEW t \in SubsOf(sub) \ {j.s} PROVE sub'[t].budget = SubBudget(t)'
  <2>1. LeavesOf(leaf', t) = LeavesOf(leaf, t)
    BY <1>1, <1>4 DEF LeavesOf, Exists
  <2>2. \A k \in LeavesOf(leaf, t) : leaf'[k] = leaf[k]
    BY <1>1, <1>4 DEF LeavesOf, Exists
  <2>3. SubBudget(t)' = SubBudget(t)
    BY <2>1, <2>2, SubBudgetSame DEF SubsOf
  <2> QED
    BY <1>4, <2>3 DEF Agree, SubsAgree
<1>5. SubsAgree(SubsOf(sub) \ {j.s})'
  BY <1>4 DEF SubsAgree
<1> QED
  BY <1>2, <1>3, <1>5 DEF Repairs, Updating

LEMMA DeleteSubRepairs ==
    ASSUME BillTyped, Parented, Agree, NEW s \in Subs,
           sub' = [sub EXCEPT ![s] = Gone], leaf' = WithoutKids(s), UNCHANGED main,
           NEW j \in Jobs, j.op = "main"
    PROVE  Repairs(j)'
<1>1. /\ \A t \in Subs : sub'[t] = IF t = s THEN Gone ELSE sub[t]
      /\ \A l \in Leaves : leaf'[l] = IF leaf[l] # Gone /\ leaf[l].s = s THEN Gone ELSE leaf[l]
  BY DeletedTyped
<1>2. LeavesAgree'
  BY <1>1 DEF Agree, LeavesAgree, LeafAgrees
<1>3. ASSUME NEW t \in SubsOf(sub') PROVE sub'[t].budget = SubBudget(t)'
  <2>1. t \in SubsOf(sub) /\ t # s /\ sub'[t] = sub[t] /\ t \in Subs
    BY <1>1, <1>3 DEF SubsOf, Exists
  <2>2. LeavesOf(leaf', t) = LeavesOf(leaf, t)
    BY <1>1, <2>1 DEF LeavesOf, Exists
  <2>3. \A k \in LeavesOf(leaf, t) : leaf'[k] = leaf[k]
    BY <1>1, <2>1 DEF LeavesOf, Exists
  <2>4. SubBudget(t)' = SubBudget(t)
    BY <2>1, <2>2, <2>3, SubBudgetSame
  <2> QED
    BY <2>1, <2>4 DEF Agree, SubsAgree
<1>4. SubsAgree(SubsOf(sub))'
  BY <1>3 DEF SubsAgree
<1> QED
  BY <1>2, <1>4 DEF Repairs, Updating

-----------------------------------------------------------------------------
(* The update of the whole bill. *)

LEMMA ReadIds ==
    /\ \A S, of : IdsOf(Read(S, of)) = S
    /\ \A S, of : \A r \in Read(S, of) : r.id \in S /\ r.row = of[r.id]
    /\ \A S, of : Read(S, of) = {} <=> S = {}
<1>1. ASSUME NEW S, NEW of PROVE IdsOf(Read(S, of)) = S
  <2>1. \A i \in S : [id |-> i, row |-> of[i]].id = i
    OBVIOUS
  <2>2. ASSUME NEW i \in S PROVE i \in IdsOf(Read(S, of))
    <3>1. [id |-> i, row |-> of[i]] \in Read(S, of)
      BY DEF Read
    <3> QED
      BY <2>1, <3>1 DEF IdsOf
  <2>3. IdsOf(Read(S, of)) \subseteq S
    BY DEF IdsOf, Read
  <2> QED
    BY <2>2, <2>3
<1>2. \A S, of : \A r \in Read(S, of) : r.id \in S /\ r.row = of[r.id]
  BY DEF Read
<1>3. \A S, of : Read(S, of) = {} <=> S = {}
  BY DEF Read
<1> QED
  BY <1>1, <1>2, <1>3

LEMMA BeginUpdates ==
    ASSUME NEW j \in Jobs, j.op = "update", j.row = main,
           j.rest = Read(SubsOf(sub), sub), j.sum = 0, j.any = FALSE
    PROVE  Updates(j)
<1>1. Done(j) = {}
  BY ReadIds DEF Done
<1> QED
  BY <1>1, ReadIds, BillTotalEmpty DEF Updates, SubsAgree

LEMMA KidsUpdates ==
    ASSUME NEW i \in Jobs, i.op = "update", Updates(i), NEW r \in i.rest,
           NEW j \in Jobs, j.op \in {"kids", "ownCost"}, j.s = r,
           j.kids = Read(LeavesOf(leaf, r.id), leaf), j.kidSum = 0,
           j.op = "kids" <=> j.kids # {},
           j.row = i.row, j.new = i.new, j.rest = i.rest, j.sum = i.sum, j.any = i.any
    PROVE  Updates(j)
<1>1. Done(j) = Done(i)
  BY DEF Done
<1>2. DoneLeaves(j) = {}
  BY ReadIds DEF DoneLeaves
<1>3. j.kids = {} <=> LeavesOf(leaf, r.id) = {}
  BY ReadIds
<1> QED
  BY <1>1, <1>2, <1>3, ReadIds, BillTotalEmpty DEF Updates, Updating

LEMMA LeafUpdates ==
    ASSUME BillTyped, Parented, NEW w \in Workers,
           job[w].op = "kids", Updates(job[w]), NEW r \in job[w].kids, NEW v \in Form, v # 0,
           leaf' = [leaf EXCEPT ![r.id] = Update(leaf[r.id], r.row, LeafForm(r, v))],
           UNCHANGED <<main, sub>>, NEW j, j = LeafDone(job[w], r, v)
    PROVE  Updates(j)'
<1> DEFINE i == job[w]  S == job[w].s.id  l == r.id
<1>1. i \in Jobs /\ Held(i)
  BY DEF BillTyped
<1>2. /\ r \in LeafReads /\ r.row.price \in Typed
      /\ j.op = "kids" /\ j.s = i.s /\ j.kids = i.kids \ {r}
      /\ j.kidSum = i.kidSum + LeafForm(r, v).budget
      /\ j.row = i.row /\ j.new = i.new /\ j.rest = i.rest /\ j.sum = i.sum /\ j.any = i.any
  BY <1>1, LeafDoneHeld
<1>3. /\ l \in Leaves /\ r.row \in SubSubItem
      /\ LeafForm(r, v) \in SubSubItem /\ LeafForm(r, v).s = r.row.s
      /\ LeafForm(r, v).price \in Typed /\ LeafForm(r, v).qty \in Typed
      /\ LeafForm(r, v).budget = LeafForm(r, v).qty * LeafForm(r, v).price
      /\ LeafForm(r, v).budget \in Nat
  BY <1>2, LeafFormHeld
<1>4. /\ i.row = main
      /\ \A q \in i.rest : q.id \in SubsOf(sub) /\ q.row = sub[q.id]
      /\ SubsAgree(Done(i))
      /\ \A k \in Leaves : leaf[k] # Gone /\ leaf[k].s \in Done(i) => LeafAgrees(k)
      /\ i.sum = Total(Done(i), sub) /\ (i.any <=> Done(i) # {})
      /\ \A q \in i.kids : q.id \in LeavesOf(leaf, S) /\ q.row = leaf[q.id]
      /\ \A k \in DoneLeaves(i) : LeafAgrees(k)
      /\ i.kidSum = Total(DoneLeaves(i), leaf)
      /\ LeavesOf(leaf, S) # {}
  BY DEF Updates, Updating
<1>5. leaf[l] = r.row /\ leaf[l] # Gone /\ leaf[l].s = S
  BY <1>4 DEF LeavesOf, Exists
<1>6. /\ \A k \in Leaves : /\ (leaf'[k] # Gone) <=> (leaf[k] # Gone)
                           /\ leaf[k] # Gone => leaf'[k].s = leaf[k].s
                           /\ k # l => leaf'[k] = leaf[k]
  BY <1>3, LeafSaved
<1>7. leaf'[l] = LeafForm(r, v)
  BY <1>3, <1>5, SavedLeaf DEF BillTyped, RowsTyped
<1>8. S \in IdsOf(i.rest)
  BY <1>1 DEF Held, IdsOf
<1>9. \A t : LeavesOf(leaf', t) = LeavesOf(leaf, t)
  BY <1>6 DEF LeavesOf, Exists
<1>10. Done(j)' = Done(i)
  BY <1>2 DEF Done
<1>11. IdsOf(j.kids) = IdsOf(i.kids) \ {l}
  <2>1. ASSUME NEW q \in i.kids, q # r PROVE q.id # l
    <3>1. q \in LeafReads /\ q.row = leaf[q.id] /\ r.row = leaf[r.id]
      BY <1>1, <1>4 DEF Jobs
    <3> QED
      BY <1>2, <2>1, <3>1 DEF LeafReads
  <2> HIDE DEF i
  <2> QED
    BY <1>2, <2>1 DEF IdsOf
<1>12. l \in LeavesOf(leaf, S) /\ l \notin DoneLeaves(i)
  BY <1>4 DEF DoneLeaves, IdsOf
<1>13. DoneLeaves(j)' = DoneLeaves(i) \cup {l}
  <2>1. DoneLeaves(j)' = LeavesOf(leaf, S) \ (IdsOf(i.kids) \ {l})
    BY <1>2, <1>9, <1>11 DEF DoneLeaves
  <2>2. DoneLeaves(i) = LeavesOf(leaf, S) \ IdsOf(i.kids)
    BY DEF DoneLeaves
  <2> QED
    BY <1>12, <2>1, <2>2
<1> HIDE DEF i, S, l
<1>14. \A k \in DoneLeaves(i) : leaf'[k] = leaf[k] /\ leaf'[k].budget \in Nat /\ k \in Leaves
  BY <1>6, <1>12
  DEF DoneLeaves, LeavesOf, Exists, BillTyped, RowsTyped, SubSubItem
<1>15. i.kidSum + leaf'[l].budget = Total(DoneLeaves(i) \cup {l}, leaf')
  <2> DEFINE D == DoneLeaves(i) \cup {l}
  <2>1. D \in SUBSET Leaves /\ IsFiniteSet(D) /\ DoneLeaves(i) = D \ {l} /\ l \in D
        /\ IsFiniteSet(DoneLeaves(i))
    <3>1. D \in SUBSET Leaves /\ DoneLeaves(i) \in SUBSET Leaves
      BY <1>3, <1>14 DEF DoneLeaves, LeavesOf
    <3> QED
      BY <1>12, <3>1, FiniteRows
  <2>2. \A k \in D : leaf'[k].budget \in Nat
    BY <1>3, <1>7, <1>14
  <2> HIDE DEF D
  <2>3. Total(D, leaf') = Total(DoneLeaves(i), leaf') + leaf'[l].budget
    <3>1. Total(D, leaf') = Total(D \ {l}, leaf') + leaf'[l].budget
      BY <2>1, <2>2, BillTotalAdd
    <3> QED
      BY <2>1, <3>1
  <2>4. Total(DoneLeaves(i), leaf') = Total(DoneLeaves(i), leaf)
    BY <1>14, <2>1, BillTotalSame
  <2> QED
    BY <1>4, <2>3, <2>4 DEF D
<1>16. j.kidSum = Total(DoneLeaves(j)', leaf')
  BY <1>2, <1>7, <1>13, <1>15
<1>17. \A k \in DoneLeaves(j)' : LeafAgrees(k)'
  BY <1>3, <1>4, <1>7, <1>13, <1>14 DEF LeafAgrees
<1>18. \A k \in Leaves : leaf'[k] # Gone /\ leaf'[k].s \in Done(i) => LeafAgrees(k)'
  <2>1. S \notin Done(i)
    BY <1>8 DEF Done
  <2> QED
    BY <1>4, <1>5, <1>6, <2>1 DEF LeafAgrees
<1>19. \A t \in Done(i) : sub'[t].budget = SubBudget(t)'
  <2> TAKE t \in Done(i)
  <2>1. t \in Subs /\ t # S
    BY <1>8 DEF Done, SubsOf
  <2>2. \A k \in LeavesOf(leaf, t) : leaf'[k] = leaf[k]
    BY <1>5, <1>6, <2>1 DEF LeavesOf, Exists
  <2>3. SubBudget(t)' = SubBudget(t)
    BY <1>9, <2>1, <2>2, SubBudgetSame
  <2> QED
    BY <1>4, <2>3 DEF SubsAgree
<1>20. SubsAgree(Done(j))'
  BY <1>10, <1>19 DEF SubsAgree
<1>21. \A q \in j.kids : q.id \in LeavesOf(leaf', S) /\ q.row = leaf'[q.id]
  <2> TAKE q \in j.kids
  <2>1. q \in i.kids /\ q.id # l
    BY <1>2, <1>11 DEF IdsOf
  <2> QED
    BY <1>4, <1>6, <1>9, <2>1 DEF LeavesOf
<1>22. /\ j.sum = Total(Done(j)', sub') /\ (j.any <=> Done(j)' # {}) /\ j.row = main'
       /\ \A q \in j.rest : q.id \in SubsOf(sub') /\ q.row = sub'[q.id]
       /\ \A k \in Leaves : leaf'[k] # Gone /\ leaf'[k].s \in Done(j)' => LeafAgrees(k)'
  BY <1>2, <1>4, <1>10, <1>18
<1>23. /\ \A q \in j.kids : q.id \in LeavesOf(leaf', j.s.id) /\ q.row = leaf'[q.id]
       /\ LeavesOf(leaf', j.s.id) # {}
  BY <1>2, <1>4, <1>9, <1>21 DEF S, i
<1> QED
  BY <1>2, <1>16, <1>17, <1>20, <1>22, <1>23 DEF Updates

LEMMA SubUpdates ==
    ASSUME BillTyped, Parented, NEW w \in Workers,
           job[w].op = "ownCost" \/ (job[w].op = "kids" /\ job[w].kids = {}),
           Updates(job[w]), NEW v \in Form, v # 0,
           sub' = [sub EXCEPT ![job[w].s.id] =
                     Update(sub[job[w].s.id], job[w].s.row, SubForm(job[w], v))],
           UNCHANGED <<main, leaf>>, NEW j, j = SubDone(job[w], v)
    PROVE  Updates(j)'
<1> DEFINE i == job[w]  S == job[w].s.id
<1>1. i \in Jobs /\ Held(i) /\ i.op \in {"kids", "ownCost"}
  BY DEF BillTyped
<1>2. /\ i.s \in i.rest /\ S \in Subs /\ i.s.row \in SubItem
      /\ SubForm(i, v) \in SubItem /\ SubForm(i, v).cost = v
      /\ i.op = "kids" => SubForm(i, v).budget = i.kidSum
      /\ i.op = "ownCost" => SubForm(i, v).budget = v
      /\ SubForm(i, v).budget \in Nat /\ SubForm(i, v).cost \in Typed
      /\ j.op = "update" /\ j.row = i.row /\ j.new = i.new /\ j.rest = i.rest \ {i.s}
      /\ j.sum = i.sum + SubForm(i, v).budget /\ j.any = TRUE
  <2> HIDE DEF i
  <2>1. /\ i.s \in i.rest /\ i.s.id \in Subs /\ i.s.row \in SubItem
        /\ SubForm(i, v) \in SubItem /\ SubForm(i, v).cost = v
        /\ i.op = "kids" => SubForm(i, v).budget = i.kidSum
        /\ i.op = "ownCost" => SubForm(i, v).budget = v
        /\ SubForm(i, v).budget \in Nat /\ SubForm(i, v).cost \in Typed
    BY <1>1, SubFormHeld
  <2>2. /\ SubDone(i, v).op = "update" /\ SubDone(i, v).row = i.row /\ SubDone(i, v).new = i.new
        /\ SubDone(i, v).rest = i.rest \ {i.s}
        /\ SubDone(i, v).sum = i.sum + SubForm(i, v).budget /\ SubDone(i, v).any = TRUE
    BY <1>1, SubDoneHeld
  <2>3. j = SubDone(i, v) /\ S = i.s.id
    BY DEF i
  <2> QED
    BY <2>1, <2>2, <2>3
<1>3. /\ i.row = main
      /\ \A q \in i.rest : q.id \in SubsOf(sub) /\ q.row = sub[q.id]
      /\ SubsAgree(Done(i))
      /\ \A k \in Leaves : leaf[k] # Gone /\ leaf[k].s \in Done(i) => LeafAgrees(k)
      /\ i.sum = Total(Done(i), sub)
      /\ i.op = "kids" => /\ \A k \in DoneLeaves(i) : LeafAgrees(k)
                          /\ i.kidSum = Total(DoneLeaves(i), leaf)
                          /\ LeavesOf(leaf, S) # {}
      /\ i.op = "ownCost" => LeavesOf(leaf, S) = {}
  BY <1>1 DEF Updates, Updating
<1>4. i.op = "kids" => DoneLeaves(i) = LeavesOf(leaf, S)
  BY DEF DoneLeaves, IdsOf
<1>5. S \in SubsOf(sub) /\ i.s.row = sub[S]
  BY <1>2, <1>3
<1>6. \A t \in Subs : (sub'[t] # Gone <=> sub[t] # Gone) /\ (t # S => sub'[t] = sub[t])
  BY <1>2, SubSaved
<1>7. sub'[S] = SubForm(i, v)
  BY <1>2, <1>5, SavedSub DEF BillTyped, RowsTyped, SubsOf, Exists
<1>8. IdsOf(j.rest) = IdsOf(i.rest) \ {S}
  <2>1. ASSUME NEW q \in i.rest, q # i.s PROVE q.id # S
    <3>1. q \in SubReads /\ q.row = sub[q.id] /\ i.s \in SubReads
      BY <1>1, <1>2, <1>3 DEF Jobs
    <3> QED
      BY <1>5, <2>1, <3>1 DEF SubReads
  <2>2. S = i.s.id
    OBVIOUS
  <2> HIDE DEF i, S
  <2> QED
    BY <1>2, <2>1, <2>2 DEF IdsOf
<1>9. S \in IdsOf(i.rest)
  BY <1>2 DEF IdsOf
<1> HIDE DEF i, S
<1>10. SubsOf(sub') = SubsOf(sub)
  BY <1>6 DEF SubsOf, Exists
<1>11. Done(j)' = Done(i) \cup {S} /\ S \notin Done(i)
  BY <1>5, <1>8, <1>9, <1>10 DEF Done
<1>12. \A t \in Done(i) : t \in Subs /\ t # S /\ sub'[t] = sub[t]
  BY <1>6, <1>11 DEF Done, SubsOf
<1>13. \A t \in Done(i) : sub'[t].budget = SubBudget(t)'
  <2> TAKE t \in Done(i)
  <2>1. SubBudget(t)' = SubBudget(t)
    BY <1>12, SubBudgetSame
  <2> QED
    BY <1>3, <1>12, <2>1 DEF SubsAgree
<1>14. ASSUME NEW t \in Subs, t = S PROVE sub'[t].budget = SubBudget(t)'
  <2>1. CASE i.op = "ownCost"
    <3>1. LeavesOf(leaf', t) = {} /\ sub'[t].cost = v /\ sub'[t].budget = v
      BY <1>2, <1>3, <1>7, <1>14, <2>1
    <3> QED
      BY <3>1 DEF SubBudget
  <2>2. CASE i.op = "kids"
    <3>1. LeavesOf(leaf', t) # {} /\ sub'[t].budget = Total(LeavesOf(leaf', t), leaf')
      BY <1>2, <1>3, <1>4, <1>7, <1>14, <2>2
    <3> QED
      BY <3>1 DEF SubBudget
  <2> QED
    BY <1>1, <2>1, <2>2
<1>15. SubsAgree(Done(j))'
  BY <1>2, <1>11, <1>13, <1>14 DEF SubsAgree
<1>16. \A k \in Leaves : leaf'[k] # Gone /\ leaf'[k].s \in Done(j)' => LeafAgrees(k)'
  <2> TAKE k \in Leaves
  <2>1. CASE leaf[k] # Gone /\ leaf[k].s \in Done(i)
    BY <1>3, <2>1 DEF LeafAgrees
  <2>2. CASE leaf[k] # Gone /\ leaf[k].s = S
    <3>1. k \in LeavesOf(leaf, S)
      BY <2>2 DEF LeavesOf, Exists
    <3> QED
      BY <1>1, <1>3, <1>4, <3>1 DEF LeafAgrees
  <2> QED
    BY <1>11, <2>1, <2>2
<1>17. j.sum = Total(Done(j)', sub')
  <2> DEFINE D == Done(i) \cup {S}
  <2>1. /\ D \in SUBSET Subs /\ IsFiniteSet(D) /\ D \ {S} = Done(i) /\ S \in D
        /\ IsFiniteSet(Done(i))
    <3>1. D \in SUBSET Subs /\ Done(i) \in SUBSET Subs
      BY <1>2, <1>12
    <3> QED
      BY <1>11, <3>1, FiniteRows
  <2>2. \A t \in D : sub'[t].budget \in Nat
    <3>1. \A t \in Done(i) : sub[t].budget \in Nat
      BY DEF Done, SubsOf, Exists, BillTyped, RowsTyped, SubItem
    <3> QED
      BY <1>2, <1>7, <1>12, <3>1
  <2> HIDE DEF D
  <2>3. Total(D, sub') = Total(Done(i), sub') + sub'[S].budget
    <3>1. Total(D, sub') = Total(D \ {S}, sub') + sub'[S].budget
      BY <2>1, <2>2, BillTotalAdd
    <3> QED
      BY <2>1, <3>1
  <2>4. Total(Done(i), sub') = Total(Done(i), sub)
    BY <1>12, <2>1, BillTotalSame
  <2> QED
    BY <1>2, <1>3, <1>7, <1>11, <2>3, <2>4 DEF D
<1>18. \A q \in j.rest : q.id \in SubsOf(sub') /\ q.row = sub'[q.id]
  <2> TAKE q \in j.rest
  <2>1. q \in i.rest /\ q.id # S
    BY <1>2, <1>8 DEF IdsOf
  <2> QED
    BY <1>3, <1>6, <1>10, <2>1 DEF SubsOf
<1> QED
  BY <1>2, <1>3, <1>11, <1>15, <1>16, <1>17, <1>18 DEF Updates

\* With nothing left to save, all agrees but the main item, which comes last.
LEMMA EndAgrees ==
    ASSUME BillTyped, Parented, NEW w \in Workers,
           job[w].op = "update", job[w].rest = {}, Updates(job[w]), job[w].new.qty # 0,
           main' = Update(main, job[w].row, [job[w].new EXCEPT !.budget =
                     IF job[w].any THEN job[w].sum * job[w].new.qty ELSE @]),
           UNCHANGED <<sub, leaf>>
    PROVE  Agree'
<1> DEFINE i == job[w]
           new == [i.new EXCEPT !.budget = IF i.any THEN i.sum * i.new.qty ELSE @]
<1>1. i \in Jobs /\ Held(i)
  BY DEF BillTyped
<1>2. i.row \in MainItem /\ i.new \in MainItem /\ i.sum \in Nat /\ i.new.qty \in Nat
  BY <1>1 DEF Held, Updating, Jobs, MainItem
<1>3. /\ i.row = main /\ SubsAgree(Done(i))
      /\ \A k \in Leaves : leaf[k] # Gone /\ leaf[k].s \in Done(i) => LeafAgrees(k)
      /\ i.sum = Total(Done(i), sub) /\ (i.any <=> Done(i) # {})
  BY DEF Updates, Updating
<1>4. Done(i) = SubsOf(sub)
  BY DEF Done, IdsOf
<1>5. new \in MainItem /\ new.qty = i.new.qty /\ (i.any => new.budget = i.sum * i.new.qty)
  <2>1. i.sum * i.new.qty \in Nat
    BY <1>2
  <2> QED
    BY <1>2, <2>1 DEF MainItem
<1>6. main' = Update(main, i.row, new)
  OBVIOUS
<1> HIDE DEF i, new
<1>7. main' = new
  BY <1>2, <1>3, <1>5, <1>6, SavedMain
<1>8. \A s : SubBudget(s)' = SubBudget(s)
  BY DEF SubBudget
<1>9. SubsAgree(SubsOf(sub))'
  BY <1>3, <1>4, <1>8 DEF SubsAgree
<1>10. LeavesAgree'
  <2>1. \A k \in Leaves : leaf[k] # Gone => leaf[k].s \in SubsOf(sub)
    BY DEF Parented, BillTyped, RowsTyped, SubsOf, Exists, SubSubItem
  <2> QED
    BY <1>3, <1>4, <2>1 DEF LeavesAgree, LeafAgrees
<1>11. MainAgrees'
  <2>1. SubsOf(sub) # {} => main'.budget = i.sum * i.new.qty /\ main'.qty = i.new.qty
    BY <1>3, <1>4, <1>5, <1>7
  <2> QED
    BY <1>2, <1>3, <1>4, <2>1 DEF MainAgrees
<1> QED
  BY <1>9, <1>10, <1>11 DEF Agree

-----------------------------------------------------------------------------
LEMMA AgreementStep ==
    ASSUME BillInv, BOQNext
    PROVE  Single' /\ Agreement'
<1> USE DEF BillInv
<1>1. ASSUME NEW w \in Workers, PatchLeaf(w) PROVE Single' /\ Agreement'
  <2>1. PICK l \in Leaves, v \in Typed :
          /\ leaf[l] # Gone
          /\ \E new : PatchedTo(l, v, new) /\ Go(w, LeafJob(l, leaf[l], new))
    BY <1>1 DEF PatchLeaf, Exists, PatchedTo, LeafJob
  <2>2. PICK new : PatchedTo(l, v, new) /\ Go(w, LeafJob(l, leaf[l], new))
    BY <2>1
  <2>3. PICK j \in Jobs : /\ Held(j) /\ Go(w, j) /\ j.op = "leaf" /\ j.s = l /\ j.row = leaf[l]
                          /\ j.new.budget = j.new.qty * j.new.price
    <3>1. /\ leaf[l] \in SubSubItem /\ new \in SubSubItem
          /\ new.s = leaf[l].s /\ leaf[l].s \in Subs
          /\ new.qty \in Typed /\ new.price \in Typed /\ new.budget = new.qty * new.price
      BY <2>1, <2>2, PatchedLeaf
    <3> QED
      BY <2>2, <3>1, LeafHeld
  <2>4. Begins(w, {}) /\ UNCHANGED <<main, sub, leaf>>
    BY <1>1 DEF PatchLeaf, rows
  <2>5. Agree => Repairs(j)
    BY <2>1, <2>3 DEF Repairs, Agree, Updating
  <2>6. Agree => Repairs(j)'
    BY <2>4, <2>5, UnchangedAgree
  <2>7. j.op \notin Updating /\ j.op # "idle"
    BY <2>3 DEF Updating
  <2> QED
    BY <2>3, <2>4, <2>6, <2>7, BeginsAgree
<1>2. ASSUME NEW w \in Workers, SaveLeaf(w) PROVE Single' /\ Agreement'
  <2>1. job[w].op = "leaf" /\ job[w].row.s \in Subs /\ GoesOn
    BY <1>2 DEF SaveLeaf, At, BillTyped, Held
  <2>2. PICK j \in Jobs : Held(j) /\ Go(w, j) /\ j.op = "sub" /\ j.s = job[w].row.s
    BY <1>2, <2>1, GoesTo DEF SaveLeaf
  <2>3. Repairs(job[w]) => Repairs(j)'
    BY <1>2, <2>2, SaveLeafRepairs
  <2> QED
    BY <2>1, <2>2, <2>3, GoesOnAgree DEF Updating
<1>3. ASSUME NEW w \in Workers, PatchSub(w) PROVE Single' /\ Agreement'
  <2>1. PICK s \in SubsOf(sub) : Goes(w, "sub", s)
    BY <1>3 DEF PatchSub
  <2>2. PICK j \in Jobs : Held(j) /\ Go(w, j) /\ j.op = "sub" /\ j.s = s
    BY <2>1, GoesTo DEF SubsOf
  <2>3. Begins(w, {}) /\ UNCHANGED <<main, sub, leaf>>
    BY <1>3 DEF PatchSub, rows
  <2>4. Agree => Repairs(j)
    BY <2>1, <2>2 DEF Repairs, Agree, Updating, SubsAgree
  <2>5. Agree => Repairs(j)'
    BY <2>3, <2>4, UnchangedAgree
  <2> QED
    BY <2>2, <2>3, <2>5, BeginsAgree DEF Updating
<1>4. ASSUME NEW w \in Workers, ReadSub(w) PROVE Single' /\ Agreement'
  <2>1. job[w].op = "sub" /\ GoesOn /\ UNCHANGED <<main, sub, leaf>>
    BY <1>4 DEF ReadSub, At, rows
  <2>2. CASE sub[job[w].s] # Gone
    <3>1. PICK j \in Jobs : /\ Held(j) /\ Go(w, j)
                            /\ j.op = "saveSub" /\ j.s = job[w].s /\ j.row = sub[j.s]
                            /\ j.new = [sub[j.s] EXCEPT !.budget = SubBudget(j.s)]
      <4>1. Go(w, SubJob(w)) /\ At(w, "sub")
        BY <1>4, <2>2 DEF ReadSub, Exists, SubJob
      <4>2. /\ SubJob(w) \in Jobs /\ Held(SubJob(w))
            /\ SubJob(w).op = "saveSub" /\ SubJob(w).s = job[w].s
            /\ SubJob(w).row = sub[SubJob(w).s]
            /\ SubJob(w).new = [sub[SubJob(w).s] EXCEPT !.budget = SubBudget(SubJob(w).s)]
        BY <2>2, <4>1, SubHeld
      <4> QED
        BY <4>1, <4>2
    <3>2. Repairs(job[w]) => Repairs(j)
      BY <2>1, <3>1 DEF Repairs, Updating
    <3>3. Repairs(job[w]) => Repairs(j)'
      BY <2>1, <3>2, UnchangedAgree
    <3> QED
      BY <2>1, <3>1, <3>3, GoesOnAgree DEF Updating
  <2>3. CASE sub[job[w].s] = Gone
    <3>1. PICK j \in Jobs : Held(j) /\ Go(w, j) /\ j.op = "idle"
      BY <1>4, <2>3, IdleJob DEF ReadSub, Exists
    <3>2. ~Repairs(job[w])
      BY <2>1, <2>3 DEF Repairs, SubsOf, Exists
    <3> QED
      BY <2>1, <3>1, <3>2, GoesOnAgree DEF Updating
  <2> QED
    BY <2>2, <2>3
<1>5. ASSUME NEW w \in Workers, SaveSub(w) PROVE Single' /\ Agreement'
  <2>1. job[w].op = "saveSub" /\ job[w].s \in Subs /\ GoesOn
    BY <1>5 DEF SaveSub, At, BillTyped, Held
  <2>2. PICK j \in Jobs : Held(j) /\ Go(w, j) /\ j.op = "find" /\ j.s = job[w].s
    BY <1>5, <2>1, GoesTo DEF SaveSub
  <2>3. Repairs(job[w]) => Repairs(j)'
    BY <1>5, <2>2, SaveSubRepairs
  <2> QED
    BY <2>1, <2>2, <2>3, GoesOnAgree DEF Updating
<1>6. ASSUME NEW w \in Workers, FindSub(w) PROVE Single' /\ Agreement'
  <2>1. job[w].op = "find" /\ GoesOn /\ UNCHANGED <<main, sub, leaf>>
    BY <1>6 DEF FindSub, At, rows
  <2>2. CASE sub[job[w].s] # Gone
    <3>1. PICK j \in Jobs : Held(j) /\ Go(w, j) /\ j.op = "main"
      BY <1>6, <2>2, GoesTo DEF FindSub, Exists
    <3>2. Repairs(job[w]) => Repairs(j)
      BY <2>1, <3>1 DEF Repairs, Updating
    <3>3. Repairs(job[w]) => Repairs(j)'
      BY <2>1, <3>2, UnchangedAgree
    <3> QED
      BY <2>1, <3>1, <3>3, GoesOnAgree DEF Updating
  <2>3. CASE sub[job[w].s] = Gone
    <3>1. PICK j \in Jobs : Held(j) /\ Go(w, j) /\ j.op = "idle"
      BY <1>6, <2>3, IdleJob DEF FindSub, Exists
    <3>2. ~Repairs(job[w])
      BY <2>1, <2>3 DEF Repairs, SubsOf, Exists
    <3> QED
      BY <2>1, <3>1, <3>2, GoesOnAgree DEF Updating
  <2> QED
    BY <2>2, <2>3
<1>7. ASSUME NEW w \in Workers, ReadMain(w) PROVE Single' /\ Agreement'
  <2>1. job[w].op = "main" /\ GoesOn /\ UNCHANGED <<main, sub, leaf>>
    BY <1>7 DEF ReadMain, At, rows
  <2>2. CASE main # Gone
    <3>1. PICK j \in Jobs : /\ Held(j) /\ Go(w, j) /\ j.op = "saveMain" /\ j.row = main
                            /\ j.new = [main EXCEPT !.budget = MainBudget]
      BY <1>7, <2>1, <2>2, MainHeld DEF ReadMain, Exists, At
    <3>2. Repairs(job[w]) => Repairs(j)
      BY <2>1, <3>1 DEF Repairs, Updating
    <3>3. Repairs(job[w]) => Repairs(j)'
      BY <2>1, <3>2, UnchangedAgree
    <3> QED
      BY <2>1, <3>1, <3>3, GoesOnAgree DEF Updating
  <2>3. CASE main = Gone
    <3>1. PICK j \in Jobs : Held(j) /\ Go(w, j) /\ j.op = "idle"
      BY <1>7, <2>3, IdleJob DEF ReadMain, Exists
    <3>2. SubsOf(sub) = {}
      BY <2>3 DEF Parented
    <3>3. Repairs(job[w]) => Agree
      BY <2>1, <3>2 DEF Repairs, Updating, Agree, MainAgrees
    <3>4. Repairs(job[w]) => Agree'
      BY <2>1, <3>3, UnchangedAgree
    <3> QED
      BY <2>1, <3>1, <3>4, GoesOnAgree DEF Updating
  <2> QED
    BY <2>2, <2>3
<1>8. ASSUME NEW w \in Workers, SaveMain(w) PROVE Single' /\ Agreement'
  <2>1. job[w].op = "saveMain" /\ GoesOn
    BY <1>8 DEF SaveMain, At
  <2>2. PICK j \in Jobs : Held(j) /\ Go(w, j) /\ j.op = "idle"
    BY <1>8, IdleJob DEF SaveMain
  <2>3. Repairs(job[w]) => Agree'
    BY <1>8, SaveMainAgrees
  <2> QED
    BY <2>1, <2>2, <2>3, GoesOnAgree DEF Updating
<1>9. ASSUME NEW w \in Workers, HandleDeleteSubSubItem(w) PROVE Single' /\ Agreement'
  <2>1. PICK l \in Leaves : /\ leaf[l] # Gone /\ leaf' = [leaf EXCEPT ![l] = Gone]
                            /\ Goes(w, "sub", leaf[l].s)
    BY <1>9 DEF HandleDeleteSubSubItem, Exists
  <2>2. leaf[l].s \in Subs
    BY <2>1 DEF BillTyped, RowsTyped, SubSubItem
  <2>3. PICK j \in Jobs : Held(j) /\ Go(w, j) /\ j.op = "sub" /\ j.s = leaf[l].s
    BY <2>1, <2>2, GoesTo
  <2>4. Begins(w, {}) /\ UNCHANGED <<main, sub>>
    BY <1>9 DEF HandleDeleteSubSubItem
  <2>5. Agree => Repairs(j)'
    BY <2>1, <2>3, <2>4, DeleteLeafRepairs
  <2> QED
    BY <2>3, <2>4, <2>5, BeginsAgree DEF Updating
<1>10. ASSUME NEW w \in Workers, HandleDeleteSubItem(w) PROVE Single' /\ Agreement'
  <2>1. PICK s \in Subs : sub' = [sub EXCEPT ![s] = Gone] /\ leaf' = WithoutKids(s)
    BY <1>10 DEF HandleDeleteSubItem, SubsOf
  <2>2. PICK j \in Jobs : Held(j) /\ Go(w, j) /\ j.op = "main"
    BY <1>10, GoesTo DEF HandleDeleteSubItem
  <2>3. Begins(w, {}) /\ UNCHANGED main
    BY <1>10 DEF HandleDeleteSubItem
  <2>4. Agree => Repairs(j)'
    BY <2>1, <2>2, <2>3, DeleteSubRepairs
  <2> QED
    BY <2>2, <2>3, <2>4, BeginsAgree DEF Updating
<1>11. ASSUME NEW w \in Workers, HandleDeleteMainItem(w) PROVE Single' /\ Agreement'
  <2>1. PICK j \in Jobs : Held(j) /\ Go(w, j) /\ j.op = "idle"
    BY <1>11, IdleJob DEF HandleDeleteMainItem
  <2>2. Begins(w, {}) /\ (\A s \in Subs : sub'[s] = Gone) /\ \A l \in Leaves : leaf'[l] = Gone
    BY <1>11 DEF HandleDeleteMainItem
  <2>3. SubsOf(sub') = {}
    BY <2>2 DEF SubsOf, Exists
  <2>4. Agree'
    BY <2>2, <2>3 DEF Agree, LeavesAgree, SubsAgree, MainAgrees
  <2> QED
    BY <2>1, <2>2, <2>4, BeginsAgree DEF Updating
<1>12. ASSUME NEW w \in Workers,
              \/ HandlePatchMainItem(w)
              \/ HandleAddSubItem(w) \/ HandleAddSubSubItem(w)
       PROVE  Single' /\ Agreement'
  <2>1. PICK j \in Jobs : Held(j) /\ Go(w, j) /\ j.op = "idle"
    BY <1>12, IdleJob
    DEF HandlePatchMainItem, HandleAddSubItem, HandleAddSubSubItem
  <2>2. PICK c \in {{"patched"}, {"added"}} : Begins(w, c)
    BY <1>12 DEF HandlePatchMainItem, HandleAddSubItem, HandleAddSubSubItem
  <2>3. c # {}
    OBVIOUS
  <2> QED
    BY <2>1, <2>2, <2>3, BeginsAgree DEF Updating
<1>13. ASSUME NEW w \in Workers, BeginUpdate(w) PROVE Single' /\ Agreement'
  <2>1. Begins(w, {}) /\ UNCHANGED <<main, sub, leaf>> /\ main # Gone
    BY <1>13 DEF BeginUpdate, rows, Begins, Exists
  <2>2. PICK j \in Jobs : /\ Held(j) /\ Go(w, j) /\ j.op = "update" /\ j.row = main
                          /\ j.rest = Read(SubsOf(sub), sub) /\ j.sum = 0 /\ j.any = FALSE
    BY <1>13, <2>1, UpdateHeld DEF BeginUpdate
  <2>3. Updates(j)'
    BY <2>1, <2>2, BeginUpdates, UnchangedAgree
  <2>4. Repairs(j)'
    BY <2>2, UpdatingRepairs DEF Updating
  <2> QED
    BY <2>1, <2>2, <2>3, <2>4, BeginsAgree
<1>14. ASSUME NEW w \in Workers, UpdateSub(w) PROVE Single' /\ Agreement'
  <2>1. /\ GoesOn /\ UNCHANGED <<main, sub, leaf>>
        /\ job[w].op = "update" /\ job[w] \in Jobs /\ Held(job[w])
    BY <1>14 DEF UpdateSub, rows, At, BillTyped
  <2>2. PICK r \in job[w].rest, op \in {"kids", "ownCost"} :
          /\ op = "kids" <=> Read(LeavesOf(leaf, r.id), leaf) # {}
          /\ Go(w, KidsJob(job[w], op, r, Read(LeavesOf(leaf, r.id), leaf)))
    BY <1>14 DEF UpdateSub, KidsJob
  <2> DEFINE kids == Read(LeavesOf(leaf, r.id), leaf)
  <2>3. PICK j \in Jobs :
          /\ j = KidsJob(job[w], op, r, kids)
          /\ Held(j) /\ j.op = op /\ j.s = r /\ j.kids = kids /\ j.kidSum = 0
          /\ j.row = job[w].row /\ j.new = job[w].new /\ j.rest = job[w].rest
          /\ j.sum = job[w].sum /\ j.any = job[w].any
    BY <2>1, <2>2, KidsHeld
  <2>4. Updates(job[w]) => Updates(j)
    BY <2>1, <2>2, <2>3, KidsUpdates
  <2>5. Updates(job[w]) => Updates(j)'
    BY <2>1, <2>4, UnchangedAgree
  <2>6. Repairs(j)' /\ j.op # "idle"
    BY <2>3, UpdatingRepairs DEF Updating
  <2> QED
    BY <2>1, <2>2, <2>3, <2>5, <2>6, GoesOnAgree
<1>15. ASSUME NEW w \in Workers, UpdateLeaf(w) PROVE Single' /\ Agreement'
  <2>1. PICK r \in job[w].kids, v \in Form :
          /\ Go(w, LeafDone(job[w], r, v))
          /\ IF v = 0 THEN Refuses /\ UNCHANGED leaf
             ELSE /\ leaf' = [leaf EXCEPT ![r.id] = Update(leaf[r.id], r.row, LeafForm(r, v))]
                  /\ GoesOn
    BY <1>15 DEF UpdateLeaf, Accepts, LeafDone, LeafForm
  <2>2. job[w] \in Jobs /\ Held(job[w]) /\ job[w].op = "kids" /\ UNCHANGED <<main, sub>>
    BY <1>15 DEF UpdateLeaf, At, BillTyped
  <2>3. CASE v = 0
    BY <2>1, <2>3, RefusesAgree
  <2>4. CASE v # 0
    <3>1. PICK j \in Jobs : /\ Held(j) /\ Go(w, j) /\ j.op = "kids"
                            /\ j = LeafDone(job[w], r, v)
      BY <2>1, <2>2, LeafDoneHeld
    <3>2. Updates(job[w]) => Updates(j)'
      BY <2>1, <2>2, <2>4, <3>1, LeafUpdates
    <3>3. Repairs(j)' /\ j.op # "idle"
      BY <3>1, UpdatingRepairs DEF Updating
    <3> QED
      BY <2>1, <2>2, <2>4, <3>1, <3>2, <3>3, GoesOnAgree
  <2> QED
    BY <2>3, <2>4
<1>16. ASSUME NEW w \in Workers, UpdateSubEnds(w) PROVE Single' /\ Agreement'
  <2>1. PICK v \in Form :
          /\ Go(w, SubDone(job[w], v))
          /\ IF v = 0 THEN Refuses /\ UNCHANGED sub
             ELSE /\ sub' = [sub EXCEPT ![job[w].s.id] =
                               Update(sub[job[w].s.id], job[w].s.row, SubForm(job[w], v))]
                  /\ GoesOn
    BY <1>16 DEF UpdateSubEnds, Accepts, At, SubDone, SubForm
  <2>2. /\ job[w] \in Jobs /\ Held(job[w])
        /\ job[w].op = "ownCost" \/ (job[w].op = "kids" /\ job[w].kids = {})
        /\ UNCHANGED <<main, leaf>>
    BY <1>16 DEF UpdateSubEnds, At, BillTyped
  <2>3. CASE v = 0
    BY <2>1, <2>3, RefusesAgree
  <2>4. CASE v # 0
    <3>1. PICK j \in Jobs : /\ Held(j) /\ Go(w, j) /\ j.op = "update"
                            /\ j = SubDone(job[w], v)
      BY <2>1, <2>2, SubDoneHeld
    <3>2. Updates(job[w]) => Updates(j)'
      BY <2>1, <2>2, <2>4, <3>1, SubUpdates
    <3>3. Repairs(j)' /\ j.op # "idle"
      BY <3>1, UpdatingRepairs DEF Updating
    <3> QED
      BY <2>1, <2>2, <2>4, <3>1, <3>2, <3>3, GoesOnAgree
  <2> QED
    BY <2>3, <2>4
<1>17. ASSUME NEW w \in Workers, EndUpdate(w) PROVE Single' /\ Agreement'
  <2>1. /\ job[w].op = "update" /\ job[w].rest = {} /\ Go(w, Idle)
        /\ UNCHANGED <<sub, leaf>>
    BY <1>17 DEF EndUpdate, At
  <2>2. CASE job[w].new.qty = 0
    BY <1>17, <2>2, RefusesAgree DEF EndUpdate, Accepts
  <2>3. CASE job[w].new.qty # 0
    <3>1. /\ main' = Update(main, job[w].row, [job[w].new EXCEPT !.budget =
                       IF job[w].any THEN job[w].sum * job[w].new.qty ELSE @])
          /\ causes' = (IF clean THEN {} ELSE causes) /\ clean' = clean
      BY <1>17, <2>3 DEF EndUpdate, Accepts
    <3>2. /\ job'[w].op = "idle" /\ \A v \in Workers : v # w => job'[v] = job[v]
      BY <2>1, IdleJob, Remembers
    <3>3. clean \/ causes # {}
      BY <2>1 DEF Single, AtRest, At
    <3>4. clean => \A v \in Workers : job'[v].op = "idle"
      BY <2>1, <3>2 DEF Single
    <3>5. clean => Agree'
      <4>1. clean => Updates(job[w])
        BY DEF Agreement
      <4> QED
        BY <2>1, <2>3, <3>1, <4>1, EndAgrees
    <3>6. Single'
      BY <3>1, <3>3, <3>4 DEF Single
    <3>7. clean' => \A v \in Workers : Updates(job[v])'
      BY <3>1, <3>4 DEF Updates, Updating
    <3> QED
      BY <3>1, <3>3, <3>4, <3>5, <3>6, <3>7 DEF Agreement
  <2> QED
    BY <2>2, <2>3
<1>18. ASSUME Crash PROVE Single' /\ Agreement'
  <2>1. \A v \in Workers : job'[v].op = "idle"
    BY <1>18, IdleJob DEF Crash
  <2>2. causes' # {}
    BY <1>18 DEF Crash
  <2> QED
    BY <2>1, <2>2 DEF Single, Agreement, Updates, Updating
<1> QED
  BY <1>1, <1>2, <1>3, <1>4, <1>5, <1>6, <1>7, <1>8, <1>9, <1>10, <1>11, <1>12, <1>13, <1>14,
     <1>15, <1>16, <1>17, <1>18 DEF BOQNext

-----------------------------------------------------------------------------
(* The demo data agree: ones add up to a cardinality. *)

LEMMA TotalOfOnes ==
    ASSUME NEW S, IsFiniteSet(S), NEW f, \A x \in S : f[x] = 1
    PROVE  TotalOf(f, S) = Cardinality(S)
<1> DEFINE B == {T \in SUBSET S : TotalOf(f, T) # Cardinality(T)}
<1>1. SUFFICES ASSUME B # {} PROVE FALSE
  BY DEF B
<1>2. PICK T \in B : \A c \in B : c \subseteq T => c = T
  <2> B \subseteq SUBSET S
    OBVIOUS
  <2> HIDE DEF B
  <2> QED
    BY <1>1, LeastSubset
<1>3. T \subseteq S /\ IsFiniteSet(T) /\ TotalOf(f, T) # Cardinality(T)
  BY FS_Subset
<1>4. T # {}
  BY <1>3, TotalEmpty, FS_EmptySet
<1>5. Picked(T) \in T /\ TotalOf(f, T) = f[Picked(T)] + TotalOf(f, T \ {Picked(T)})
  BY <1>3, <1>4, TotalStep
<1>6. TotalOf(f, T \ {Picked(T)}) = Cardinality(T \ {Picked(T)})
  <2>1. T \ {Picked(T)} \in SUBSET S /\ T \ {Picked(T)} \subseteq T /\ T \ {Picked(T)} # T
    BY <1>3, <1>5
  <2> QED
    BY <1>2, <2>1
<1>7. Cardinality(T \ {Picked(T)}) = Cardinality(T) - 1 /\ Cardinality(T) \in Nat
  BY <1>3, <1>5, FS_RemoveElement, FS_CardinalityType
<1>8. f[Picked(T)] = 1
  BY <1>3, <1>5
<1> QED
  BY <1>3, <1>5, <1>6, <1>7, <1>8

LEMMA BillTotalOfOnes ==
    ASSUME NEW S, IsFiniteSet(S), NEW of, \A i \in S : of[i].budget = 1
    PROVE  Total(S, of) = Cardinality(S)
<1> DEFINE h == [i \in S |-> of[i].budget]
<1>1. \A i \in S : h[i] = 1
  OBVIOUS
<1>2. Total(S, of) = TotalOf(h, S)
  BY BillTotalIs
<1>3. Cardinality(S) = Cardinality(S)
  BY DEF Cardinality
<1> HIDE DEF h
<1> QED
  BY <1>1, <1>2, <1>3, TotalOfOnes

LEMMA BOQInitially ==
    ASSUME BOQInit
    PROVE  BillInv
<1>1. PICK subs \in SUBSET Subs, under \in [Leaves -> Subs \cup {NoId}], q \in Typed :
        /\ \A l \in Leaves : under[l] \in subs \cup {NoId}
        /\ leaf = [l \in Leaves |-> IF under[l] = NoId THEN Gone
                    ELSE [s |-> under[l], qty |-> 1, price |-> 1, budget |-> 1]]
        /\ sub = [s \in Subs |-> IF s \notin subs THEN Gone
                    ELSE [cost |-> 1,
                          budget |-> IF \A l \in Leaves : under[l] # s THEN 1
                                     ELSE Cardinality({l \in Leaves : under[l] = s})]]
        /\ main = [qty |-> q, budget |-> IF subs = {} THEN 1 ELSE q * Total(subs, sub)]
  BY DEF BOQInit
<1> DEFINE kids(s) == {l \in Leaves : under[l] = s}
<1>2. 1 \in Typed /\ q \in Nat
  BY BOQAssumption DEF Typed
<1>3. \A s : kids(s) \in SUBSET Leaves /\ IsFiniteSet(kids(s)) /\ Cardinality(kids(s)) \in Nat
  <2>1. \A s : kids(s) \in SUBSET Leaves /\ IsFiniteSet(kids(s))
    BY FiniteRows
  <2>2. \A s : Cardinality(kids(s)) \in Nat
    BY <2>1, FS_CardinalityType
  <2> QED
    BY <2>1, <2>2 DEF Cardinality
<1>4. sub \in [Subs -> {Gone} \cup SubItem]
  BY <1>1, <1>3 DEF SubItem
<1>5. leaf \in [Leaves -> {Gone} \cup SubSubItem]
  BY <1>1 DEF SubSubItem
<1>6. \A l \in Leaves :
        /\ leaf[l] # Gone => /\ under[l] # NoId /\ under[l] \in subs /\ leaf[l].s = under[l]
                             /\ leaf[l].qty = 1 /\ leaf[l].price = 1 /\ leaf[l].budget = 1
        /\ under[l] # NoId => leaf[l] # Gone
  <2> TAKE l \in Leaves
  <2>1. CASE under[l] = NoId
    BY <1>1, <2>1
  <2>2. CASE under[l] # NoId
    <3>1. /\ leaf[l] = [s |-> under[l], qty |-> 1, price |-> 1, budget |-> 1]
          /\ under[l] \in subs /\ under[l] \in Subs
      BY <1>1, <2>2
    <3>2. leaf[l] # Gone
      BY <3>1, BOQAssumption DEF SubSubItem
    <3> QED
      BY <2>2, <3>1, <3>2
  <2> QED
    BY <2>1, <2>2
<1>7. \A s \in Subs :
        /\ s \in subs => /\ sub[s] # Gone /\ sub[s].cost = 1 /\ sub[s].budget \in Nat
                         /\ sub[s].budget = IF kids(s) = {} THEN 1 ELSE Cardinality(kids(s))
        /\ s \notin subs => sub[s] = Gone
  <2> TAKE s \in Subs
  <2>1. CASE s \in subs
    <3>1. sub[s] = [cost |-> 1, budget |-> IF kids(s) = {} THEN 1 ELSE Cardinality(kids(s))]
      BY <1>1, <2>1
    <3>2. sub[s] \in SubItem
      BY <1>3, <3>1 DEF SubItem
    <3>3. sub[s] # Gone
      BY <3>2, BOQAssumption
    <3>4. /\ sub[s].cost = 1
          /\ sub[s].budget = IF kids(s) = {} THEN 1 ELSE Cardinality(kids(s))
      BY <3>1
    <3>5. sub[s].budget \in Nat
      BY <3>2 DEF SubItem
    <3> HIDE DEF kids
    <3> QED
      BY <2>1, <3>3, <3>4, <3>5
  <2>2. CASE s \notin subs
    BY <1>1, <2>2
  <2> QED
    BY <2>1, <2>2
<1>8. SubsOf(sub) = subs
  BY <1>7 DEF SubsOf, Exists
<1>9. \A s \in Subs : LeavesOf(leaf, s) = kids(s)
  BY <1>6, BOQAssumption DEF LeavesOf, Exists
<1>10. Total(subs, sub) \in Nat
  <2>1. IsFiniteSet(subs) /\ \A s \in subs : sub[s].budget \in Nat
    BY <1>7, FiniteRows
  <2> QED
    BY <2>1, BillTotalInNat
<1>11. main \in MainItem /\ main.qty \in Typed
       /\ (subs # {} => main.budget = main.qty * Total(subs, sub))
  <2>1. q * Total(subs, sub) \in Nat
    BY <1>2, <1>10
  <2> QED
    BY <1>1, <1>2, <2>1 DEF MainItem
<1>12. main # Gone
  BY <1>11, BOQAssumption
<1>13. RowsTyped
  BY <1>2, <1>4, <1>5, <1>6, <1>7, <1>11 DEF RowsTyped
<1> HIDE DEF kids
<1>14. Agree
  <2>1. LeavesAgree
    BY <1>6 DEF LeavesAgree, LeafAgrees
  <2>2. ASSUME NEW s \in subs PROVE sub[s].budget = SubBudget(s)
    <3>1. s \in Subs /\ LeavesOf(leaf, s) = kids(s)
      BY <1>9
    <3>2. Total(kids(s), leaf) = Cardinality(kids(s))
      <4>1. \A l \in kids(s) : leaf[l].budget = 1
        BY <1>6, <2>2, <3>1, BOQAssumption DEF kids
      <4> QED
        BY <1>3, <4>1, BillTotalOfOnes
    <3> QED
      BY <1>7, <2>2, <3>1, <3>2 DEF SubBudget
  <2>3. SubsAgree(SubsOf(sub)) /\ MainAgrees
    BY <1>8, <1>11, <2>2 DEF SubsAgree, MainAgrees
  <2> QED
    BY <2>1, <2>3 DEF Agree
<1>15. /\ job = [v \in Workers |-> Idle] /\ clean = TRUE /\ causes = {}
       /\ requests = 0 /\ crashes = 0
  BY DEF BOQInit
<1>16. BillTyped
  BY <1>13, <1>15, IdleJob, BOQAssumption DEF BillTyped
<1>17. Parented
  BY <1>6, <1>7, <1>12 DEF Parented
<1>18. \A v \in Workers : job[v].op = "idle"
  BY <1>15, IdleJob
<1> QED
  BY <1>14, <1>15, <1>16, <1>17, <1>18
  DEF BillInv, Single, Agreement, Updates, Updating, AtRest, At

LEMMA BillStep ==
    ASSUME BillInv, [BOQNext]_BOQVars
    PROVE  BillInv'
<1>1. CASE BOQNext
  BY <1>1, TypedStep, AgreementStep DEF BillInv
<1>2. CASE UNCHANGED BOQVars
  <2>1. UNCHANGED <<main, sub, leaf, job, clean, causes, requests, crashes>>
    BY <1>2 DEF BOQVars, rows
  <2>2. BillTyped' /\ Parented'
    BY <2>1, RowsStayTyped, StaysParented DEF BillInv, BillTyped
  <2>3. Single' /\ AtRest' = AtRest
    BY <2>1 DEF BillInv, Single, AtRest, At
  <2>4. \A j : (Agree' <=> Agree) /\ (Repairs(j)' <=> Repairs(j)) /\ (Updates(j)' <=> Updates(j))
    BY <2>1, UnchangedAgree
  <2>5. ASSUME NEW v \in Workers
        PROVE  (Repairs(job[v])' <=> Repairs(job[v])) /\ (Updates(job[v])' <=> Updates(job[v]))
    <3>1. PICK j : j = job[v]
      OBVIOUS
    <3>2. Repairs(job[v])' <=> Repairs(j)'
      BY <2>1, <3>1 DEF Repairs
    <3>3. Updates(job[v])' <=> Updates(j)'
      BY <2>1, <3>1 DEF Updates, Done, DoneLeaves, SubsAgree
    <3> QED
      BY <2>4, <3>1, <3>2, <3>3
  <2>6. Agreement'
    BY <2>1, <2>3, <2>4, <2>5 DEF BillInv, Agreement
  <2> QED
    BY <2>2, <2>3, <2>6 DEF BillInv
<1> QED
  BY <1>1, <1>2

\* Whatever requests overlap, fail or die, no row of a bill is left without its
\* parent (NoOrphanRows; the cascades of collections/setup.go and the saves of
\* boq_edit.go, items.go and boq_delete.go).
THEOREM NoRowIsOrphaned == BOQSpec => []NoOrphanRows
<1>1. BOQInit => BillInv
  BY BOQInitially
<1>2. BillInv /\ [BOQNext]_BOQVars => BillInv'
  BY BillStep
<1>3. BillInv => NoOrphanRows
  BY DEF BillInv, BillTyped, RowsTyped, Parented, NoOrphanRows, BOQTypeOK, Exists,
         SubsOf, MainItem, SubItem, SubSubItem
<1> QED
  BY <1>1, <1>2, <1>3, PTL DEF BOQSpec

\* Deletions, patches and an undisturbed update of the whole bill leave the
\* three levels in agreement, and only the causes named break it
\* (RolledUpUnlessCaused; recalcSubItemBudgeted, recalcMainItemBudgeted,
\* HandleBOQUpdate).
THEOREM BudgetsRollUp == BOQSpec => []RolledUpUnlessCaused
<1>1. BOQInit => BillInv
  BY BOQInitially
<1>2. BillInv /\ [BOQNext]_BOQVars => BillInv'
  BY BillStep
<1>3. BillInv => RolledUpUnlessCaused
  <2>1. SUFFICES ASSUME BillInv, AtRest, causes = {} PROVE RolledUp
    BY DEF RolledUpUnlessCaused
  <2>2. Agree
    BY <2>1 DEF BillInv, Agreement
  <2> QED
    BY <2>2 DEF Agree, LeavesAgree, LeafAgrees, SubsAgree, MainAgrees, RolledUp, Exists,
                SubBudget
<1> QED
  BY <1>1, <1>2, <1>3, PTL DEF BOQSpec

=============================================================================
