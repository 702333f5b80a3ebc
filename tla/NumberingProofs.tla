--------------------------- MODULE NumberingProofs ---------------------------
(* Proofs about Numbering: numbers of one sequence are unique, never skipped *)
(* and only grow, for any number of requests, projects, dates and settings;  *)
(* and about SerialIssue: what issued lines carry, for any lists of serials. *)
EXTENDS Numbering, SerialIssue, FiniteSetTheorems, TLAPS

\* FinancialYear maps every date of the model into Years, so a request's key
\* is always one of Keys.
LEMMA KeyInKeys ==
    ASSUME NEW p \in Projects, NEW t \in SeqTypes, NEW d \in Dates
    PROVE  <<p, t, GetFinancialYear(d)>> \in Keys
BY DEF Keys, Years

LEMMA NoKeyNotInKeys == NoKey \notin Keys
BY DEF NoKey, Keys

LEMMA StartPositive ==
    ASSUME TypeOK, NEW p \in Projects, NEW t \in SeqTypes
    PROVE  EffectiveStart(p, t) \in Nat /\ EffectiveStart(p, t) > 0
<1>1. <<p, t>> \in Projects \X SeqTypes
  OBVIOUS
<1>2. seqStart[<<p, t>>] \in Nat
  BY <1>1 DEF TypeOK
<1>3. QED
  BY <1>2 DEF EffectiveStart

\* The empty wording is one, and reading a wording with its defaults gives one.
LEMMA WordingTypes ==
    /\ Unset \in Style
    /\ \A st \in Style : Defaulted(st) \in Style
<1>1. <<>> \in Text /\ <<"-">> \in Text /\ DefaultFormat \in Text
  <2>1. <<>> \in Text
    BY DEF Text
  <2>2. \A a \in Symbols : <<a>> \in Seq(Symbols)
    OBVIOUS
  <2>3. \A a, b, c, d, e, f, g \in Symbols : <<a, b, c, d, e, f, g>> \in Seq(Symbols)
    OBVIOUS
  <2>4. "-" \in Symbols
    BY SymbolsAssumption
  <2>5. <<"-">> \in Text
    BY <2>2, <2>4, Zenon DEF Text
  <2>6. DefaultFormat \in Text
    BY <2>3, SymbolsAssumption, Zenon DEF Text, DefaultFormat
  <2>7. QED
    BY <2>1, <2>5, <2>6
<1>2. Unset \in Style
  BY <1>1 DEF Unset, Style
<1>3. ASSUME NEW st \in Style PROVE Defaulted(st) \in Style
  BY <1>1 DEF Defaulted, Style
<1>4. QED
  BY <1>2, <1>3

LEMMA InitTypeOK == Init => TypeOK
<1> SUFFICES ASSUME Init PROVE TypeOK
  OBVIOUS
<1>1. style \in [Projects \X Groups -> Style] /\ reference \in [Projects -> Text]
  BY WordingTypes, ReferencesAssumption DEF Init
<1>2. NoSettings \in Settings
  BY WordingTypes DEF NoSettings, Settings, Text
<1>3. QED
  BY <1>1, <1>2 DEF Init, TypeOK

\* The types of all variables, and that a request past "idle" has a key and a
\* positive start number, in every reachable state.
THEOREM TypeCorrect == Spec => []TypeOK
<1>1. Init => TypeOK
  BY InitTypeOK
<1>2. TypeOK /\ [Next]_vars => TypeOK'
  <2> SUFFICES ASSUME TypeOK, [Next]_vars PROVE TypeOK'
    OBVIOUS
  <2>1. CASE \E p \in Projects : SaveSettings(p)
    <3>1. PICK p \in Projects : SaveSettings(p)
      BY <2>1
    <3>2. PICK f \in Forms :
            /\ seqStart' = [pt \in Projects \X SeqTypes |->
                              IF pt[1] = p THEN f.start[pt[2]] ELSE seqStart[pt]]
            /\ style' = [pg \in Projects \X Groups |->
                              IF pg[1] = p THEN f.style[pg[2]] ELSE style[pg]]
      BY <3>1 DEF SaveSettings
    <3>6. f.start \in [SeqTypes -> Nat] /\ f.style \in [Groups -> Style]
      BY <3>2, FormsAssumption
    <3>3. seqStart' \in [Projects \X SeqTypes -> Nat]
      BY <3>2, <3>6 DEF TypeOK
    <3>4. style' \in [Projects \X Groups -> Style]
      BY <3>2, <3>6 DEF TypeOK
    <3>5. QED
      BY <3>1, <3>3, <3>4 DEF SaveSettings, TypeOK
  <2>2. ASSUME NEW r \in Requests, NEW p \in Projects, NEW t \in SeqTypes,
               NEW d \in Dates, ReadSettings(r, p, t, d)
        PROVE  TypeOK'
    <3>1. <<p, t, GetFinancialYear(d)>> \in Keys
      BY KeyInKeys
    <3>2. EffectiveStart(p, t) \in Nat /\ EffectiveStart(p, t) > 0
      BY StartPositive
    <3>0. <<p, ConfigGroupForType(t)>> \in Projects \X Groups
      BY DEF Groups
    <3>3. /\ Defaulted(style[<<p, ConfigGroupForType(t)>>]) \in Style
          /\ reference[p] \in Text
      BY <3>0, WordingTypes DEF TypeOK
    <3>4. [start |-> EffectiveStart(p, t),
           style |-> Defaulted(style[<<p, ConfigGroupForType(t)>>]),
           ref   |-> reference[p]] \in Settings
      BY <3>2, <3>3 DEF Settings
    <3>5. QED
      BY <2>2, <3>1, <3>2, <3>4 DEF ReadSettings, TypeOK
  <2>3. ASSUME NEW r \in Requests, DrawNumber(r)
        PROVE  TypeOK'
    <3>1. key[r] \in Keys /\ cfg[r].start > 0 /\ cfg[r].start \in Nat
      BY <2>3 DEF DrawNumber, TypeOK, Settings
    <3>2. NextNum(key[r], cfg[r].start) \in Nat \ {0}
      BY <3>1 DEF NextNum, TypeOK
    <3>3. QED
      BY <2>3, <3>1, <3>2 DEF DrawNumber, TypeOK
  <2>4. ASSUME NEW r \in Requests, SaveDocument(r) \/ Abort(r) \/ DeleteDocument(r)
        PROVE  TypeOK'
    BY <2>4 DEF SaveDocument, Abort, DeleteDocument, TypeOK
  <2>5. CASE Crash
    BY <2>5 DEF Crash, TypeOK
  <2>6. ASSUME NEW p \in Projects, EditProject(p)
        PROVE  TypeOK'
    <3>1. PICK ref \in References : reference' = [reference EXCEPT ![p] = ref]
      BY <2>6 DEF EditProject
    <3>2. reference' \in [Projects -> Text]
      BY <3>1, ReferencesAssumption DEF TypeOK
    <3>3. QED
      BY <2>6, <3>2 DEF EditProject, TypeOK
  <2>7. CASE UNCHANGED vars
    BY <2>7 DEF vars, TypeOK
  <2>8. QED
    BY <2>1, <2>2, <2>3, <2>4, <2>5, <2>6, <2>7 DEF Next
<1>3. QED
  BY <1>1, <1>2, PTL DEF Spec

-----------------------------------------------------------------------------
\* What one drawing does to its sequence: the new number is the new
\* last_number, above every number drawn before, and follows the old
\* last_number directly unless the row is new.
LEMMA DrawAppends ==
    ASSUME TypeOK, LastIsGreatest, NEW r \in Requests, DrawNumber(r)
    PROVE  /\ r \notin Drawn
           /\ Drawn' = Drawn \cup {r}
           /\ key' = key
           /\ key[r] \in Keys
           /\ seq'[r] \in Nat
           /\ last'[key[r]] = seq'[r]
           /\ \A k \in Keys : k # key[r] => last'[k] = last[k]
           /\ \A s \in Requests : s # r => seq'[s] = seq[s]
           /\ \A s \in Drawn : key[s] = key[r] => seq[s] < seq'[r]
           /\ last[key[r]] # 0 => seq'[r] = last[key[r]] + 1
           /\ last[key[r]] = 0 => \A s \in Drawn : key[s] # key[r]
<1>1. pc[r] = "configured" /\ seq[r] = 0 /\ key[r] \in Keys
  BY DEF DrawNumber, TypeOK
<1>2. cfg[r].start \in Nat /\ cfg[r].start > 0
  BY <1>1 DEF TypeOK, Settings
<1> DEFINE n == NextNum(key[r], cfg[r].start)
<1>3. n \in Nat /\ n > 0 /\ n > last[key[r]] /\ last[key[r]] \in Nat
  BY <1>1, <1>2 DEF NextNum, TypeOK
<1>4. /\ last' = [last EXCEPT ![key[r]] = n]
      /\ seq' = [seq EXCEPT ![r] = n]
      /\ key' = key
  BY DEF DrawNumber
<1>5. /\ last'[key[r]] = n
      /\ seq'[r] = n
      /\ \A k \in Keys : k # key[r] => last'[k] = last[k]
      /\ \A s \in Requests : s # r => seq'[s] = seq[s]
  BY <1>1, <1>4 DEF TypeOK
<1>6. Drawn' = Drawn \cup {r}
  BY <1>3, <1>5 DEF Drawn
<1>7. \A s \in Drawn : /\ seq[s] \in Nat \ {0}
                       /\ seq[s] <= last[key[s]]
  BY DEF TypeOK, Drawn, LastIsGreatest
<1>8. \A s \in Drawn : key[s] = key[r] => seq[s] < n
  BY <1>3, <1>7
<1>9. last[key[r]] = 0 => \A s \in Drawn : key[s] # key[r]
  BY <1>3, <1>7
<1>10. last[key[r]] # 0 => n = last[key[r]] + 1
  BY DEF NextNum
<1> HIDE DEF n
<1>11. r \notin Drawn
  BY <1>1 DEF Drawn
<1>12. QED
  BY <1>1, <1>3, <1>4, <1>5, <1>6, <1>8, <1>9, <1>10, <1>11

\* Every other step leaves the numbers drawn, their keys and the rows alone.
LEMMA OthersKeepNumbers ==
    ASSUME TypeOK, [Next]_vars, \A r \in Requests : ~DrawNumber(r)
    PROVE  /\ seq' = seq
           /\ last' = last
           /\ Drawn' = Drawn
           /\ \A r \in Drawn : key'[r] = key[r]
<1>1. CASE \E p \in Projects : SaveSettings(p) \/ EditProject(p)
  BY <1>1 DEF SaveSettings, EditProject, Drawn
<1>2. ASSUME NEW r \in Requests, NEW p \in Projects, NEW t \in SeqTypes,
             NEW d \in Dates, ReadSettings(r, p, t, d)
      PROVE  /\ seq' = seq
             /\ last' = last
             /\ Drawn' = Drawn
             /\ \A s \in Drawn : key'[s] = key[s]
  <2>1. r \notin Drawn
    BY <1>2 DEF ReadSettings, TypeOK, Drawn
  <2>2. \A s \in Requests : s # r => key'[s] = key[s]
    BY <1>2 DEF ReadSettings, TypeOK
  <2>3. QED
    BY <1>2, <2>1, <2>2 DEF ReadSettings, Drawn
<1>3. ASSUME NEW r \in Requests, SaveDocument(r) \/ Abort(r) \/ DeleteDocument(r)
      PROVE  seq' = seq /\ last' = last /\ key' = key
  BY <1>3 DEF SaveDocument, Abort, DeleteDocument
<1>4. CASE Crash \/ UNCHANGED vars
  BY <1>4 DEF Crash, vars, Drawn
<1>5. QED
  BY <1>1, <1>2, <1>3, <1>4 DEF Next, Drawn

\* The inductive invariant.  LastIsGreatest is what makes the others
\* inductive: a drawing only looks at last_number, so it must bound every
\* number that was handed out.
Inv == TypeOK /\ LastIsGreatest /\ UniqueNumbers /\ NoHoles

LEMMA InitInv == Init => Inv
<1> SUFFICES ASSUME Init PROVE Inv
  OBVIOUS
<1>1. Drawn = {}
  BY DEF Init, Drawn
<1>2. LastIsGreatest
  BY <1>1 DEF Init, LastIsGreatest
<1>3. UniqueNumbers /\ NoHoles
  BY <1>1 DEF UniqueNumbers, NoHoles
<1>4. TypeOK
  BY InitTypeOK
<1>5. QED
  BY <1>2, <1>3, <1>4 DEF Inv

LEMMA DrawKeepsInv ==
    ASSUME Inv, NEW r \in Requests, DrawNumber(r), TypeOK'
    PROVE  Inv'
<1>1. /\ r \notin Drawn
      /\ Drawn' = Drawn \cup {r}
      /\ key' = key
      /\ key[r] \in Keys
      /\ seq'[r] \in Nat
      /\ last'[key[r]] = seq'[r]
      /\ \A k \in Keys : k # key[r] => last'[k] = last[k]
      /\ \A s \in Requests : s # r => seq'[s] = seq[s]
      /\ \A s \in Drawn : key[s] = key[r] => seq[s] < seq'[r]
      /\ last[key[r]] # 0 => seq'[r] = last[key[r]] + 1
      /\ last[key[r]] = 0 => \A s \in Drawn : key[s] # key[r]
  BY DrawAppends DEF Inv
<1>2. \A s \in Drawn : /\ s \in Requests /\ s # r
                       /\ seq[s] \in Nat /\ seq'[s] = seq[s]
                       /\ key[s] \in Keys
  BY <1>1 DEF Inv, TypeOK, Drawn
<1>3. LastIsGreatest'
  <2>1. \A s \in Drawn' : seq'[s] <= last'[key'[s]]
    <3> SUFFICES ASSUME NEW s \in Drawn' PROVE seq'[s] <= last'[key'[s]]
      OBVIOUS
    <3>1. CASE s = r
      BY <1>1, <3>1
    <3>2. CASE s # r /\ key[s] = key[r]
      BY <1>1, <1>2, <3>2
    <3>3. CASE s # r /\ key[s] # key[r]
      BY <1>1, <1>2, <3>3 DEF Inv, LastIsGreatest
    <3>4. QED
      BY <3>1, <3>2, <3>3
  <2>2. ASSUME NEW k \in Keys, last'[k] # 0
        PROVE  \E s \in Drawn' : key'[s] = k /\ seq'[s] = last'[k]
    <3>1. CASE k = key[r]
      BY <1>1, <3>1
    <3>2. CASE k # key[r]
      <4>1. PICK s \in Drawn : key[s] = k /\ seq[s] = last[k]
        BY <1>1, <2>2, <3>2 DEF Inv, LastIsGreatest
      <4>2. QED
        BY <1>1, <1>2, <3>2, <4>1
    <3>3. QED
      BY <3>1, <3>2
  <2>3. QED
    BY <2>1, <2>2 DEF LastIsGreatest
<1>4. UniqueNumbers'
  <2> SUFFICES ASSUME NEW s \in Drawn', NEW u \in Drawn', s # u, key[s] = key[u]
               PROVE  seq'[s] # seq'[u]
    BY <1>1 DEF UniqueNumbers
  <2>1. CASE s = r
    BY <1>1, <1>2, <2>1
  <2>2. CASE u = r
    BY <1>1, <1>2, <2>2
  <2>3. CASE s # r /\ u # r
    BY <1>1, <1>2, <2>3 DEF Inv, UniqueNumbers
  <2>4. QED
    BY <2>1, <2>2, <2>3
<1>5. NoHoles'
  <2> SUFFICES ASSUME NEW s \in Drawn', NEW n \in seq'[s] .. last'[key[s]]
               PROVE  \E u \in Drawn' : key[u] = key[s] /\ seq'[u] = n
    BY <1>1 DEF NoHoles
  <2>1. CASE s = r
    BY <1>1, <2>1
  <2>2. CASE s # r /\ key[s] # key[r]
    <3>1. s \in Drawn /\ n \in seq[s] .. last[key[s]]
      BY <1>1, <1>2, <2>2
    <3>2. PICK u \in Drawn : key[u] = key[s] /\ seq[u] = n
      BY <3>1 DEF Inv, NoHoles
    <3>3. QED
      BY <1>1, <1>2, <3>2
  <2>3. CASE s # r /\ key[s] = key[r] /\ n = seq'[r]
    BY <1>1, <2>3
  <2>4. CASE s # r /\ key[s] = key[r] /\ n # seq'[r]
    <3>1. s \in Drawn /\ last[key[r]] \in Nat /\ last[key[r]] # 0
      BY <1>1, <2>4 DEF Inv, TypeOK
    <3>2. n \in seq[s] .. last[key[s]]
      BY <1>1, <1>2, <2>4, <3>1
    <3>3. PICK u \in Drawn : key[u] = key[s] /\ seq[u] = n
      BY <3>1, <3>2 DEF Inv, NoHoles
    <3>4. QED
      BY <1>1, <1>2, <3>3
  <2>5. QED
    BY <2>1, <2>2, <2>3, <2>4
<1>6. QED
  BY <1>3, <1>4, <1>5 DEF Inv

LEMMA InvIsInductive == Inv /\ TypeOK' /\ [Next]_vars => Inv'
<1> SUFFICES ASSUME Inv, TypeOK', [Next]_vars PROVE Inv'
  OBVIOUS
<1>1. CASE \E r \in Requests : DrawNumber(r)
  BY <1>1, DrawKeepsInv
<1>2. CASE \A r \in Requests : ~DrawNumber(r)
  <2>1. /\ seq' = seq
        /\ last' = last
        /\ Drawn' = Drawn
        /\ \A r \in Drawn : key'[r] = key[r]
    BY <1>2, OthersKeepNumbers DEF Inv
  <2>2. LastIsGreatest'
    BY <2>1 DEF Inv, LastIsGreatest
  <2>3. UniqueNumbers'
    BY <2>1 DEF Inv, UniqueNumbers
  <2>4. NoHoles'
    BY <2>1 DEF Inv, NoHoles
  <2>5. QED
    BY <2>2, <2>3, <2>4 DEF Inv
<1>3. QED
  BY <1>1, <1>2

LEMMA Invariance == Spec => []Inv
<1>1. Inv /\ TypeOK' /\ [Next]_vars => Inv'
  BY InvIsInductive
<1>2. QED
  BY <1>1, InitInv, TypeCorrect, PTL DEF Spec

\* No document number of a sequence is ever handed out twice.
THEOREM NumbersAreUnique == Spec => []UniqueNumbers
<1>1. Inv => UniqueNumbers
  BY DEF Inv
<1>2. QED
  BY <1>1, Invariance, PTL

\* NextDocNumber skips no number of a sequence.
THEOREM SequencesHaveNoHoles == Spec => []NoHoles
<1>1. Inv => NoHoles
  BY DEF Inv
<1>2. QED
  BY <1>1, Invariance, PTL

\* Numbers of a sequence only grow, in every step.
THEOREM NumbersNeverRewind == Spec => NeverRewinds
<1> DEFINE Grows ==
      /\ \A k \in Keys : last'[k] >= last[k]
      /\ \A r \in Requests : seq'[r] # seq[r] =>
           \A s \in Drawn : key[s] = key'[r] => seq'[r] > seq[s]
<1>1. Inv /\ [Next]_vars => [Grows]_vars
  <2> SUFFICES ASSUME Inv, [Next]_vars PROVE Grows
    OBVIOUS
  <2>0. \A k \in Keys : last[k] \in Nat
    BY DEF Inv, TypeOK
  <2>1. CASE \E r \in Requests : DrawNumber(r)
    <3>1. PICK r \in Requests : DrawNumber(r)
      BY <2>1
    <3>2. /\ key' = key
          /\ key[r] \in Keys
          /\ seq'[r] \in Nat
          /\ last'[key[r]] = seq'[r]
          /\ \A k \in Keys : k # key[r] => last'[k] = last[k]
          /\ \A s \in Requests : s # r => seq'[s] = seq[s]
          /\ \A s \in Drawn : key[s] = key[r] => seq[s] < seq'[r]
          /\ last[key[r]] # 0 => seq'[r] = last[key[r]] + 1
      BY <3>1, DrawAppends DEF Inv
    <3>3. \A s \in Drawn : seq[s] \in Nat
      BY DEF Inv, TypeOK, Drawn
    <3>4. \A k \in Keys : last'[k] >= last[k]
      BY <2>0, <3>2
    <3>5. QED
      BY <3>2, <3>3, <3>4
  <2>2. CASE \A r \in Requests : ~DrawNumber(r)
    BY <2>0, <2>2, OthersKeepNumbers DEF Inv
  <2>3. QED
    BY <2>1, <2>2
<1>2. QED
  BY <1>1, Invariance, PTL DEF Spec, NeverRewinds
-----------------------------------------------------------------------------
(* SerialIssue: what the check of serials at the issue is worth, for lists of *)
(* any bounded length.                                                        *)

\* ValidateSerials reports no duplicate in its input exactly for lists without one.
LEMMA NoDuplicatesMeansDistinct ==
    ASSUME NEW s \in Lists
    PROVE  DuplicatesInInput(s) = {} <=> Distinct(s)
<1>1. ASSUME DuplicatesInInput(s) = {}, NEW j \in DOMAIN s, NEW k \in DOMAIN s,
             j # k, s[j] = s[k]
      PROVE  FALSE
  <2>1. s[j] \in Elements(s)
    BY DEF Elements
  <2>2. s[j] \in DuplicatesInInput(s)
    BY <1>1, <2>1 DEF DuplicatesInInput
  <2>3. QED
    BY <1>1, <2>2
<1>2. ASSUME Distinct(s) PROVE DuplicatesInInput(s) = {}
  BY <1>2 DEF Distinct, DuplicatesInInput
<1>3. QED
  BY <1>1, <1>2 DEF Distinct

\* A list without duplicates has as many serials as places.
LEMMA DistinctCount ==
    ASSUME NEW s \in Lists, Distinct(s)
    PROVE  Cardinality(Elements(s)) = Len(s)
<1>1. PICK n \in 0 .. MaxSerials : s \in [1 .. n -> Serials]
  BY DEF Lists
<1>2. n \in Nat /\ DOMAIN s = 1 .. n
  BY <1>1, SerialAssumption
<1>3. Len(s) = n
  BY <1>1, <1>2
<1>4. IsFiniteSet(1 .. n) /\ Cardinality(1 .. n) = n
  BY <1>2, FS_Interval
<1>5. s \in Bijection(1 .. n, Elements(s))
  <2>1. s \in [1 .. n -> Elements(s)]
    BY <1>1, <1>2 DEF Elements
  <2>2. \A j, k \in 1 .. n : s[j] = s[k] => j = k
    BY <1>2 DEF Distinct
  <2>3. \A x \in Elements(s) : \E k \in 1 .. n : s[k] = x
    BY <1>2 DEF Elements
  <2>4. QED
    BY <2>1, <2>2, <2>3 DEF Bijection, Injection, IsInjective, Surjection
<1>6. ExistsBijection(1 .. n, Elements(s))
  BY <1>5 DEF ExistsBijection
<1>7. QED
  BY <1>3, <1>4, <1>6, FS_Bijection

\* The check of a line accepts its serials only if none is there twice, whatever
\* it says of their number.
LEMMA UniquePassesMeansDistinct ==
    ASSUME NEW l \in Line \cup {NoLine}, NEW existing, UniquePasses(l, existing)
    PROVE  Distinct(l.serials)
<1>1. CASE l = NoLine
  BY <1>1 DEF NoLine, Distinct
<1>2. CASE l \in Line
  <2>1. l.serials \in Lists
    BY <1>2 DEF Line
  <2>2. CASE Len(l.serials) > 0
    <3>1. DuplicatesInInput(l.serials) = {}
      BY <2>2 DEF UniquePasses, ValidateSerials
    <3>2. QED
      BY <2>1, <3>1, NoDuplicatesMeansDistinct
  <2>3. CASE ~(Len(l.serials) > 0)
    <3>1. PICK n \in 0 .. MaxSerials : l.serials \in [1 .. n -> Serials]
      BY <2>1 DEF Lists
    <3>2. n \in Nat /\ Len(l.serials) = n
      BY <3>1, SerialAssumption
    <3>3. DOMAIN l.serials = {}
      BY <2>3, <3>1, <3>2
    <3>4. QED
      BY <3>3 DEF Distinct
  <2>4. QED
    BY <2>2, <2>3
<1>3. QED
  BY <1>1, <1>2

-----------------------------------------------------------------------------
\* The tables keep their types, and a challan that is not there has no lines.
THEOREM SerialsTypeCorrect == SerialSpec => []SerialTypeOK
<1>1. SerialInit => SerialTypeOK
  BY DEF SerialInit, SerialTypeOK, Tracking
<1>2. SerialTypeOK /\ [SerialNext]_SerialVars => SerialTypeOK'
  <2> SUFFICES ASSUME SerialTypeOK, [SerialNext]_SerialVars PROVE SerialTypeOK'
    OBVIOUS
  <2>1. ASSUME NEW t \in Templates, NEW rows \in [Items -> Tracking], SaveTemplate(t, rows)
        PROVE  SerialTypeOK'
    BY <2>1 DEF SaveTemplate, SerialTypeOK
  <2>2. ASSUME NEW d \in DCs, NEW lines \in [Items -> Line \cup {NoLine}],
               NEW t \in Templates, CreateChallan(d, t, lines)
        PROVE  SerialTypeOK'
    BY <2>2 DEF CreateChallan, SerialTypeOK
  <2>3. ASSUME NEW d \in DCs, NEW lines \in [Items -> Line \cup {NoLine}],
               NEW p \in DCs, CreateSplit(d, p, lines)
        PROVE  SerialTypeOK'
    BY <2>3 DEF CreateSplit, SerialTypeOK
  <2>4. ASSUME NEW d \in DCs, IssueChallan(d)
        PROVE  SerialTypeOK'
    BY <2>4 DEF IssueChallan, SerialTypeOK
  <2>5. ASSUME NEW d \in DCs, DeleteChallan(d)
        PROVE  SerialTypeOK'
    BY <2>5 DEF DeleteChallan, SerialTypeOK
  <2>6. CASE UNCHANGED SerialVars
    BY <2>6 DEF SerialVars, SerialTypeOK
  <2>7. QED
    BY <2>1, <2>2, <2>3, <2>4, <2>5, <2>6 DEF SerialNext
<1>3. QED
  BY <1>1, <1>2, PTL DEF SerialSpec

\* The issue lets a challan through only with lines that list no serial twice.
LEMMA IssueFindsDistinct ==
    ASSUME SerialTypeOK, NEW d \in DCs, IssueChallan(d), NEW i \in Items
    PROVE  Distinct(line[d][i].serials)
<1>1. line[d][i] \in Line \cup {NoLine}
  BY DEF SerialTypeOK
<1>2. PICK found \in TrackingFound(i) : LinePasses(d, i, found)
  BY DEF IssueChallan
<1>3. CASE line[d][i] = NoLine
  BY <1>3 DEF NoLine, Distinct
<1>4. CASE line[d][i] # NoLine
  <2>1. UniquePasses(line[d][i], ExistingSerials(d))
    BY <1>2, <1>4 DEF LinePasses
  <2>2. QED
    BY <1>1, <2>1, UniquePassesMeansDistinct
<1>5. QED
  BY <1>3, <1>4

\* No line of an issued challan ever lists a serial twice: every other request
\* leaves the lines of an issued challan alone, and the issue finds them distinct.
THEOREM IssuedLinesStayDistinct == SerialSpec => []IssuedLinesDistinct
<1>1. SerialInit => IssuedLinesDistinct
  BY DEF SerialInit, IssuedLinesDistinct, SerialTypeOK, Tracking
<1>2. IssuedLinesDistinct /\ SerialTypeOK' /\ [SerialNext]_SerialVars => IssuedLinesDistinct'
  <2> SUFFICES ASSUME IssuedLinesDistinct, SerialTypeOK', [SerialNext]_SerialVars,
                      NEW d \in DCs, status'[d] = "issued", NEW i \in Items
               PROVE  Distinct(line'[d][i].serials)
    BY DEF IssuedLinesDistinct, Distinct
  <2>0. SerialTypeOK
    BY DEF IssuedLinesDistinct
  <2>1. ASSUME status[d] = "issued", line'[d] = line[d]
        PROVE  Distinct(line'[d][i].serials)
    BY <2>1 DEF IssuedLinesDistinct
  <2>2. ASSUME NEW t \in Templates, NEW rows \in [Items -> Tracking], SaveTemplate(t, rows)
        PROVE  Distinct(line'[d][i].serials)
    BY <2>1, <2>2 DEF SaveTemplate
  <2>3. ASSUME NEW e \in DCs, NEW lines \in [Items -> Line \cup {NoLine}],
               \/ \E t \in Templates : CreateChallan(e, t, lines)
               \/ \E p \in DCs : CreateSplit(e, p, lines)
        PROVE  Distinct(line'[d][i].serials)
    <3>1. status' = [status EXCEPT ![e] = "draft"] /\ line' = [line EXCEPT ![e] = lines]
      BY <2>3 DEF CreateChallan, CreateSplit
    <3>2. d # e /\ status[d] = "issued" /\ line'[d] = line[d]
      BY <2>0, <3>1 DEF SerialTypeOK
    <3>3. QED
      BY <2>1, <3>2
  <2>4. ASSUME NEW e \in DCs, IssueChallan(e)
        PROVE  Distinct(line'[d][i].serials)
    <3>1. line' = line /\ (d # e => status[d] = "issued")
      BY <2>0, <2>4 DEF IssueChallan, SerialTypeOK
    <3>2. CASE d = e
      BY <2>0, <2>4, <3>1, <3>2, IssueFindsDistinct
    <3>3. CASE d # e
      BY <2>1, <3>1, <3>3
    <3>4. QED
      BY <3>2, <3>3
  <2>5. ASSUME NEW e \in DCs, DeleteChallan(e)
        PROVE  Distinct(line'[d][i].serials)
    <3>1. d # e /\ status[d] = "issued" /\ line'[d] = line[d]
      BY <2>0, <2>5 DEF DeleteChallan, SerialTypeOK
    <3>2. QED
      BY <2>1, <3>1
  <2>6. CASE UNCHANGED SerialVars
    BY <2>1, <2>6 DEF SerialVars
  <2>7. QED
    BY <2>2, <2>3, <2>4, <2>5, <2>6 DEF SerialNext
<1>3. QED
  BY <1>1, <1>2, SerialsTypeCorrect, PTL DEF SerialSpec

\* When every template that lists an item requires serials, a line of it is issued
\* with exactly as many different serials as pieces.
THEOREM RequiredAreCounted == SerialSpec => RequiredIsCounted
<1> DEFINE Counted == \A d \in DCs, i \in Items :
          /\ status[d] = "draft" /\ status'[d] = "issued"
          /\ line[d][i] # NoLine
          /\ TrackingFound(i) = {"required"}
          => Cardinality(Elements(line[d][i].serials)) = line[d][i].qty
<1>1. SerialTypeOK /\ [SerialNext]_SerialVars => [Counted]_SerialVars
  <2> SUFFICES ASSUME SerialTypeOK, [SerialNext]_SerialVars, NEW d \in DCs, NEW i \in Items,
                      status[d] = "draft", status'[d] = "issued",
                      line[d][i] # NoLine, TrackingFound(i) = {"required"}
               PROVE  Cardinality(Elements(line[d][i].serials)) = line[d][i].qty
    OBVIOUS
  <2>1. IssueChallan(d)
    BY DEF SerialNext, SerialVars, SaveTemplate, CreateChallan, CreateSplit, IssueChallan,
           DeleteChallan, SerialTypeOK
  <2>2. line[d][i] \in Line
    BY DEF SerialTypeOK
  <2>3. /\ line[d][i].qty \in Qtys \ {0}
        /\ line[d][i].serials \in Lists
    BY <2>2 DEF Line
  <2>4. line[d][i].qty \in Nat /\ line[d][i].qty # 0
    BY <2>3, SerialAssumption
  <2>5. line[d][i].qty > 0
    BY <2>4
  <2>6. CountPasses(line[d][i], "required")
    BY <2>1 DEF IssueChallan, LinePasses
  <2>7. Len(line[d][i].serials) = line[d][i].qty
    BY <2>5, <2>6 DEF CountPasses
  <2>8. Distinct(line[d][i].serials)
    BY <2>1, IssueFindsDistinct
  <2>9. QED
    BY <2>3, <2>7, <2>8, DistinctCount
<1>2. QED
  BY <1>1, SerialsTypeCorrect, PTL DEF SerialSpec, RequiredIsCounted
=============================================================================
