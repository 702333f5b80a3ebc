-------------------------- MODULE PurchasingProofs ---------------------------
(* Proofs about Purchasing, for any vendors, orders, lines and number of      *)
(* overlapping requests.  None of the requests runs in a transaction, so each *)
(* invariant has a part about what a request that has looked and not yet      *)
(* written still has in hand.                                                 *)
EXTENDS Purchasing, WellFoundedInduction, TLAPS

\* What the requests may be in the middle of.
Jobs ==
    {Idle}
    \cup [op : {"link"}, kind : {"link"}, id : Vendors, new : {None}]
    \cup [op : {"unlink"}, kind : {"unlink"}, id : Vendors, new : {None}]
    \cup [op : {"delVendor"}, kind : {"delete"}, id : Vendors, new : {None}]
    \cup [op : {"order"}, kind : {"order"}, id : Vendors, new : {None}]
    \cup [op : {"update"}, kind : {"status"}, id : Orders, new : Status \cup {None}]
    \cup [op : {"delOrder"}, kind : {"status"}, id : Orders, new : {None}]
    \cup [op : {"line"}, kind : {"line"}, id : Orders, new : 1..MaxOrder]

OrderRows == [vendor : Vendors, status : Status]
LineRows == [po : Orders, order : 1..MaxOrder]

\* TypeOK with the shape of every job.
Types ==
    /\ vendors \subseteq Vendors
    /\ links \in [Vendors -> Nat]
    /\ po \in [Orders -> OrderRows \cup {Gone}]
    /\ line \in [Lines -> LineRows \cup {Gone}]
    /\ job \in [Workers -> Jobs]
    /\ past \in [Orders -> SUBSET Status]
    /\ raced \subseteq Conflicts

\* The requests that change the status of an order, or delete it.
Deciding(w) == At(w, "update") \/ At(w, "delOrder")

\* A vendor is linked twice, or about to be, only if two that link overlapped.
LinkedOnce ==
    /\ \A v \in Vendors : links[v] > 1 => {"link"} \in raced
    /\ \A w \in Workers : At(w, "link") /\ links[job[w].id] > 0 => {"link"} \in raced
    /\ \A w, x \in Workers : w # x /\ At(w, "link") /\ At(x, "link")
          /\ job[w].id = job[x].id => {"link"} \in raced

\* The vendor of an order, or of the form of one, is unlinked only if an order
\* and an unlinking overlapped.
OrdersLinked ==
    /\ \A o \in Orders : Exists(po[o]) /\ links[po[o].vendor] = 0
          => {"order", "unlink"} \in raced
    /\ \A w \in Workers : At(w, "order") /\ job[w].id \in vendors /\ links[job[w].id] = 0
          => {"order", "unlink"} \in raced
    /\ \A w \in Workers, o \in Orders :
          At(w, "unlink") /\ Exists(po[o]) /\ po[o].vendor = job[w].id
             => {"order", "unlink"} \in raced
    /\ \A w, x \in Workers : At(w, "order") /\ At(x, "unlink")
          => {"order", "unlink"} \in raced

\* Two lines share a place, or are about to, only if two additions overlapped.
LinesApart ==
    /\ \A l, m \in Lines : l # m /\ Exists(line[l]) /\ Exists(line[m]) /\ line[l] = line[m]
          => {"line"} \in raced
    /\ \A w \in Workers, l \in Lines :
          At(w, "line") /\ Exists(line[l]) /\ line[l].po = job[w].id
          /\ line[l].order >= job[w].new => {"line"} \in raced
    /\ \A w, x \in Workers : w # x /\ At(w, "line") /\ At(x, "line") => {"line"} \in raced

\* What an update that has read an order may still rely on.
Checks ==
    /\ \A o \in Orders : Exists(po[o]) => po[o].status \in past[o]
    /\ \A w \in Workers : At(w, "update") /\ job[w].new # None /\ Exists(po[job[w].id]) =>
          /\ job[w].new # "draft"
          /\ job[w].new = "completed" => "acknowledged" \in past[job[w].id]
          /\ job[w].new = "acknowledged" => "sent" \in past[job[w].id]
          /\ {"status"} \notin raced =>
                isValidStatusTransition(po[job[w].id].status, job[w].new)
    /\ \A w, x \in Workers : w # x /\ Deciding(w) /\ Deciding(x) => {"status"} \in raced

\* The inductive invariant.
IInv ==
    /\ Types /\ NoDangling
    /\ LinkedOnce /\ OrdersLinked /\ LinesApart
    /\ StagesInOrder /\ Checks

-----------------------------------------------------------------------------
\* A nonempty set of natural numbers has a least, and one of numbers up to n a
\* greatest.
LEMMA MinExists ==
    ASSUME NEW S \in SUBSET Nat, S # {}
    PROVE  \E m \in S : \A k \in S : m <= k
<1> DEFINE R == OpToRel(<, Nat)
<1>1. IsWellFoundedOn(R, Nat)
  BY NatLessThanWellFounded
<1>2. \A k, m \in Nat : <<k, m>> \in R <=> k < m
  BY DEF OpToRel
<1> HIDE DEF R
<1>3. PICK m \in S : \A k \in S : ~(<<k, m>> \in R)
  BY <1>1, WFMin
<1>4. ASSUME NEW k \in S PROVE m <= k
  <2>1. k \in Nat /\ m \in Nat /\ ~(<<k, m>> \in R)
    BY <1>3
  <2>2. ~(k < m)
    BY <1>2, <2>1
  <2>3. QED
    BY <2>1, <2>2
<1>5. QED
  BY <1>4

LEMMA MaxExists ==
    ASSUME NEW n \in Nat, NEW S \in SUBSET (0..n), S # {}
    PROVE  Max(S) \in S /\ \A x \in S : Max(S) >= x
<1> DEFINE Up == {k \in Nat : \A x \in S : k >= x}
<1>1. n \in Up
  OBVIOUS
<1>2. PICK m \in Up : \A k \in Up : m <= k
  BY <1>1, MinExists
<1>3. m \in S
  <2>1. SUFFICES ASSUME m \notin S PROVE FALSE
    OBVIOUS
  <2>2. PICK x \in S : TRUE
    OBVIOUS
  <2>3. m > x
    BY <2>1, <2>2
  <2>4. m - 1 \in Up
    BY <2>1, <2>3
  <2>5. QED
    BY <1>2, <2>4
<1>4. QED
  BY <1>2, <1>3 DEF Max

\* The place read for a new line is behind every line of its order.
LEMMA NextPlaceIsLast ==
    ASSUME Types, NEW o \in Orders
    PROVE  /\ getNextSortOrder(o) \in Nat \ {0}
           /\ \A l \in LinesOf(o) : line[l].order < getNextSortOrder(o)
<1> DEFINE S == {line[l].order : l \in LinesOf(o)} \cup {0}
<1>1. \A l \in LinesOf(o) : line[l].order \in 1..MaxOrder
  BY DEF LinesOf, Exists, Types, LineRows
<1>2. S \in SUBSET (0..MaxOrder) /\ S # {} /\ MaxOrder \in Nat
  BY <1>1, PurchasingAssumption
<1>3. Max(S) \in S /\ \A x \in S : Max(S) >= x
  BY <1>2, MaxExists
<1>4. \A l \in LinesOf(o) : line[l].order \in S
  OBVIOUS
<1>5. getNextSortOrder(o) = Max(S) + 1
  BY DEF getNextSortOrder
<1> HIDE DEF S
<1>6. Max(S) \in 0..MaxOrder
  BY <1>2, <1>3
<1>7. QED
  BY <1>1, <1>2, <1>3, <1>4, <1>5, <1>6

-----------------------------------------------------------------------------
\* The beginning of a request: what it wrote down for itself, and which overlaps
\* it noticed.
LEMMA BeginsShape ==
    ASSUME Types, NEW w \in Workers, NEW op, NEW kind, NEW id, NEW new,
           Begins(w, op, kind, id, new)
    PROVE  /\ job'[w].op = op /\ job'[w].kind = kind /\ job'[w].id = id /\ job'[w].new = new
           /\ \A x \in Workers : x # w => job'[x] = job[x]
           /\ job' = [job EXCEPT ![w] = [op |-> op, kind |-> kind, id |-> id, new |-> new]]
           /\ raced \subseteq raced' /\ raced' \subseteq Conflicts
           /\ \A x \in Workers : x # w /\ {kind, job[x].kind} \in Conflicts
                 => {kind, job[x].kind} \in raced'
           /\ vendors' = vendors /\ links' = links /\ po' = po /\ line' = line /\ past' = past
<1>1. job' = [job EXCEPT ![w] = [op |-> op, kind |-> kind, id |-> id, new |-> new]]
  BY DEF Begins
<1>2. job'[w] = [op |-> op, kind |-> kind, id |-> id, new |-> new]
  BY <1>1 DEF Types
<1>3. \A x \in Workers : x # w => job'[x] = job[x]
  BY <1>1 DEF Types
<1>4. raced' = raced \cup (Conflicts \cap {{kind, job[x].kind} : x \in Workers \ {w}})
  BY DEF Begins
<1>5. raced \subseteq raced' /\ raced' \subseteq Conflicts
  BY <1>4 DEF Types
<1>6. \A x \in Workers : x # w /\ {kind, job[x].kind} \in Conflicts
         => {kind, job[x].kind} \in raced'
  BY <1>4
<1>7. vendors' = vendors /\ links' = links /\ po' = po /\ line' = line /\ past' = past
  BY DEF Begins, db
<1>8. QED
  BY <1>1, <1>2, <1>3, <1>5, <1>6, <1>7

\* A job in hand has the fields of its kind.
LEMMA JobShape ==
    ASSUME Types, NEW w \in Workers
    PROVE  /\ At(w, "idle") => job[w] = Idle
           /\ At(w, "link") => job[w].kind = "link" /\ job[w].id \in Vendors
           /\ At(w, "unlink") => job[w].kind = "unlink" /\ job[w].id \in Vendors
           /\ At(w, "delVendor") => job[w].kind = "delete" /\ job[w].id \in Vendors
           /\ At(w, "order") => job[w].kind = "order" /\ job[w].id \in Vendors
           /\ At(w, "update") => /\ job[w].kind = "status" /\ job[w].id \in Orders
                                 /\ job[w].new \in Status \cup {None}
           /\ At(w, "delOrder") => job[w].kind = "status" /\ job[w].id \in Orders
           /\ At(w, "line") => /\ job[w].kind = "line" /\ job[w].id \in Orders
                               /\ job[w].new \in 1..MaxOrder
<1>1. job[w] \in Jobs
  BY DEF Types
<1>2. QED
  BY <1>1 DEF Jobs, At, Idle

LEMMA TypesStep == Types /\ [Next]_vars => Types'
<1> SUFFICES ASSUME Types, [Next]_vars PROVE Types'
  OBVIOUS
<1>1. ASSUME NEW w \in Workers, HandleVendorSave(w) PROVE Types'
  <2>1. PICK v \in Vendors \ (vendors \cup Mentioned) :
          /\ vendors' = vendors \cup {v}
          /\ \/ job' = [job EXCEPT ![w] = [op |-> "link", kind |-> "link", id |-> v, new |-> None]]
             \/ UNCHANGED job
    BY <1>1 DEF HandleVendorSave
  <2>2. [op |-> "link", kind |-> "link", id |-> v, new |-> None] \in Jobs
    BY DEF Jobs
  <2>3. job' \in [Workers -> Jobs]
    BY <2>1, <2>2 DEF Types
  <2>4. QED
    BY <1>1, <2>1, <2>3 DEF HandleVendorSave, Types
<1>2. ASSUME NEW w \in Workers, FindLink(w) PROVE Types'
  <2>1. PICK v \in vendors : Begins(w, "link", "link", v, None)
    BY <1>2 DEF FindLink
  <2>2. [op |-> "link", kind |-> "link", id |-> v, new |-> None] \in Jobs
    BY DEF Types, Jobs
  <2>3. QED
    BY <2>1, <2>2, BeginsShape DEF Types
<1>3. ASSUME NEW w \in Workers, FindOrders(w) PROVE Types'
  <2>1. PICK v \in Vendors : Begins(w, "unlink", "unlink", v, None)
    BY <1>3 DEF FindOrders
  <2>2. [op |-> "unlink", kind |-> "unlink", id |-> v, new |-> None] \in Jobs
    BY DEF Jobs
  <2>3. QED
    BY <2>1, <2>2, BeginsShape DEF Types
<1>4. ASSUME NEW w \in Workers, FindVendor(w) PROVE Types'
  <2>1. PICK v \in vendors : Begins(w, "delVendor", "delete", v, None)
    BY <1>4 DEF FindVendor
  <2>2. [op |-> "delVendor", kind |-> "delete", id |-> v, new |-> None] \in Jobs
    BY DEF Types, Jobs
  <2>3. QED
    BY <2>1, <2>2, BeginsShape DEF Types
<1>5. ASSUME NEW w \in Workers, HandlePOCreate(w) PROVE Types'
  <2>1. PICK v \in vendors : Begins(w, "order", "order", v, None)
    BY <1>5 DEF HandlePOCreate
  <2>2. [op |-> "order", kind |-> "order", id |-> v, new |-> None] \in Jobs
    BY DEF Types, Jobs
  <2>3. QED
    BY <2>1, <2>2, BeginsShape DEF Types
<1>6. ASSUME NEW w \in Workers, ReadOrder(w) PROVE Types'
  <2>1. PICK o \in Orders, new \in Status \cup {None} :
          Begins(w, "update", "status", o, IF new = po[o].status THEN None ELSE new)
    BY <1>6 DEF ReadOrder
  <2>2. [op |-> "update", kind |-> "status", id |-> o,
         new |-> IF new = po[o].status THEN None ELSE new] \in Jobs
    BY DEF Jobs
  <2>3. QED
    BY <2>1, <2>2, BeginsShape DEF Types
<1>7. ASSUME NEW w \in Workers, FindDraft(w) PROVE Types'
  <2>1. PICK o \in Orders : Begins(w, "delOrder", "status", o, None)
    BY <1>7 DEF FindDraft
  <2>2. [op |-> "delOrder", kind |-> "status", id |-> o, new |-> None] \in Jobs
    BY DEF Jobs
  <2>3. QED
    BY <2>1, <2>2, BeginsShape DEF Types
<1>8. ASSUME NEW w \in Workers, FindPlace(w) PROVE Types'
  <2>1. PICK o \in Orders : /\ getNextSortOrder(o) <= MaxOrder
                            /\ Begins(w, "line", "line", o, getNextSortOrder(o))
    BY <1>8 DEF FindPlace
  <2>2. getNextSortOrder(o) \in 1..MaxOrder
    BY <2>1, NextPlaceIsLast, PurchasingAssumption
  <2>3. [op |-> "line", kind |-> "line", id |-> o, new |-> getNextSortOrder(o)] \in Jobs
    BY <2>2 DEF Jobs
  <2>4. QED
    BY <2>1, <2>3, BeginsShape DEF Types
<1>9. Idle \in Jobs
  BY DEF Jobs
<1>10. ASSUME NEW w \in Workers, SaveLink(w) PROVE Types'
  BY <1>9, <1>10, JobShape DEF SaveLink, Ends, Types
<1>11. ASSUME NEW w \in Workers, DeleteLink(w) PROVE Types'
  BY <1>9, <1>11, JobShape DEF DeleteLink, Ends, Types
<1>12. ASSUME NEW w \in Workers, DeleteVendor(w) PROVE Types'
  BY <1>9, <1>12, JobShape DEF DeleteVendor, Ends, Types
<1>13. ASSUME NEW w \in Workers, HandlePOSave(w) PROVE Types'
  BY <1>9, <1>13, JobShape DEF HandlePOSave, Ends, Types, OrderRows, Status
<1>14. ASSUME NEW w \in Workers, SaveOrder(w) PROVE Types'
  <2>1. job[w].id \in Orders /\ job[w].new \in Status \cup {None}
    BY <1>14, JobShape DEF SaveOrder
  <2>2. po' \in [Orders -> OrderRows \cup {Gone}]
    BY <1>14, <2>1 DEF SaveOrder, Types, OrderRows, Exists
  <2>3. past' \in [Orders -> SUBSET Status]
    BY <1>14, <2>1 DEF SaveOrder, Types
  <2>4. QED
    BY <1>9, <1>14, <2>2, <2>3 DEF SaveOrder, Ends, Types
<1>15. ASSUME NEW w \in Workers, DeleteOrder(w) PROVE Types'
  BY <1>9, <1>15, JobShape DEF DeleteOrder, WithoutLines, Ends, Types
<1>16. ASSUME NEW w \in Workers, SaveLine(w) PROVE Types'
  BY <1>9, <1>16, JobShape DEF SaveLine, Ends, Types, LineRows
<1>17. ASSUME NEW w \in Workers, HandlePODeleteLineItem(w) PROVE Types'
  BY <1>17 DEF HandlePODeleteLineItem, Types
<1>18. CASE Crash
  BY <1>9, <1>18 DEF Crash, db, Types
<1>19. CASE UNCHANGED vars
  BY <1>19 DEF vars, db, Types
<1>20. QED
  BY <1>1, <1>2, <1>3, <1>4, <1>5, <1>6, <1>7, <1>8, <1>10, <1>11, <1>12, <1>13, <1>14,
     <1>15, <1>16, <1>17, <1>18, <1>19 DEF Next

\* A stored row is a record of its table.
LEMMA StoredRows ==
    ASSUME Types
    PROVE  /\ \A o \in Orders : Exists(po[o]) => po[o] \in OrderRows
           /\ \A l \in Lines : Exists(line[l]) => line[l] \in LineRows
BY DEF Types, Exists

\* A row that is written is never the mark of a row that is gone.
LEMMA WrittenRowsExist ==
    /\ \A r \in OrderRows : Exists(r)
    /\ \A r \in LineRows : Exists(r)
<1>1. ASSUME NEW r \in OrderRows PROVE Exists(r)
  BY PurchasingAssumption DEF Exists, OrderRows
<1>2. ASSUME NEW r \in LineRows PROVE Exists(r)
  <2>1. r \in [po : Orders, order : Nat]
    BY PurchasingAssumption DEF LineRows
  <2>2. QED
    BY <2>1, PurchasingAssumption DEF Exists
<1>3. QED
  BY <1>1, <1>2

\* The steps that read or end and leave the rows alone.
Reads(w) ==
    \/ FindLink(w) \/ FindOrders(w) \/ FindVendor(w) \/ HandlePOCreate(w)
    \/ ReadOrder(w) \/ FindDraft(w) \/ FindPlace(w)

LEMMA ReadsKeepRows ==
    ASSUME NEW w \in Workers, Reads(w)
    PROVE  UNCHANGED <<vendors, links, po, line, past>>
BY DEF Reads, FindLink, FindOrders, FindVendor, HandlePOCreate, ReadOrder, FindDraft,
       FindPlace, Begins, db

\* The rows refer to rows that exist, whatever overlaps: a save looks at the row
\* it names at the moment of the write, and a deletion takes along what cascades.
LEMMA NoDanglingStep == Types /\ Types' /\ NoDangling /\ [Next]_vars => NoDangling'
<1> SUFFICES ASSUME Types, Types', NoDangling, [Next]_vars PROVE NoDangling'
  OBVIOUS
<1> DEFINE Linked == \A v \in Vendors : links[v] > 0 => v \in vendors
           Ordered == \A o \in Orders : Exists(po[o]) => po[o].vendor \in vendors
           Lined == \A l \in Lines : Exists(line[l]) => Exists(po[line[l].po])
<1>0. Linked /\ Ordered /\ Lined
  BY DEF NoDangling
<1>1. SUFFICES Linked' /\ Ordered' /\ Lined'
  BY DEF NoDangling, Types, TypeOK, OrderRows, LineRows, Exists
<1>2. ASSUME NEW w \in Workers, HandleVendorSave(w) PROVE Linked' /\ Ordered' /\ Lined'
  BY <1>0, <1>2 DEF HandleVendorSave, Exists
<1>3. ASSUME NEW w \in Workers, Reads(w) PROVE Linked' /\ Ordered' /\ Lined'
  BY <1>0, <1>3, ReadsKeepRows DEF Exists
<1>4. ASSUME NEW w \in Workers, SaveLink(w) PROVE Linked' /\ Ordered' /\ Lined'
  <2>1. Linked'
    BY <1>0, <1>4, JobShape DEF SaveLink, Types
  <2>2. QED
    BY <1>0, <1>4, <2>1 DEF SaveLink, Exists
<1>5. ASSUME NEW w \in Workers, DeleteLink(w) PROVE Linked' /\ Ordered' /\ Lined'
  <2>1. Linked'
    BY <1>0, <1>5, JobShape DEF DeleteLink, Types
  <2>2. QED
    BY <1>0, <1>5, <2>1 DEF DeleteLink, Exists
<1>6. ASSUME NEW w \in Workers, DeleteVendor(w) PROVE Linked' /\ Ordered' /\ Lined'
  <2>1. job[w].id \in Vendors
    BY <1>6, JobShape DEF DeleteVendor
  <2>2. CASE Required(job[w].id)
    BY <1>0, <1>6, <2>2 DEF DeleteVendor, Exists
  <2>3. CASE ~Required(job[w].id)
    <3>1. Linked'
      BY <1>0, <1>6, <2>1, <2>3 DEF DeleteVendor, Types
    <3>2. \A o \in Orders : Exists(po[o]) => po[o].vendor # job[w].id
      BY <2>3 DEF Required, OrdersOf
    <3>3. Ordered'
      BY <1>0, <1>6, <2>3, <3>2 DEF DeleteVendor, Exists
    <3>4. QED
      BY <1>0, <1>6, <3>1, <3>3 DEF DeleteVendor, Exists
  <2>4. QED
    BY <2>2, <2>3
<1>7. ASSUME NEW w \in Workers, HandlePOSave(w) PROVE Linked' /\ Ordered' /\ Lined'
  <2>1. CASE UNCHANGED po
    BY <1>0, <1>7, <2>1 DEF HandlePOSave, Exists
  <2>2. ASSUME NEW o \in Orders, ~Exists(po[o]), job[w].id \in vendors,
               po' = [po EXCEPT ![o] = [vendor |-> job[w].id, status |-> "draft"]]
        PROVE  Linked' /\ Ordered' /\ Lined'
    <3>1. [vendor |-> job[w].id, status |-> "draft"] \in OrderRows
      BY <2>2 DEF Types, OrderRows, Status
    <3>2. Exists(po'[o])
      BY <2>2, <3>1, WrittenRowsExist DEF Types
    <3>3. Ordered'
      BY <1>0, <1>7, <2>2 DEF HandlePOSave, Types, Exists
    <3>4. \A l \in Lines : Exists(line[l]) => line[l].po \in Orders
      BY StoredRows DEF LineRows
    <3>5. Lined'
      BY <1>0, <1>7, <2>2, <3>2, <3>4 DEF HandlePOSave, Types, Exists
    <3>6. QED
      BY <1>0, <1>7, <3>3, <3>5 DEF HandlePOSave
  <2>3. QED
    BY <1>7, <2>1, <2>2 DEF HandlePOSave
<1>8. ASSUME NEW w \in Workers, SaveOrder(w) PROVE Linked' /\ Ordered' /\ Lined'
  <2> DEFINE o == job[w].id
  <2>1. CASE UNCHANGED po
    BY <1>0, <1>8, <2>1 DEF SaveOrder, Exists
  <2>2. CASE Exists(po[o]) /\ job[w].new # None
    <3>1. o \in Orders /\ job[w].new \in Status
      BY <1>8, <2>2, JobShape DEF SaveOrder
    <3>2. po' = [po EXCEPT ![o].status = job[w].new]
      BY <1>8, <2>2 DEF SaveOrder
    <3>3. po[o] \in OrderRows
      BY <2>2, <3>1, StoredRows
    <3>4. po'[o] = [po[o] EXCEPT !.status = job[w].new]
      BY <3>1, <3>2 DEF Types
    <3>5. po'[o] \in OrderRows /\ po'[o].vendor = po[o].vendor
      BY <3>1, <3>3, <3>4 DEF OrderRows
    <3>6. Exists(po'[o])
      BY <3>5, WrittenRowsExist
    <3>7. \A p \in Orders : p # o => po'[p] = po[p]
      BY <3>2 DEF Types
    <3>8. \A l \in Lines : Exists(line[l]) => line[l].po \in Orders
      BY StoredRows DEF LineRows
    <3>9. Ordered'
      BY <1>0, <1>8, <2>2, <3>5, <3>7 DEF SaveOrder
    <3>10. Lined'
      BY <1>0, <1>8, <3>6, <3>7, <3>8 DEF SaveOrder
    <3>11. QED
      BY <1>0, <1>8, <3>9, <3>10 DEF SaveOrder
  <2>3. QED
    BY <1>8, <2>1, <2>2 DEF SaveOrder
<1>9. ASSUME NEW w \in Workers, DeleteOrder(w) PROVE Linked' /\ Ordered' /\ Lined'
  <2> DEFINE o == job[w].id
  <2>1. o \in Orders /\ po' = [po EXCEPT ![o] = Gone] /\ line' = WithoutLines(o)
    BY <1>9, JobShape DEF DeleteOrder
  <2>2. Ordered'
    BY <1>0, <1>9, <2>1 DEF DeleteOrder, Types, Exists
  <2>3. \A l \in Lines : Exists(line'[l]) => /\ line'[l] = line[l] /\ line[l].po # o
                                             /\ line[l].po \in Orders
    BY <2>1, StoredRows DEF WithoutLines, LinesOf, Exists, LineRows
  <2>4. Lined'
    BY <1>0, <2>1, <2>3 DEF Types, Exists
  <2>5. QED
    BY <1>0, <1>9, <2>2, <2>4 DEF DeleteOrder
<1>10. ASSUME NEW w \in Workers, SaveLine(w) PROVE Linked' /\ Ordered' /\ Lined'
  BY <1>0, <1>10 DEF SaveLine, Types, Exists
<1>11. ASSUME NEW w \in Workers, HandlePODeleteLineItem(w)
       PROVE  Linked' /\ Ordered' /\ Lined'
  BY <1>0, <1>11 DEF HandlePODeleteLineItem, Types, Exists
<1>12. CASE Crash \/ UNCHANGED vars
  BY <1>0, <1>12 DEF Crash, vars, db, Exists
<1>13. QED
  BY <1>2, <1>3, <1>4, <1>5, <1>6, <1>7, <1>8, <1>9, <1>10, <1>11, <1>12 DEF Next, Reads

-----------------------------------------------------------------------------
\* The steps that end a request.
Writes(w) ==
    \/ SaveLink(w) \/ DeleteLink(w) \/ DeleteVendor(w) \/ HandlePOSave(w)
    \/ SaveOrder(w) \/ DeleteOrder(w) \/ SaveLine(w)

\* Whoever is busy after such a step was busy before, with the same job.
LEMMA WritesShape ==
    ASSUME Types, NEW w \in Workers, Writes(w)
    PROVE  /\ job'[w] = Idle
           /\ \A x \in Workers : x # w => job'[x] = job[x]
           /\ \A x \in Workers : job'[x].op # "idle" => x # w
           /\ raced' = raced
<1>1. Ends(w)
  BY DEF Writes, SaveLink, DeleteLink, DeleteVendor, HandlePOSave, SaveOrder, DeleteOrder,
         SaveLine
<1>2. QED
  BY <1>1 DEF Ends, Types, Idle

LEMMA LinkedOnceStep ==
    Types /\ NoDangling /\ LinkedOnce /\ [Next]_vars => LinkedOnce'
<1> SUFFICES ASSUME Types, NoDangling, LinkedOnce, [Next]_vars PROVE LinkedOnce'
  OBVIOUS
<1>1. ASSUME NEW w \in Workers, HandleVendorSave(w) PROVE LinkedOnce'
  <2>1. PICK v \in Vendors \ (vendors \cup Mentioned) :
          \/ job' = [job EXCEPT ![w] = [op |-> "link", kind |-> "link", id |-> v, new |-> None]]
          \/ UNCHANGED job
    BY <1>1 DEF HandleVendorSave
  <2>2. links[v] = 0 /\ \A x \in Workers : job[x].id # v
    BY <2>1 DEF NoDangling, TypeOK, Mentioned
  <2>3. links' = links /\ raced' = raced
    BY <1>1 DEF HandleVendorSave
  <2>4. QED
    BY <2>1, <2>2, <2>3 DEF LinkedOnce, Types, At
<1>2. ASSUME NEW w \in Workers, FindLink(w) PROVE LinkedOnce'
  <2>1. PICK v \in vendors : links[v] = 0 /\ Begins(w, "link", "link", v, None)
    BY <1>2 DEF FindLink
  <2>2. /\ job'[w].id = v
        /\ \A x \in Workers : x # w => job'[x] = job[x]
        /\ raced \subseteq raced' /\ links' = links
    BY <2>1, BeginsShape
  <2>3. \A x \in Workers : x # w /\ At(x, "link") => {"link"} \in raced'
    <3>1. SUFFICES ASSUME NEW x \in Workers, x # w, At(x, "link") PROVE {"link"} \in raced'
      OBVIOUS
    <3>2. {"link", job[x].kind} = {"link"}
      BY <3>1, JobShape
    <3>3. {"link"} \in Conflicts
      BY DEF Conflicts
    <3>4. QED
      BY <2>1, <3>1, <3>2, <3>3, BeginsShape
  <2>4. QED
    BY <2>1, <2>2, <2>3 DEF LinkedOnce, At
<1>3. ASSUME NEW w \in Workers, Reads(w), ~FindLink(w) PROVE LinkedOnce'
  <2>1. PICK op, kind, id, new :
          /\ op \in {"unlink", "delVendor", "order", "update", "delOrder", "line"}
          /\ Begins(w, op, kind, id, new)
    BY <1>3 DEF Reads, FindOrders, FindVendor, HandlePOCreate, ReadOrder, FindDraft, FindPlace
  <2>2. /\ job'[w].op # "link"
        /\ \A x \in Workers : x # w => job'[x] = job[x]
        /\ raced \subseteq raced' /\ links' = links
    BY <2>1, BeginsShape
  <2>3. QED
    BY <2>2 DEF LinkedOnce, At
<1>4. ASSUME NEW w \in Workers, SaveLink(w) PROVE LinkedOnce'
  <2>1. /\ job'[w].op # "link" /\ raced' = raced
        /\ \A x \in Workers : x # w => job'[x] = job[x]
    BY <1>4, WritesShape DEF Writes, Idle
  <2>2. At(w, "link") /\ job[w].id \in Vendors
    BY <1>4, JobShape DEF SaveLink
  <2>3. \A v \in Vendors : v # job[w].id => links'[v] = links[v]
    BY <1>4, <2>2 DEF SaveLink, Types
  <2>4. links'[job[w].id] > 1 => links[job[w].id] > 0
    BY <1>4, <2>2 DEF SaveLink, Types
  <2>5. \A x \in Workers : At(x, "link") => job[x].id \in Vendors
    BY JobShape
  <2>6. \A v \in Vendors : links'[v] > 1 => {"link"} \in raced
    BY <2>2, <2>3, <2>4 DEF LinkedOnce
  <2>7. \A x \in Workers : x # w /\ At(x, "link") /\ job[x].id = job[w].id => {"link"} \in raced
    BY <2>2 DEF LinkedOnce
  <2>8. QED
    BY <2>1, <2>2, <2>3, <2>5, <2>6, <2>7 DEF LinkedOnce, At
<1>5. ASSUME NEW w \in Workers, Writes(w), ~SaveLink(w) PROVE LinkedOnce'
  <2>1. /\ job'[w].op # "link" /\ raced' = raced
        /\ \A x \in Workers : x # w => job'[x] = job[x]
    BY <1>5, WritesShape DEF Idle
  <2>2. \A v \in Vendors : links'[v] \in Nat /\ links'[v] <= links[v]
    BY <1>5, JobShape DEF Writes, DeleteLink, DeleteVendor, HandlePOSave, SaveOrder,
       DeleteOrder, SaveLine, Types
  <2>3. \A x \in Workers : At(x, "link") => job[x].id \in Vendors
    BY JobShape
  <2>4. QED
    BY <2>1, <2>2, <2>3 DEF LinkedOnce, Types, At
<1>6. ASSUME NEW w \in Workers, HandlePODeleteLineItem(w) PROVE LinkedOnce'
  BY <1>6 DEF HandlePODeleteLineItem, LinkedOnce, At
<1>7. CASE Crash
  BY <1>7 DEF Crash, db, LinkedOnce, At, Idle
<1>8. CASE UNCHANGED vars
  BY <1>8 DEF vars, db, LinkedOnce, At
<1>9. QED
  BY <1>1, <1>2, <1>3, <1>4, <1>5, <1>6, <1>7, <1>8 DEF Next, Reads, Writes

LEMMA OrdersLinkedStep ==
    Types /\ Types' /\ NoDangling /\ OrdersLinked /\ [Next]_vars => OrdersLinked'
<1> SUFFICES ASSUME Types, Types', NoDangling, OrdersLinked, [Next]_vars
             PROVE OrdersLinked'
  OBVIOUS
<1>0. \A o \in Orders : Exists(po[o]) => po[o].vendor \in Vendors /\ po[o].vendor \in vendors
  BY StoredRows DEF NoDangling, OrderRows
<1>1. ASSUME NEW w \in Workers, HandleVendorSave(w) PROVE OrdersLinked'
  <2>1. PICK v \in Vendors \ (vendors \cup Mentioned) :
          /\ vendors' = vendors \cup {v}
          /\ \/ job' = [job EXCEPT ![w] = [op |-> "link", kind |-> "link", id |-> v, new |-> None]]
             \/ UNCHANGED job
    BY <1>1 DEF HandleVendorSave
  <2>2. \A x \in Workers : job[x].id # v
    BY <2>1 DEF Mentioned
  <2>3. links' = links /\ raced' = raced /\ po' = po
    BY <1>1 DEF HandleVendorSave
  <2>4. QED
    BY <2>1, <2>2, <2>3 DEF OrdersLinked, Types, At, Exists
<1>2. ASSUME NEW w \in Workers, HandlePOCreate(w) PROVE OrdersLinked'
  <2>1. PICK v \in vendors : links[v] > 0 /\ Begins(w, "order", "order", v, None)
    BY <1>2 DEF HandlePOCreate
  <2>2. /\ job'[w].op = "order" /\ job'[w].id = v
        /\ \A x \in Workers : x # w => job'[x] = job[x]
        /\ raced \subseteq raced' /\ UNCHANGED <<vendors, links, po>>
    BY <2>1, BeginsShape
  <2>3. \A x \in Workers : x # w /\ At(x, "unlink") => {"order", "unlink"} \in raced'
    <3>1. SUFFICES ASSUME NEW x \in Workers, x # w, At(x, "unlink")
                   PROVE  {"order", "unlink"} \in raced'
      OBVIOUS
    <3>2. job[x].kind = "unlink" /\ {"order", "unlink"} \in Conflicts
      BY <3>1, JobShape DEF Conflicts
    <3>3. QED
      BY <2>1, <3>1, <3>2, BeginsShape
  <2>4. links'[v] # 0
    BY <2>1, <2>2 DEF Types
  <2>5. \A x \in Workers : job'[x].op = "order" /\ job'[x].id \in vendors /\ links'[job'[x].id] = 0
           => {"order", "unlink"} \in raced'
    BY <2>2, <2>4 DEF OrdersLinked, At
  <2>6. \A x, y \in Workers : job'[x].op = "order" /\ job'[y].op = "unlink"
           => {"order", "unlink"} \in raced'
    BY <2>2, <2>3 DEF OrdersLinked, At
  <2>7. \A x \in Workers : job'[x].op = "unlink" => x # w
    BY <2>2
  <2>8. QED
    BY <2>2, <2>5, <2>6, <2>7 DEF OrdersLinked, At, Exists
<1>3. ASSUME NEW w \in Workers, FindOrders(w) PROVE OrdersLinked'
  <2>1. PICK v \in Vendors : OrdersOf(v) = {} /\ Begins(w, "unlink", "unlink", v, None)
    BY <1>3 DEF FindOrders
  <2>2. /\ job'[w].op = "unlink" /\ job'[w].id = v
        /\ \A x \in Workers : x # w => job'[x] = job[x]
        /\ raced \subseteq raced' /\ UNCHANGED <<vendors, links, po>>
    BY <2>1, BeginsShape
  <2>3. \A x \in Workers : x # w /\ At(x, "order") => {"order", "unlink"} \in raced'
    <3>1. SUFFICES ASSUME NEW x \in Workers, x # w, At(x, "order")
                   PROVE  {"order", "unlink"} \in raced'
      OBVIOUS
    <3>2. /\ job[x].kind = "order" /\ {"order", "unlink"} \in Conflicts
          /\ {"unlink", "order"} = {"order", "unlink"}
      BY <3>1, JobShape DEF Conflicts
    <3>3. QED
      BY <2>1, <3>1, <3>2, BeginsShape
  <2>4. QED
    BY <2>1, <2>2, <2>3 DEF OrdersLinked, OrdersOf, At, Exists
<1>4. ASSUME NEW w \in Workers, Reads(w), ~HandlePOCreate(w), ~FindOrders(w)
      PROVE  OrdersLinked'
  <2>1. PICK op, kind, id, new :
          /\ op \in {"link", "delVendor", "update", "delOrder", "line"}
          /\ Begins(w, op, kind, id, new)
    BY <1>4 DEF Reads, FindLink, FindVendor, ReadOrder, FindDraft, FindPlace
  <2>2. /\ job'[w].op \notin {"order", "unlink"}
        /\ \A x \in Workers : x # w => job'[x] = job[x]
        /\ raced \subseteq raced' /\ UNCHANGED <<vendors, links, po>>
    BY <2>1, BeginsShape
  <2>3. QED
    BY <2>2 DEF OrdersLinked, At, Exists
<1>5. ASSUME NEW w \in Workers, Writes(w)
      PROVE  /\ job'[w].op = "idle" /\ raced' = raced
             /\ \A x \in Workers : x # w => job'[x] = job[x]
  BY <1>5, WritesShape DEF Idle
<1>6. ASSUME NEW w \in Workers, SaveLink(w) PROVE OrdersLinked'
  <2>1. \A v \in Vendors : links[v] \in Nat /\ links'[v] >= links[v]
    BY <1>6, JobShape DEF SaveLink, Types
  <2>2. \A x \in Workers : At(x, "order") => job[x].id \in Vendors
    BY JobShape
  <2>3. UNCHANGED <<vendors, po>>
    BY <1>6 DEF SaveLink
  <2>4. \A v \in Vendors : links'[v] = 0 => links[v] = 0
    BY <1>6, JobShape DEF SaveLink, Types
  <2>5. QED
    BY <1>0, <1>5, <1>6, <2>2, <2>3, <2>4 DEF OrdersLinked, Writes, At, Exists
<1>7. ASSUME NEW w \in Workers, DeleteLink(w) PROVE OrdersLinked'
  <2>1. At(w, "unlink") /\ job[w].id \in Vendors /\ UNCHANGED <<vendors, po>>
    BY <1>7, JobShape DEF DeleteLink
  <2>2. \A v \in Vendors : v # job[w].id => links'[v] = links[v]
    BY <1>7, <2>1 DEF DeleteLink, Types
  <2>3. \A x \in Workers : At(x, "order") => job[x].id \in Vendors
    BY JobShape
  <2>4. QED
    BY <1>0, <1>5, <1>7, <2>1, <2>2, <2>3 DEF OrdersLinked, Writes, At, Exists
<1>8. ASSUME NEW w \in Workers, DeleteVendor(w) PROVE OrdersLinked'
  <2>1. job[w].id \in Vendors /\ po' = po
    BY <1>8, JobShape DEF DeleteVendor
  <2>2. CASE Required(job[w].id)
    BY <1>5, <1>8, <2>1, <2>2 DEF DeleteVendor, OrdersLinked, Writes, At, Exists
  <2>3. CASE ~Required(job[w].id)
    <3>1. \A o \in Orders : Exists(po[o]) => po[o].vendor # job[w].id
      BY <2>3 DEF Required, OrdersOf
    <3>2. /\ vendors' = vendors \ {job[w].id}
          /\ \A v \in Vendors : v # job[w].id => links'[v] = links[v]
      BY <1>8, <2>1, <2>3 DEF DeleteVendor, Types
    <3>3. \A x \in Workers : At(x, "order") => job[x].id \in Vendors
      BY JobShape
    <3>4. QED
      BY <1>0, <1>5, <1>8, <2>1, <3>1, <3>2, <3>3 DEF OrdersLinked, Writes, At, Exists
  <2>4. QED
    BY <2>2, <2>3
<1>9. ASSUME NEW w \in Workers, HandlePOSave(w) PROVE OrdersLinked'
  <2>1. At(w, "order") /\ UNCHANGED <<vendors, links>>
    BY <1>9 DEF HandlePOSave
  <2>2. CASE UNCHANGED po
    BY <1>5, <1>9, <2>1, <2>2 DEF OrdersLinked, Writes, At, Exists
  <2>3. ASSUME NEW o \in Orders, job[w].id \in vendors,
               po' = [po EXCEPT ![o] = [vendor |-> job[w].id, status |-> "draft"]]
        PROVE  OrdersLinked'
    <3>1. po'[o].vendor = job[w].id /\ \A p \in Orders : p # o => po'[p] = po[p]
      BY <2>3 DEF Types
    <3>2. QED
      BY <1>5, <1>9, <2>1, <2>3, <3>1 DEF OrdersLinked, Writes, At, Exists
  <2>4. QED
    BY <1>9, <2>2, <2>3 DEF HandlePOSave
<1>10. ASSUME NEW w \in Workers, SaveOrder(w) \/ DeleteOrder(w) \/ SaveLine(w)
       PROVE  OrdersLinked'
  <2>1. UNCHANGED <<vendors, links>>
    BY <1>10 DEF SaveOrder, DeleteOrder, SaveLine
  <2>2. \A o \in Orders : Exists(po'[o]) => Exists(po[o]) /\ po'[o].vendor = po[o].vendor
    <3>1. CASE SaveLine(w)
      BY <3>1 DEF SaveLine
    <3>2. CASE DeleteOrder(w)
      BY <3>2, JobShape DEF DeleteOrder, Types, Exists
    <3>3. CASE SaveOrder(w)
      <4>1. job[w].id \in Orders
        BY <3>3, JobShape DEF SaveOrder
      <4>2. CASE UNCHANGED po
        BY <4>2
      <4>3. CASE Exists(po[job[w].id]) /\ po' = [po EXCEPT ![job[w].id].status = job[w].new]
        <5>1. po[job[w].id] \in OrderRows
          BY <4>1, <4>3, StoredRows
        <5>2. po'[job[w].id] = [po[job[w].id] EXCEPT !.status = job[w].new]
          BY <4>1, <4>3 DEF Types
        <5>3. po'[job[w].id].vendor = po[job[w].id].vendor
          BY <5>1, <5>2 DEF OrderRows
        <5>4. QED
          BY <4>1, <4>3, <5>3 DEF Types
      <4>4. QED
        BY <3>3, <4>2, <4>3 DEF SaveOrder
    <3>4. QED
      BY <1>10, <3>1, <3>2, <3>3
  <2>3. QED
    BY <1>5, <1>10, <2>1, <2>2 DEF OrdersLinked, Writes, At
<1>11. ASSUME NEW w \in Workers, HandlePODeleteLineItem(w) PROVE OrdersLinked'
  BY <1>11 DEF HandlePODeleteLineItem, OrdersLinked, At, Exists
<1>12. CASE Crash
  BY <1>12 DEF Crash, db, OrdersLinked, At, Idle, Exists
<1>13. CASE UNCHANGED vars
  BY <1>13 DEF vars, db, OrdersLinked, At, Exists
<1>14. QED
  BY <1>1, <1>2, <1>3, <1>4, <1>6, <1>7, <1>8, <1>9, <1>10, <1>11, <1>12, <1>13
  DEF Next, Reads

LEMMA LinesApartStep ==
    Types /\ LinesApart /\ [Next]_vars => LinesApart'
<1> SUFFICES ASSUME Types, LinesApart, [Next]_vars PROVE LinesApart'
  OBVIOUS
<1>1. ASSUME NEW w \in Workers, FindPlace(w) PROVE LinesApart'
  <2>1. PICK o \in Orders : Begins(w, "line", "line", o, getNextSortOrder(o))
    BY <1>1 DEF FindPlace
  <2>2. /\ job'[w].id = o /\ job'[w].new = getNextSortOrder(o)
        /\ \A x \in Workers : x # w => job'[x] = job[x]
        /\ raced \subseteq raced' /\ line' = line
    BY <2>1, BeginsShape
  <2>3. \A x \in Workers : x # w /\ At(x, "line") => {"line"} \in raced'
    <3>1. SUFFICES ASSUME NEW x \in Workers, x # w, At(x, "line") PROVE {"line"} \in raced'
      OBVIOUS
    <3>2. {"line", job[x].kind} = {"line"} /\ {"line"} \in Conflicts
      BY <3>1, JobShape DEF Conflicts
    <3>3. QED
      BY <2>1, <3>1, <3>2, BeginsShape
  <2>4. \A l \in Lines : Exists(line[l]) /\ line[l].po = o
           => ~(line[l].order >= getNextSortOrder(o))
    <3>1. SUFFICES ASSUME NEW l \in Lines, Exists(line[l]), line[l].po = o
                   PROVE  ~(line[l].order >= getNextSortOrder(o))
      OBVIOUS
    <3>2. line[l].order < getNextSortOrder(o) /\ getNextSortOrder(o) \in Nat
      BY <3>1, NextPlaceIsLast DEF LinesOf
    <3>3. line[l].order \in Nat
      BY <3>1, StoredRows, PurchasingAssumption DEF LineRows
    <3>4. QED
      BY <3>2, <3>3
  <2>5. QED
    BY <2>2, <2>3, <2>4 DEF LinesApart, At
<1>2. ASSUME NEW w \in Workers, Reads(w), ~FindPlace(w) PROVE LinesApart'
  <2>1. PICK op, kind, id, new :
          /\ op \in {"link", "unlink", "delVendor", "order", "update", "delOrder"}
          /\ Begins(w, op, kind, id, new)
    BY <1>2 DEF Reads, FindLink, FindOrders, FindVendor, HandlePOCreate, ReadOrder, FindDraft
  <2>2. /\ job'[w].op # "line"
        /\ \A x \in Workers : x # w => job'[x] = job[x]
        /\ raced \subseteq raced' /\ line' = line
    BY <2>1, BeginsShape
  <2>3. QED
    BY <2>2 DEF LinesApart, At
<1>3. ASSUME NEW w \in Workers, Writes(w)
      PROVE  /\ job'[w].op # "line" /\ raced' = raced
             /\ \A x \in Workers : x # w => job'[x] = job[x]
  BY <1>3, WritesShape DEF Idle
<1>4. ASSUME NEW w \in Workers, SaveLine(w) PROVE LinesApart'
  <2>1. At(w, "line") /\ Writes(w) /\ job[w].id \in Orders /\ job[w].new \in 1..MaxOrder
    BY <1>4, JobShape DEF SaveLine, Writes
  <2>2. CASE UNCHANGED line
    BY <1>3, <2>1, <2>2 DEF LinesApart, At
  <2>3. ASSUME NEW k \in Lines,
               line' = [line EXCEPT ![k] = [po |-> job[w].id, order |-> job[w].new]]
        PROVE  LinesApart'
    <3>1. /\ line'[k] = [po |-> job[w].id, order |-> job[w].new]
          /\ \A l \in Lines : l # k => line'[l] = line[l]
      BY <2>3 DEF Types
    <3>2. line'[k].po = job[w].id /\ line'[k].order = job[w].new
      BY <3>1
    <3>3. job[w].new >= job[w].new
      BY <2>1, PurchasingAssumption
    <3>4. \A m \in Lines : m # k /\ Exists(line[m]) /\ line[m] = line'[k] => {"line"} \in raced
      BY <2>1, <3>2, <3>3 DEF LinesApart
    <3>5. \A x \in Workers : x # w /\ At(x, "line") => {"line"} \in raced
      BY <2>1 DEF LinesApart
    <3>6. QED
      BY <1>3, <2>1, <3>1, <3>4, <3>5 DEF LinesApart, At
  <2>4. QED
    BY <1>4, <2>2, <2>3 DEF SaveLine
<1>5. ASSUME NEW w \in Workers, Writes(w), ~SaveLine(w) PROVE LinesApart'
  <2>1. \A l \in Lines : Exists(line'[l]) => line'[l] = line[l]
    BY <1>5 DEF Writes, SaveLink, DeleteLink, DeleteVendor, HandlePOSave, SaveOrder,
       DeleteOrder, WithoutLines, Exists
  <2>2. QED
    BY <1>3, <1>5, <2>1 DEF LinesApart, At
<1>6. ASSUME NEW w \in Workers, HandlePODeleteLineItem(w) PROVE LinesApart'
  <2>1. \A l \in Lines : Exists(line'[l]) => line'[l] = line[l]
    BY <1>6 DEF HandlePODeleteLineItem, Types, Exists
  <2>2. QED
    BY <1>6, <2>1 DEF HandlePODeleteLineItem, LinesApart, At
<1>7. ASSUME NEW w \in Workers, HandleVendorSave(w) PROVE LinesApart'
  <2>1. \A x \in Workers : job'[x].op = "line" => job'[x] = job[x]
    BY <1>7 DEF HandleVendorSave, Types
  <2>2. QED
    BY <1>7, <2>1 DEF HandleVendorSave, LinesApart, At
<1>8. CASE Crash
  BY <1>8 DEF Crash, db, LinesApart, At, Idle
<1>9. CASE UNCHANGED vars
  BY <1>9 DEF vars, db, LinesApart, At
<1>10. QED
  BY <1>1, <1>2, <1>4, <1>5, <1>6, <1>7, <1>8, <1>9 DEF Next, Reads, Writes

LEMMA StagesStep ==
    Types /\ Types' /\ StagesInOrder /\ Checks /\ [Next]_vars => StagesInOrder' /\ Checks'
<1> SUFFICES ASSUME Types, Types', StagesInOrder, Checks, [Next]_vars
             PROVE  StagesInOrder' /\ Checks'
  OBVIOUS
<1>1. ASSUME NEW w \in Workers, ReadOrder(w) PROVE StagesInOrder' /\ Checks'
  <2>1. PICK o \in Orders, new \in Status \cup {None} :
          /\ Exists(po[o])
          /\ \/ new = None
             \/ new = "draft" /\ po[o].status = "draft"
             \/ isValidStatusTransition(po[o].status, new)
          /\ Begins(w, "update", "status", o, IF new = po[o].status THEN None ELSE new)
    BY <1>1 DEF ReadOrder
  <2>2. /\ job'[w].op = "update" /\ job'[w].id = o
        /\ job'[w].new = IF new = po[o].status THEN None ELSE new
        /\ \A x \in Workers : x # w => job'[x] = job[x]
        /\ raced \subseteq raced' /\ UNCHANGED <<po, past>>
    BY <2>1, BeginsShape
  <2>3. \A x \in Workers : x # w /\ Deciding(x) => {"status"} \in raced'
    <3>1. SUFFICES ASSUME NEW x \in Workers, x # w, Deciding(x) PROVE {"status"} \in raced'
      OBVIOUS
    <3>2. {"status", job[x].kind} = {"status"} /\ {"status"} \in Conflicts
      BY <3>1, JobShape DEF Conflicts, Deciding
    <3>3. QED
      BY <2>1, <3>1, <3>2, BeginsShape
  <2>4. StagesInOrder'
    BY <2>2 DEF StagesInOrder, Exists
  <2>5. job'[w].new # None =>
          /\ isValidStatusTransition(po[o].status, new) /\ new # "draft"
          /\ new = "completed" => po[o].status = "acknowledged"
          /\ new = "acknowledged" => po[o].status = "sent"
    BY <2>1, <2>2 DEF isValidStatusTransition
  <2>6. po[o].status \in past[o]
    BY <2>1 DEF Checks
  <2>7. job'[w].new # None =>
          /\ job'[w].new # "draft"
          /\ job'[w].new = "completed" => "acknowledged" \in past'[o]
          /\ job'[w].new = "acknowledged" => "sent" \in past'[o]
          /\ isValidStatusTransition(po'[o].status, job'[w].new)
    BY <2>2, <2>5, <2>6
  <2>8. Checks'
    BY <2>2, <2>3, <2>7 DEF Checks, Deciding, At, Exists, isValidStatusTransition
  <2>9. QED
    BY <2>4, <2>8
<1>2. ASSUME NEW w \in Workers, FindDraft(w) PROVE StagesInOrder' /\ Checks'
  <2>1. PICK o \in Orders : Begins(w, "delOrder", "status", o, None)
    BY <1>2 DEF FindDraft
  <2>2. /\ job'[w].op = "delOrder"
        /\ \A x \in Workers : x # w => job'[x] = job[x]
        /\ raced \subseteq raced' /\ UNCHANGED <<po, past>>
    BY <2>1, BeginsShape
  <2>3. \A x \in Workers : x # w /\ Deciding(x) => {"status"} \in raced'
    <3>1. SUFFICES ASSUME NEW x \in Workers, x # w, Deciding(x) PROVE {"status"} \in raced'
      OBVIOUS
    <3>2. {"status", job[x].kind} = {"status"} /\ {"status"} \in Conflicts
      BY <3>1, JobShape DEF Conflicts, Deciding
    <3>3. QED
      BY <2>1, <3>1, <3>2, BeginsShape
  <2>4. StagesInOrder'
    BY <2>2 DEF StagesInOrder, Exists
  <2>5. Checks'
    BY <2>2, <2>3 DEF Checks, Deciding, At, Exists, isValidStatusTransition
  <2>6. QED
    BY <2>4, <2>5
<1>3. ASSUME NEW w \in Workers, Reads(w), ~ReadOrder(w), ~FindDraft(w)
      PROVE  StagesInOrder' /\ Checks'
  <2>1. PICK op, kind, id, new :
          /\ op \in {"link", "unlink", "delVendor", "order", "line"}
          /\ Begins(w, op, kind, id, new)
    BY <1>3 DEF Reads, FindLink, FindOrders, FindVendor, HandlePOCreate, FindPlace
  <2>2. /\ job'[w].op \notin {"update", "delOrder"}
        /\ \A x \in Workers : x # w => job'[x] = job[x]
        /\ raced \subseteq raced' /\ UNCHANGED <<po, past>>
    BY <2>1, BeginsShape
  <2>3. QED
    BY <2>2 DEF StagesInOrder, Checks, Deciding, At, Exists, isValidStatusTransition
<1>4. ASSUME NEW w \in Workers, Writes(w)
      PROVE  /\ job'[w].op \notin {"update", "delOrder"} /\ raced' = raced
             /\ \A x \in Workers : x # w => job'[x] = job[x]
  BY <1>4, WritesShape DEF Idle
<1>5. ASSUME NEW w \in Workers, Writes(w), UNCHANGED <<po, past>>
      PROVE  StagesInOrder' /\ Checks'
  BY <1>4, <1>5 DEF StagesInOrder, Checks, Deciding, At, Exists, isValidStatusTransition
<1>6. ASSUME NEW w \in Workers, HandlePOSave(w) PROVE StagesInOrder' /\ Checks'
  <2>1. Writes(w)
    BY <1>6 DEF Writes
  <2>2. CASE UNCHANGED <<po, past>>
    BY <1>5, <2>1, <2>2
  <2>3. ASSUME NEW o \in Orders \ Mentioned,
               po' = [po EXCEPT ![o] = [vendor |-> job[w].id, status |-> "draft"]],
               past' = [past EXCEPT ![o] = {"draft"}]
        PROVE  StagesInOrder' /\ Checks'
    <3>1. /\ po'[o].status = "draft" /\ past'[o] = {"draft"}
          /\ \A p \in Orders : p # o => po'[p] = po[p] /\ past'[p] = past[p]
      BY <2>3 DEF Types
    <3>2. \A x \in Workers : job[x].id # o
      BY DEF Mentioned
    <3>3. StagesInOrder'
      BY <1>4, <2>1, <3>1 DEF StagesInOrder, Exists
    <3>4. \A x \in Workers : x # w /\ At(x, "update") => job[x].id \in Orders \ {o}
      BY <3>2, JobShape
    <3>5. Checks'
      BY <1>4, <2>1, <3>1, <3>4
      DEF Checks, Deciding, At, Exists, isValidStatusTransition
    <3>6. QED
      BY <3>3, <3>5
  <2>4. QED
    BY <1>6, <2>2, <2>3 DEF HandlePOSave
<1>7. ASSUME NEW w \in Workers, SaveOrder(w) PROVE StagesInOrder' /\ Checks'
  <2> DEFINE o == job[w].id
             new == job[w].new
  <2>1. Writes(w) /\ At(w, "update") /\ o \in Orders /\ new \in Status \cup {None}
    BY <1>7, JobShape DEF Writes, SaveOrder
  <2>2. CASE UNCHANGED <<po, past>>
    BY <1>5, <2>1, <2>2
  <2>3. CASE /\ new # None /\ Exists(po[o])
             /\ po' = [po EXCEPT ![o].status = new]
             /\ past' = [past EXCEPT ![o] = @ \cup {new}]
    <3>1. /\ new # "draft"
          /\ new = "completed" => "acknowledged" \in past[o]
          /\ new = "acknowledged" => "sent" \in past[o]
          /\ {"status"} \notin raced => isValidStatusTransition(po[o].status, new)
      BY <2>1, <2>3 DEF Checks
    <3>2. po[o] \in OrderRows
      BY <2>1, <2>3, StoredRows
    <3>3. po'[o] = [po[o] EXCEPT !.status = new]
      BY <2>1, <2>3 DEF Types
    <3>4. /\ po'[o].status = new /\ past'[o] = past[o] \cup {new}
          /\ \A p \in Orders : p # o => po'[p] = po[p] /\ past'[p] = past[p]
      BY <2>1, <2>3, <3>2, <3>3 DEF OrderRows, Types
    <3>5. \A x \in Workers : x # w /\ Deciding(x) => {"status"} \in raced
      BY <2>1 DEF Checks, Deciding
    <3>6. /\ "completed" \in past'[o] => "acknowledged" \in past'[o]
          /\ "acknowledged" \in past'[o] => "sent" \in past'[o]
          /\ po'[o].status # "draft"
      BY <2>1, <3>1, <3>4 DEF StagesInOrder
    <3>7. {"status"} \notin raced =>
            /\ "cancelled" \in past'[o] => po'[o].status = "cancelled"
            /\ "completed" \in past'[o] => po'[o].status \in {"completed", "cancelled"}
      BY <2>1, <2>3, <3>1, <3>4 DEF StagesInOrder, isValidStatusTransition
    <3>8. StagesInOrder'
      BY <1>4, <2>1, <3>4, <3>6, <3>7 DEF StagesInOrder, Exists
    <3>9. \A p \in Orders : Exists(po'[p]) => po'[p].status \in past'[p]
      BY <3>4 DEF Checks, Exists
    <3>10. \A x \in Workers : x # w /\ At(x, "update") => job[x].id \in Orders
      BY JobShape
    <3>11. ASSUME NEW x \in Workers, x # w, At(x, "update"), job[x].new # None,
                  Exists(po'[job[x].id])
           PROVE  /\ job[x].new # "draft"
                  /\ job[x].new = "completed" => "acknowledged" \in past'[job[x].id]
                  /\ job[x].new = "acknowledged" => "sent" \in past'[job[x].id]
                  /\ {"status"} \in raced
      BY <2>3, <3>4, <3>5, <3>10, <3>11 DEF Checks, Deciding
    <3>12. Checks'
      BY <1>4, <2>1, <3>9, <3>11 DEF Checks, Deciding, At, Exists
    <3>13. QED
      BY <3>8, <3>12
  <2>4. QED
    BY <1>7, <2>2, <2>3 DEF SaveOrder
<1>8. ASSUME NEW w \in Workers, DeleteOrder(w) PROVE StagesInOrder' /\ Checks'
  <2>1. Writes(w) /\ job[w].id \in Orders
    BY <1>8, JobShape DEF Writes, DeleteOrder
  <2>2. /\ ~Exists(po'[job[w].id]) /\ past'[job[w].id] = {}
        /\ \A p \in Orders : p # job[w].id => po'[p] = po[p] /\ past'[p] = past[p]
    BY <1>8, <2>1 DEF DeleteOrder, Types, Exists
  <2>3. StagesInOrder'
    BY <1>4, <2>1, <2>2 DEF StagesInOrder, Exists
  <2>4. \A x \in Workers : At(x, "update") => job[x].id \in Orders
    BY JobShape
  <2>5. Checks'
    BY <1>4, <2>1, <2>2, <2>4 DEF Checks, Deciding, At, Exists, isValidStatusTransition
  <2>6. QED
    BY <2>3, <2>5
<1>9. ASSUME NEW w \in Workers, SaveLink(w) \/ DeleteLink(w) \/ DeleteVendor(w) \/ SaveLine(w)
      PROVE  StagesInOrder' /\ Checks'
  <2>1. Writes(w) /\ UNCHANGED <<po, past>>
    BY <1>9 DEF Writes, SaveLink, DeleteLink, DeleteVendor, SaveLine
  <2>2. QED
    BY <1>5, <2>1
<1>10. ASSUME NEW w \in Workers, HandleVendorSave(w) PROVE StagesInOrder' /\ Checks'
  <2>1. /\ UNCHANGED <<po, past, raced>>
        /\ \A x \in Workers : job'[x] = job[x] \/ job'[x].op = "link"
    BY <1>10 DEF HandleVendorSave, Types
  <2>2. QED
    BY <2>1 DEF StagesInOrder, Checks, Deciding, At, Exists, isValidStatusTransition
<1>11. ASSUME NEW w \in Workers, HandlePODeleteLineItem(w) PROVE StagesInOrder' /\ Checks'
  BY <1>11 DEF HandlePODeleteLineItem, StagesInOrder, Checks, Deciding, At, Exists,
     isValidStatusTransition
<1>12. CASE Crash
  BY <1>12 DEF Crash, db, Idle, StagesInOrder, Checks, Deciding, At, Exists
<1>13. CASE UNCHANGED vars
  BY <1>13 DEF vars, db, StagesInOrder, Checks, Deciding, At, Exists, isValidStatusTransition
<1>14. QED
  BY <1>1, <1>2, <1>3, <1>6, <1>7, <1>8, <1>9, <1>10, <1>11, <1>12, <1>13
  DEF Next, Reads, Writes

-----------------------------------------------------------------------------
LEMMA InitIInv == Init => IInv
<1> SUFFICES ASSUME Init PROVE IInv
  OBVIOUS
<1>1. Types
  BY DEF Init, Types, Jobs
<1>2. TypeOK /\ NoDangling
  BY <1>1 DEF Init, NoDangling, TypeOK, Types, Exists
<1>3. LinkedOnce /\ OrdersLinked /\ LinesApart
  BY DEF Init, LinkedOnce, OrdersLinked, LinesApart, Exists, At, Idle
<1>4. StagesInOrder /\ Checks
  BY DEF Init, StagesInOrder, Checks, Deciding, Exists, At, Idle
<1>5. QED
  BY <1>1, <1>2, <1>3, <1>4 DEF IInv

LEMMA IInvStep == IInv /\ [Next]_vars => IInv'
BY TypesStep, NoDanglingStep, LinkedOnceStep, OrdersLinkedStep, LinesApartStep, StagesStep
DEF IInv

LEMMA Invariance == Spec => []IInv
BY InitIInv, IInvStep, PTL DEF Spec

\* The rows of vendors, links, orders and lines keep their columns, and a job the
\* shape of its kind.
THEOREM TypeCorrect == Spec => []TypeOK
<1>1. IInv => TypeOK
  BY DEF IInv, NoDangling
<1>2. QED
  BY <1>1, Invariance, PTL

\* Whatever overlaps, and however often the process dies, a link and an order
\* name a vendor that exists, and a line an order that exists.
THEOREM NothingDangles == Spec => []NoDangling
<1>1. IInv => NoDangling
  BY DEF IInv
<1>2. QED
  BY <1>1, Invariance, PTL

\* Of any number of requests, only one that overlapped another of the same or of
\* the opposite kind makes what was looked up untrue at the write.
THEOREM LookedUpHolds == Spec => []LooksHold
<1>1. IInv => LooksHold
  BY DEF IInv, LooksHold, LinkedOnce, OrdersLinked, LinesApart
<1>2. QED
  BY <1>1, Invariance, PTL

\* However updates and deletions of an order overlap, no stage of it is skipped.
THEOREM NoStageSkipped == Spec => []StagesInOrder
<1>1. IInv => StagesInOrder
  BY DEF IInv
<1>2. QED
  BY <1>1, Invariance, PTL
=============================================================================
