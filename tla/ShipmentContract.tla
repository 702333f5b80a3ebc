--------------------------- MODULE ShipmentContract ---------------------------
(****************************************************************************)
(* What the delivery challan subsystem promises about goods: a shipment     *)
(* group (one transit challan and one official challan per destination) is  *)
(* created, issued and dropped as a whole; a transfer plans a set of        *)
(* destinations once; and a planned destination is shipped by at most one   *)
(* group at a time.  Rows, counters and statuses of the code do not appear. *)
(****************************************************************************)
CONSTANTS Groups, Transfers, Places, NoTransfer

VARIABLES
    group,    \* "none", "draft", "issued" or "gone", by shipment group
    source,   \* the transfer a group was split from, or NoTransfer
    cover,    \* the destinations a group ships to
    plan,     \* "none", "draft", "open" or "gone", by transfer
    planned   \* the destinations of a transfer

vars == <<group, source, cover, plan, planned>>

Live(g) == group[g] \in {"draft", "issued"}

\* The destinations of t that some group ships.
Covered(t) ==
    UNION {cover[g] : g \in {h \in Groups : Live(h) /\ source[h] = t}}

Init ==
    /\ group = [g \in Groups |-> "none"]
    /\ source = [g \in Groups |-> NoTransfer]
    /\ cover = [g \in Groups |-> {}]
    /\ plan = [t \in Transfers |-> "none"]
    /\ planned = [t \in Transfers |-> {}]

\* A direct shipment, or a split of transfer t, appears as a draft group.
NewGroup(g, t, S) ==
    /\ group[g] = "none"
    /\ group' = [group EXCEPT ![g] = "draft"]
    /\ source' = [source EXCEPT ![g] = t]
    /\ cover' = [cover EXCEPT ![g] = S]
    /\ UNCHANGED <<plan, planned>>

ShipDirect(g, S) == NewGroup(g, NoTransfer, S)

Split(g, t, S) ==
    /\ plan[t] = "open"
    /\ S # {} /\ S \subseteq planned[t] \ Covered(t)
    /\ NewGroup(g, t, S)

\* All challans of a draft group become final together.
Issue(g) ==
    /\ group[g] = "draft"
    /\ group' = [group EXCEPT ![g] = "issued"]
    /\ UNCHANGED <<source, cover, plan, planned>>

\* A draft group disappears with all its challans.
Drop(g) ==
    /\ group[g] = "draft"
    /\ group' = [group EXCEPT ![g] = "gone"]
    /\ source' = [source EXCEPT ![g] = NoTransfer]
    /\ cover' = [cover EXCEPT ![g] = {}]
    /\ UNCHANGED <<plan, planned>>

PlanTransfer(t, S) ==
    /\ plan[t] = "none" /\ S # {}
    /\ plan' = [plan EXCEPT ![t] = "draft"]
    /\ planned' = [planned EXCEPT ![t] = S]
    /\ UNCHANGED <<group, source, cover>>

OpenTransfer(t) ==
    /\ plan[t] = "draft"
    /\ plan' = [plan EXCEPT ![t] = "open"]
    /\ UNCHANGED <<group, source, cover, planned>>

DropTransfer(t) ==
    /\ plan[t] = "draft"
    /\ plan' = [plan EXCEPT ![t] = "gone"]
    /\ planned' = [planned EXCEPT ![t] = {}]
    /\ UNCHANGED <<group, source, cover>>

Next ==
    \/ \E g \in Groups : Issue(g) \/ Drop(g)
    \/ \E g \in Groups, S \in SUBSET Places :
          \/ ShipDirect(g, S)
          \/ \E t \in Transfers : Split(g, t, S)
    \/ \E t \in Transfers : OpenTransfer(t) \/ DropTransfer(t)
    \/ \E t \in Transfers, S \in SUBSET Places : PlanTransfer(t, S)

Spec == Init /\ [][Next]_vars
=============================================================================
