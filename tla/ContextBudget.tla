---------------------------- MODULE ContextBudget ----------------------------
(***************************************************************************)
(* Fitting a request into the model's context window: the input capacity,  *)
(* ContextBudgeter.pack over the candidates, and the orchestrator's second *)
(* round, which takes items out again until the serialized request fits.   *)
(*                                                                         *)
(* An item is charged the estimate of its text and ITEM_FRAMING_TOKENS by  *)
(* the packer (its cost).  In the serialized request it takes more, for    *)
(* its JSON fields and escapes (its weight); that is why there is a second *)
(* round.  All in tokens, as ConservativeEstimator counts them.            *)
(***************************************************************************)
EXTENDS Naturals, FiniteSets, Functions

CONSTANTS
    Items,              \* stable keys 1 .. n, in their order
    Layers,             \* layer, within 0 .. 7
    Relevances,
    Distances,          \* temporal_distance
    Costs,              \* estimate(text) + ITEM_FRAMING_TOKENS
    Weights,            \* tokens an item adds to the serialized request
    Inputs,             \* max_input_tokens of the prompt snapshot
    Windows,            \* context_window of the provider
    Outputs,            \* output tokens reserved
    Overheads,          \* tokens of the request without items
    Safety              \* safety_tokens

ASSUME ItemsAssumption == IsFiniteSet(Items) /\ Items \subseteq Nat
ASSUME SizesAssumption ==
    /\ UNION {Layers, Relevances, Distances} \subseteq Nat
    /\ UNION {Costs, Weights, Inputs, Windows, Overheads} \subseteq Nat \ {0}
    /\ Outputs \subseteq Nat /\ Safety \in Nat

VARIABLES
    limits,     \* of the snapshot and the provider, and the fixed overhead
    item,       \* the candidates
    phase,      \* "capacity", "packing", "serializing", "sent" or "overflow"
    queue,      \* candidates not packed yet
    selected,   \* items of the packet whose flag "selected" is set
    used        \* used_input_tokens of the packet

vars == <<limits, item, phase, queue, selected, used>>

-----------------------------------------------------------------------------

Limits == [input : Inputs, window : Windows, output : Outputs,
           overhead : Overheads]
Candidates == [required : BOOLEAN, layer : Layers, relevance : Relevances,
               distance : Distances, cost : Costs, weight : Weights]

\* The text of an item is part of its serialized form, and the JSON names of
\* its fields alone are longer than ITEM_FRAMING_TOKENS.
WellFormed(c) == c.weight >= c.cost

Init ==
    /\ limits \in Limits
    /\ item \in [Items -> {c \in Candidates : WellFormed(c)}]
    /\ phase = "capacity"
    /\ queue = Items
    /\ selected = {}
    /\ used = limits.overhead

\* effective_input_capacity, which raises when nothing is left.
Reserved == limits.output + Safety
HasCapacity == Reserved < limits.window

\* Fault: the window is shared with the answer.
WholeWindow == IF limits.input <= limits.window
               THEN limits.input ELSE limits.window

Capacity == IF limits.input <= limits.window - Reserved
            THEN limits.input ELSE limits.window - Reserved

Cost == [i \in Items |-> item[i].cost]
Weight == [i \in Items |-> item[i].weight]

\* The estimate of the serialized request.
Serialized(items) == limits.overhead + SumFunctionOnSet(Weight, items)

\* The provider's capacity, and the request without a packet.
CheckCapacity ==
    /\ phase = "capacity"
    /\ phase' = IF HasCapacity /\ limits.overhead <= Capacity
                THEN "packing" ELSE "overflow"
    /\ UNCHANGED <<limits, item, queue, selected, used>>

-----------------------------------------------------------------------------
(* pack *)

\* Layer, relevance (the greatest first), temporal distance, stable key.
Precedes(i, j) ==
    LET a == item[i]  b == item[j]
    IN  \/ a.layer < b.layer
        \/ /\ a.layer = b.layer
           /\ \/ a.relevance > b.relevance
              \/ /\ a.relevance = b.relevance
                 /\ \/ a.distance < b.distance
                    \/ a.distance = b.distance /\ i < j

Optional(i) == ~item[i].required

\* The order of the packer: what is required comes first.
PackedBefore(i, j) ==
    \/ item[i].required /\ Optional(j)
    \/ item[i].required = item[j].required /\ Precedes(i, j)

Fits(i) == used + item[i].cost <= Capacity

IsNext(i) == \A j \in queue \ {i} : PackedBefore(i, j)

\* One turn of the loop.
Pack(i) ==
    /\ phase = "packing"
    /\ i \in queue /\ IsNext(i)
    /\ \/ /\ Fits(i)
          /\ selected' = selected \cup {i}
          /\ used' = used + item[i].cost
          /\ queue' = queue \ {i}
          /\ UNCHANGED phase
       \/ /\ ~Fits(i) /\ Optional(i)
          /\ queue' = queue \ {i}
          /\ UNCHANGED <<selected, used, phase>>
       \/ /\ ~Fits(i) /\ item[i].required
          /\ phase' = "overflow"
          /\ UNCHANGED <<selected, used, queue>>
    /\ UNCHANGED <<limits, item>>

Packed ==
    /\ phase = "packing" /\ queue = {}
    /\ phase' = "serializing"
    /\ UNCHANGED <<limits, item, queue, selected, used>>

-----------------------------------------------------------------------------
(* _trim_to_serialized_capacity *)

\* Fault: items are taken out in the order they were put in.
RemovesFirst(i) == \A j \in selected \ {i} : Optional(j) => Precedes(i, j)

\* The item taken out is the last one in the packer's order.
RemovesLast(i) == \A j \in selected \ {i} : Optional(j) => Precedes(j, i)

\* One turn of the loop, a transaction of its own.
Trim(i) ==
    /\ phase = "serializing"
    /\ Serialized(selected) > Capacity
    /\ i \in selected /\ Optional(i) /\ RemovesLast(i)
    /\ selected' = selected \ {i}
    /\ used' = used - item[i].cost
    /\ UNCHANGED <<limits, item, phase, queue>>

\* Nothing is left that may be taken out.
CannotTrim ==
    /\ phase = "serializing"
    /\ Serialized(selected) > Capacity
    /\ \A i \in selected : item[i].required
    /\ phase' = "overflow"
    /\ UNCHANGED <<limits, item, queue, selected, used>>

Send ==
    /\ phase = "serializing"
    /\ Serialized(selected) <= Capacity
    /\ phase' = "sent"
    /\ UNCHANGED <<limits, item, queue, selected, used>>

Next ==
    \/ CheckCapacity \/ Packed \/ CannotTrim \/ Send
    \/ \E i \in Items : Pack(i) \/ Trim(i)

Spec == Init /\ [][Next]_vars

-----------------------------------------------------------------------------
(* Properties *)

\* Types of the packet and of the loops.
TypeOK ==
    /\ limits \in Limits /\ item \in [Items -> Candidates]
    /\ phase \in {"capacity", "packing", "serializing", "sent", "overflow"}
    /\ queue \subseteq Items /\ selected \subseteq Items
    /\ used \in Nat

Required == {i \in Items : item[i].required}
Charged(items) == limits.overhead + SumFunctionOnSet(Cost, items)

\* A request that is sent carries every required item, leaves the reserved
\* output and the safety margin of the window free, and is charged in the
\* packet for exactly the items it carries, whichever of the two rounds left
\* the others out (context/budget.py: pack, orchestrator.py:
\* _trim_to_serialized_capacity).
SentRequestFits ==
    phase = "sent" =>
        /\ Required \subseteq selected
        /\ Serialized(selected) <= limits.input
        /\ Serialized(selected) + Reserved <= limits.window
        /\ used = Charged(selected)

\* What the packer selects: of the items in its order, each that fits beside
\* those it has selected before.
Before(i) == {j \in Items : j # i /\ PackedBefore(j, i)}
FitsIn(items, i) == Charged(items \cap Before(i)) + item[i].cost <= Capacity
Packing == CHOOSE P \in SUBSET Items :
               \A i \in Items : i \in P <=> FitsIn(P, i)

\* The packet is cut where it hurts least.  The items sent are those of the
\* packing that precede some point of its order and no more had to go than the
\* request needed; and the request is given up only when the required items
\* alone would not fit (context/budget.py: pack, orchestrator.py:
\* _trim_to_serialized_capacity).
OnlyTheLeastIsLeftOut ==
    /\ phase = "sent" =>
        LET gone == Packing \ selected
        IN  /\ selected \subseteq Packing
            /\ \A i \in gone, j \in selected : PackedBefore(j, i)
            /\ \A i \in gone :
                (\A j \in gone \ {i} : PackedBefore(i, j)) =>
                    Serialized(selected \cup {i}) > Capacity
    /\ phase = "overflow" => ~HasCapacity \/ Serialized(Required) > Capacity
=============================================================================
