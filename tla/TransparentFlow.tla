--------------------------- MODULE TransparentFlow ---------------------------
(***************************************************************************)
(* What an agent may rely on for its TCP flows, whoever carries them: each *)
(* is a pair of reliable byte streams that may be cut, as the kernel       *)
(* itself would deliver it.  Chunks of bytes are numbered in the order     *)
(* they are written, so a stream received correctly reads 1, 2, 3, ...     *)
(***************************************************************************)
EXTENDS Naturals, Sequences

CONSTANT Flows

VARIABLES
  wrote,       \* number of chunks the agent has written
  delivered,   \* the chunks that left for the origin, in order
  replied,     \* number of chunks the origin has written
  returned,    \* number of them handed back to the agent
  open         \* FALSE once the flow is cut

vars == <<wrote, delivered, replied, returned, open>>

FirstChunks(n) == [i \in 1 .. n |-> i]

Init ==
  /\ wrote     = [f \in Flows |-> 0]
  /\ delivered = [f \in Flows |-> << >>]
  /\ replied   = [f \in Flows |-> 0]
  /\ returned  = [f \in Flows |-> 0]
  /\ open      = [f \in Flows |-> TRUE]

AgentWrites(f) ==
  /\ wrote' = [wrote EXCEPT ![f] = @ + 1]
  /\ UNCHANGED <<delivered, replied, returned, open>>

OriginWrites(f) ==
  /\ replied' = [replied EXCEPT ![f] = @ + 1]
  /\ UNCHANGED <<wrote, delivered, returned, open>>

(* Bytes go to one place, once, in order, and only bytes that were written. *)
Deliver(f) ==
  /\ open[f]
  /\ \E n \in Len(delivered[f]) + 1 .. wrote[f] :
       delivered' = [delivered EXCEPT ![f] = FirstChunks(n)]
  /\ UNCHANGED <<wrote, replied, returned, open>>

(* The last chunk returned may be the end of the flow. *)
Return(f) ==
  /\ open[f]
  /\ returned[f] < replied[f]
  /\ returned' = [returned EXCEPT ![f] = @ + 1]
  /\ \E o \in BOOLEAN : open' = [open EXCEPT ![f] = o]
  /\ UNCHANGED <<wrote, delivered, replied>>

Cut(f) ==
  /\ open[f]
  /\ open' = [open EXCEPT ![f] = FALSE]
  /\ UNCHANGED <<wrote, delivered, replied, returned>>

Next ==
  \E f \in Flows :
    AgentWrites(f) \/ OriginWrites(f) \/ Deliver(f) \/ Return(f) \/ Cut(f)

Spec == Init /\ [][Next]_vars

===============================================================================
