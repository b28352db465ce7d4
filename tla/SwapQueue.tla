-------------------------------- MODULE SwapQueue --------------------------------
(***************************************************************************)
(* What the swap queue of delegate staking promises, without what is       *)
(* swapped: an entry waits Delay blocks, then leaves from the head, at     *)
(* most PerBlock of them in a block.  Staking implements it.               *)
(*                                                                         *)
(* Time is only the wait that is left, so that the queue can be followed   *)
(* for ever.  A hook whose block has little weight to give executes fewer  *)
(* swaps or none, and one in a paused network does not run.                *)
(***************************************************************************)
EXTENDS Integers, Sequences

CONSTANTS Ids, Delay, Capacity, PerBlock, Budgets

ASSUME QueueAssumption ==
  /\ {Delay, Capacity, PerBlock} \subseteq Nat /\ Budgets \subseteq Nat

VARIABLES
  queue,          \* SwapQueueOrder and the age of its items
  paused,         \* TxPause
  phase, left     \* "swaps" while the hook runs, for at most left more

vars == <<queue, paused, phase, left>>

Init == queue = <<>> /\ paused = FALSE /\ phase = "calls" /\ left = 0

InQueue(id) == \E i \in 1 .. Len(queue) : queue[i].id = id

Enqueue(id) ==
  /\ phase = "calls" /\ ~paused
  /\ ~InQueue(id) /\ Len(queue) < Capacity
  /\ queue' = Append(queue, [id |-> id, wait |-> Delay])
  /\ UNCHANGED <<paused, phase, left>>

Aged == [i \in 1 .. Len(queue) |->
           [queue[i] EXCEPT !.wait = IF @ > 0 THEN @ - 1 ELSE 0]]

(* A block whose hook has weight for the given number of swaps.            *)
Block(budget) ==
  /\ phase = "calls" /\ ~paused
  /\ queue' = Aged
  /\ phase' = "swaps" /\ left' = IF budget < PerBlock THEN budget ELSE PerBlock
  /\ UNCHANGED paused

BlockWhilePaused ==
  /\ phase = "calls" /\ paused
  /\ queue' = Aged
  /\ UNCHANGED <<paused, phase, left>>

HeadDue == queue # <<>> /\ Head(queue).wait = 0

(* Mutant: a swap that cannot be executed is queued again.                 *)
ExecuteOrRequeue ==
  /\ phase = "swaps" /\ left > 0 /\ HeadDue
  /\ \/ queue' = Tail(queue)
     \/ queue' = Append(Tail(queue), [Head(queue) EXCEPT !.wait = Delay])
  /\ left' = left - 1
  /\ UNCHANGED <<paused, phase>>

(* Executed or not, it leaves.                                             *)
ExecuteHead ==
  /\ phase = "swaps" /\ left > 0 /\ HeadDue
  /\ queue' = Tail(queue)
  /\ left' = left - 1
  /\ UNCHANGED <<paused, phase>>

HookDone ==
  /\ phase = "swaps" /\ (left = 0 \/ ~HeadDue)
  /\ phase' = "calls" /\ left' = 0
  /\ UNCHANGED <<queue, paused>>

Pause == phase = "calls" /\ ~paused /\ paused' = TRUE /\ UNCHANGED <<queue, phase, left>>

Unpause == phase = "calls" /\ paused /\ paused' = FALSE /\ UNCHANGED <<queue, phase, left>>

Hook == ExecuteHead \/ HookDone

Next ==
  \/ \E id \in Ids : Enqueue(id)
  \/ \E b \in Budgets : Block(b)
  \/ BlockWhilePaused \/ Hook \/ Pause \/ Unpause

Spec == Init /\ [][Next]_vars

(* Blocks are produced for ever and a hook that has begun ends.  Stronger  *)
(* is what the code leaves to its environment: that whoever pauses the     *)
(* network lets it run again, and that time and again a block has weight   *)
(* left for a swap.                                                        *)
Fairness ==
  /\ WF_vars(BlockWhilePaused \/ \E b \in Budgets : Block(b))
  /\ WF_vars(Hook) /\ WF_vars(Unpause)
  /\ SF_vars(\E b \in Budgets \ {0} : Block(b))

FairSpec == Spec /\ Fairness
--------------------------------------------------------------------------------
(* Every swap that is queued leaves the queue in the end, executed or      *)
(* dropped: swaps that come later, pauses and blocks without weight delay  *)
(* it, but none is passed over or waits for ever.  The tokens of a swap    *)
(* are nobody's while it is queued.                                        *)
SwapsLeave == \A id \in Ids : InQueue(id) ~> ~InQueue(id)
================================================================================
