------------------------------ MODULE MCPramin ------------------------------
(***************************************************************************)
(* PraminTransaction for TLC: a VRAM of three windows of two words, plans  *)
(* from the planner (aligned or not, within one window or across several)  *)
(* and plans altered after they were made.                                 *)
(***************************************************************************)
EXTENDS PraminTransaction

Planned == { PlanPraminStage(offset, bytes) : offset \in { 0, 2, 4, 16 }, bytes \in { 0, 4, 6, 8, 12 } }

LastChunk(plan) == plan.chunks[Len(plan.chunks)]

AlterLast(plan, chunk) == [ plan EXCEPT !.chunks[Len(plan.chunks)] = chunk ]

\* One field of the last chunk is changed, a chunk is lost, or two are swapped.
Altered(plan) ==
  LET c == LastChunk(plan)
      n == Len(plan.chunks)
  IN  { AlterLast(plan, [ c EXCEPT !.windowSelector = @ + 1 ]),
        AlterLast(plan, [ c EXCEPT !.windowBase = @ + WindowBytes,
                                   !.windowSelector = @ + WindowBytes \div SelectorUnit ]),
        AlterLast(plan, [ c EXCEPT !.bytes = @ + 4 ]),
        AlterLast(plan, [ c EXCEPT !.bar0ApertureOffset = (@ + 4) % WindowBytes ]),
        [ plan EXCEPT !.chunks = SubSeq(@, 1, n - 1) ],
        [ plan EXCEPT !.chunks = [ k \in 1..n |-> plan.chunks[n + 1 - k] ] ] }

MCPlans == Planned \union Altered(PlanPraminStage(4, 8))

=============================================================================
