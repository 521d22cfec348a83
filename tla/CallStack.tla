----------------------------- MODULE CallStack -----------------------------
(***************************************************************************)
(* What CALL and RET promise a program, without registers or memory: a     *)
(* bounded last-in first-out stack of return addresses.  kind says what    *)
(* the machine is about to execute.  RocketCpu implements this             *)
(* specification with the frames it keeps in the stack region.             *)
(***************************************************************************)
EXTENDS RocketIsa, Sequences

CONSTANTS
  Capacity,   \* frames the stack region can hold
  Landing     \* the addresses a transfer of control may go to

VARIABLES
  pc,       \* address of the next instruction
  stack,    \* return addresses, the innermost last
  kind,     \* "call", "ret", "store", "other"; "none" beyond the program
  stopped   \* the machine executes no more

vars == <<pc, stack, kind, stopped>>

Kind == {"call", "ret", "store", "other", "none"}

Next2 == (pc + 2) % 65536
Top == stack[Len(stack)]
Popped == SubSeq(stack, 1, Len(stack) - 1)

Init == /\ pc = 0
        /\ stack = <<>>
        /\ kind \in Kind
        /\ stopped = FALSE

\* Whatever is executed next is not this specification's business.
Continue == ~stopped /\ kind' \in Kind /\ stopped' = FALSE

Call == /\ kind = "call"
        /\ Continue
        /\ Len(stack) < Capacity
        /\ stack' = Append(stack, Next2)
        /\ pc' \in Landing

Return == /\ kind = "ret"
          /\ Continue
          /\ stack # <<>>
          /\ Top \in Landing
          /\ pc' = Top
          /\ stack' = Popped

\* Anything else, a branch included, keeps every frame as it is.
Step == /\ kind = "other"
        /\ Continue
        /\ pc' \in Landing
        /\ UNCHANGED stack

(***************************************************************************)
(* A store may hit the stack region.  It cannot change the depth, and it   *)
(* writes one word at an even address, while a frame sits at an odd one:   *)
(* two neighbouring frames are the most it can damage.                     *)
(***************************************************************************)
Store == /\ kind = "store"
         /\ Continue
         /\ pc' = Next2
         /\ Len(stack') = Len(stack)
         /\ \E i \in 0 .. Len(stack) : \A j \in DOMAIN stack :
              j \notin {i, i + 1} => stack'[j] = stack[j]

\* A RET that finds a damaged frame has already taken it off the stack.
ReturnFault == /\ kind = "ret"
               /\ ~stopped /\ stopped' = TRUE
               /\ stack # <<>>
               /\ Top \notin Landing
               /\ stack' = Popped
               /\ pc' = Next2
               /\ kind' \in Kind

\* Every other stop leaves the frames alone; a RET stops only on an empty
\* stack.
Stop == /\ ~stopped /\ stopped' = TRUE
        /\ kind = "ret" => stack = <<>>
        /\ pc' \in {pc, Next2}
        /\ kind' \in Kind
        /\ UNCHANGED stack

Next == Call \/ Return \/ Step \/ Store \/ ReturnFault \/ Stop

Spec == Init /\ [][Next]_vars

=============================================================================
