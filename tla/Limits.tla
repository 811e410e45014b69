------------------------------- MODULE Limits -------------------------------
(* What the source language and the virtual machine both know of. *)
EXTENDS Naturals

CONSTANTS
  Error,       \* types of thrown objects
  Super,       \* the types that are the same as or a base type of each of them
  MaxFrames,   \* VMState::MAX_FRAME_SIZE
  MaxDepth     \* RecursionGuard::LIMIT

ASSUME LimitsAssumption ==
  /\ {"StackOverflowError", "SystemError"} \subseteq Error
  /\ MaxFrames \in Nat \ {0}
  /\ MaxDepth \in Nat \ {0}
=============================================================================
