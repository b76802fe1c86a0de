----------------------------- MODULE MCSavedState -----------------------------
(***************************************************************************)
(* The instance of SavedState that TLC checks.                             *)
(***************************************************************************)
EXTENDS SavedState

BothModes == {"TCLS", "DCLS"}

\* A register of each kind: the stack pointer, what the routines work with,
\* what they only save, and a control register.
FragileRegisters == {"sp", "t6", "a5", "s5", "mepc"}

\* The program everywhere; the library and the repair in the voted mode only.
WhereFaultsHit ==
  [TCLS |-> {"main", "Store_Checkpoint", "Check_RF",
            "handler_tmr_recoverysync"},
   DCLS |-> {"main"}]
=============================================================================
