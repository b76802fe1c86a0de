--------------------------- MODULE MCApplications ----------------------------
(***************************************************************************)
(* The instance of Applications that TLC checks.                           *)
(***************************************************************************)
EXTENDS Applications

AllPrograms == {"test_encrypt_ecb", "test_decrypt_ecb", "test_encrypt_ecb_verbose",
                "hello_world", "calls"}

\* A unit, two of them, back and forth, and the largest increments that there
\* are, which lead around the end of the address space.
SomeIncrements ==
  {-2, -1, 0, 1, 2} \cup {-(Addresses \div 2), Addresses \div 2 - 1}
=============================================================================
