---------------------------- MODULE RegisterFile -----------------------------
(***************************************************************************)
(* The names that software has for registers and addresses                 *)
(* (sw/CB_device/lib/cb_register, lib/base_address), and the registers     *)
(* that the hardware has there (rtl/safe_wrapper_ctrl_reg_pkg.sv and       *)
(* _reg_top.sv, rtl/cpu_private_reg_pkg.sv and _reg_top.sv).               *)
(*                                                                         *)
(* A name stands for bits of a word: an entry has the register, the field, *)
(* the offset of the word and the first and last bit.                      *)
(***************************************************************************)
EXTENDS Integers, Sequences

\* The whole word, or the low bits of one, as a register with a single field.
Word32(reg, offset)      == <<reg, reg, offset, 0, 31>>
Low(reg, offset, last)   == <<reg, reg, offset, 0, last>>
Bits(reg, field, offset, first, last) == <<reg, field, offset, first, last>>

\* CB_heep_ctrl_regs.h, which is the header of an earlier register file.
CB_heep_ctrl_regs ==
  {Low("SAFE_CONFIGURATION", \h0, 1), Low("DMR_MASK", \h4, 2), Low("MASTER_CORE", \h8, 2),
   Low("CRITICAL_SECTION", \hc, 0), Low("START", \h10, 0), Word32("BOOT_ADDRESS", \h14),
   Low("END_SW_ROUTINE", \h18, 0),
   Bits("INTERRUPT_CONTROLER", "ENABLE_INTERRUPT", \h1c, 0, 0),
   Bits("INTERRUPT_CONTROLER", "STATUS_INTERRUPT", \h1c, 1, 1),
   Bits("CB_HEEP_STATUS", "CORES_SLEEP", \h20, 0, 2),
   Bits("CB_HEEP_STATUS", "CORES_DEBUG_MODE", \h20, 3, 5)}

\* Safe_wrapper_ctrl_regs.h.  Mutant: the header has not been generated again.
Safe_wrapper_ctrl_regs_Stale == CB_heep_ctrl_regs
Safe_wrapper_ctrl_regs ==
  {Low("SAFE_CONFIGURATION", \h0, 1), Low("DMR_MASK", \h4, 2), Low("MASTER_CORE", \h8, 2),
   Low("CRITICAL_SECTION", \hc, 0), Low("START", \h10, 0), Word32("BOOT_ADDRESS", \h14),
   Low("EXTERNAL_DEBUG_REQ", \h18, 1), Low("INITIAL_SYNC_MASTER", \h1c, 0),
   Low("END_SW_ROUTINE", \h20, 0), Word32("ENTRY_ADDRESS", \h24),
   Word32("SAFE_COPY_ADDRESS", \h28),
   Bits("INTERRUPT_CONTROLER", "ENABLE_INTERRUPT", \h2c, 0, 0),
   Bits("INTERRUPT_CONTROLER", "STATUS_INTERRUPT", \h2c, 1, 1),
   Bits("CB_HEEP_STATUS", "CORES_SLEEP", \h30, 0, 2),
   Bits("CB_HEEP_STATUS", "CORES_DEBUG_MODE", \h30, 3, 5),
   Low("DMR_REC", \h34, 0), Word32("INITIAL_STACK_ADDR", \h38)}

\* CPU_Private_regs.h.
CPU_Private_regs ==
  {Low("CORE_ID", \h0, 2), Low("HART_INTC_ACK", \h4, 0),
   Bits("BREAKPOINT_SIM", "BREAKPOINT", \h8, 0, 0)}

\* The one name that a program takes from the old header.
HelloWorldUses == {e \in CB_heep_ctrl_regs : e[1] = "DMR_MASK"}

(***************************************************************************)
(* The hardware: addr_hit compares the low bits of the address with the    *)
(* offsets, which follow each other word by word, and the fields have      *)
(* their bits of the word.                                                 *)
(***************************************************************************)
SafeWrapperHits ==
  <<"SAFE_CONFIGURATION", "DMR_MASK", "MASTER_CORE", "CRITICAL_SECTION", "START",
    "BOOT_ADDRESS", "EXTERNAL_DEBUG_REQ", "INITIAL_SYNC_MASTER", "END_SW_ROUTINE",
    "ENTRY_ADDRESS", "SAFE_COPY_ADDRESS", "INTERRUPT_CONTROLER", "CB_HEEP_STATUS",
    "DMR_REC", "INITIAL_STACK_ADDR">>
CpuPrivateHits == <<"CORE_ID", "HART_INTC_ACK", "BREAKPOINT_SIM">>

addr_hit(hits, BlockAw, a) ==
  LET n == (a % 2 ^ BlockAw) \div 4 + 1 IN IF n \in DOMAIN hits THEN hits[n] ELSE "miss"

\* Fields that are not the low bits of their register, and the last bits of
\* the others.
Slice(reg, field) ==
  CASE field = "ENABLE_INTERRUPT" -> <<0, 0>>
    [] field = "STATUS_INTERRUPT" -> <<1, 1>>
    [] field = "CORES_SLEEP"      -> <<0, 2>>
    [] field = "CORES_DEBUG_MODE" -> <<3, 5>>
    [] reg \in {"SAFE_CONFIGURATION", "EXTERNAL_DEBUG_REQ"}  -> <<0, 1>>
    [] reg \in {"DMR_MASK", "MASTER_CORE", "CORE_ID"}        -> <<0, 2>>
    [] reg \in {"BOOT_ADDRESS", "ENTRY_ADDRESS", "SAFE_COPY_ADDRESS",
                "INITIAL_STACK_ADDR"}                        -> <<0, 31>>
    [] OTHER -> <<0, 0>>

\* The bits that entry e names are those of its register and field.
Reaches(e, hits, BlockAw) ==
  addr_hit(hits, BlockAw, e[3]) = e[1] /\ Slice(e[1], e[2]) = <<e[4], e[5]>>

(***************************************************************************)
(* base_address.h, in units of 16 bytes, which no register straddles.      *)
(***************************************************************************)
PRIVATE_REG_BASEADDRESS       == \hF000000
SAFE_WRAPPER_CTRL_BASEADDRESS == \h2007000
BOOT_OFFSET  == \hF001000
DEBUG_OFFSET == \hF001005

Unit(base, e) == base + e[3] \div 16
=============================================================================
