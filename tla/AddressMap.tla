----------------------------- MODULE AddressMap ------------------------------
(***************************************************************************)
(* Where an access goes (rtl/include/eros_pkg.sv): the decoders between a  *)
(* requester and the parts it can reach, and the addresses that software,  *)
(* linker script and processors have built in.                             *)
(*                                                                         *)
(* Addresses are 32 bits wide and counted in units of 16 bytes.  The rule  *)
(* of ERROR_IDX is left out: it is a single byte, and what matches no rule *)
(* goes there as well.                                                     *)
(***************************************************************************)
EXTENDS Integers, RegisterFile

Width == \h10000000              \* 2^28 units of 16 bytes
Plus(a, b) == (a + b) % Width    \* sums of parameters are cut to 32 bits

Rule(idx, start, size) == [idx |-> idx, start |-> start, end |-> Plus(start, size)]
Within(a, r) == r.start <= a /\ (a < r.end \/ r.end = 0)

decode(a, rules, default) ==
  LET hits == {r \in rules : Within(a, r)} IN
  IF hits = {} THEN default ELSE (CHOOSE r \in hits : TRUE).idx

(***************************************************************************)
(* The parameters of eros_pkg.sv.                                          *)
(***************************************************************************)
GLOBAL_BASE_ADDRESS == \hF000000
SAFE_CSR_BASE_ADDRESS == \h2007000

RAM0 == Rule("RAM0", Plus(GLOBAL_BASE_ADDRESS, \h2000), \h800)
RAM1 == Rule("RAM1", Plus(GLOBAL_BASE_ADDRESS, \h2800), \h800)
PERIPHERAL == Rule("ROM", Plus(GLOBAL_BASE_ADDRESS, \h1000), \h200)
EXTERNAL_PERIPHERAL == Rule("EXTERNAL", 0, \h4100000)
\* Mutant: the private register takes the addresses of the ROM with it.
CPU_REG_Long == Rule("CPU_REG", GLOBAL_BASE_ADDRESS, \h1200)
CPU_REG == Rule("CPU_REG", GLOBAL_BASE_ADDRESS, \h1000)
SAFE_CPU_REGISTER == Rule("SAFE_CPU_REGISTER", SAFE_CSR_BASE_ADDRESS, \h10)
GLOBAL_END_ADDRESS == Plus(GLOBAL_BASE_ADDRESS, RAM1.end)

XBAR_ADDR_RULES == {RAM0, RAM1, PERIPHERAL, EXTERNAL_PERIPHERAL}
DEBUG_BOOTROM_START_ADDRESS == PERIPHERAL.start

(***************************************************************************)
(* The decoders on the way of each requester.                              *)
(***************************************************************************)
Requester == {"instr", "data", "host", "axi"}

SystemBus(a) == decode(a, XBAR_ADDR_RULES, "ERROR")

\* A data access of a hart: to its own register, the control registers, the bus.
DataPort(a) == decode(a, {CPU_REG}, decode(a, {SAFE_CPU_REGISTER}, SystemBus(a)))

\* The AXI wrapper passes what lies in the one rule of its adapter.
AddrMap == {[idx |-> "APB", start |-> GLOBAL_BASE_ADDRESS, end |-> GLOBAL_END_ADDRESS]}
AxiPort(a) == IF decode(a, AddrMap, "DECERR") = "DECERR" THEN "DECERR" ELSE SystemBus(a)

Route(q, a) == CASE q = "data" -> DataPort(a)
                 [] q = "axi"  -> AxiPort(a)
                 [] OTHER      -> SystemBus(a)

\* The word of a bank: the low 15 bits of the address.  Mutant: one bit less.
Word_Narrow(a) == a % \h400
Word(a) == a % \h800

(***************************************************************************)
(* Every access around the limits of the ranges, one at a time.            *)
(***************************************************************************)
Limits == UNION { {r.start, r.end} :
                  r \in XBAR_ADDR_RULES \cup {CPU_REG, SAFE_CPU_REGISTER} }
\* The entries of the ROM, the start of the program, the checkpoint, the free
\* location and the check area.
BuiltIn ==
  {<<"instr", BOOT_OFFSET, "ROM">>, <<"instr", DEBUG_OFFSET, "ROM">>,
   <<"instr", Plus(\hF000000, \h2018), "RAM0">>,
   <<"data", \hF002900, "RAM1">>, <<"data", \hF002A00, "RAM1">>,
   <<"data", \hF002B00, "RAM1">>}
Named == {Unit(SAFE_WRAPPER_CTRL_BASEADDRESS, e) : e \in Safe_wrapper_ctrl_regs}
         \cup {PRIVATE_REG_BASEADDRESS}
Addresses == {b[2] : b \in BuiltIn} \cup Named \cup
  UNION { {Plus(a, Width - 1), a, Plus(a, 1), Plus(a, \h400)} : a \in Limits }

VARIABLES who, addr
mapVars == <<who, addr>>

MapInit == who \in Requester /\ addr \in Addresses
MapNext == who' \in Requester /\ addr' \in Addresses
MapSpec == MapInit /\ [][MapNext]_mapVars

(***************************************************************************)
(* Properties.                                                             *)
(***************************************************************************)
\* Code that the host has written is what the harts fetch and load: an address
\* of the memory or of the ROM leads fetch, load and host to the same place; the
\* registers that only data accesses reach hide none of them.
OneAddressOnePlace ==
  Route("instr", addr) \in {"RAM0", "RAM1", "ROM"} =>
    Route("data", addr) = Route("instr", addr) /\ Route("host", addr) = Route("instr", addr)

\* Different addresses of the memory are different words.
NoAlias ==
  \A a \in Addresses : a # addr /\ Route(who, addr) \in {"RAM0", "RAM1"}
     /\ Route(who, a) = Route(who, addr) => Word(a) # Word(addr)

\* What software, linker script and processors have built in is where they
\* expect it: the ROM with its two entries, the fixed places in the memory, and
\* under each name of a register the bits that the hardware has for it, in the
\* words that a data access of a hart finds at that address.
RegistersAgree ==
  /\ \A b \in BuiltIn : b[1] = who /\ b[2] = addr => Route(who, addr) = b[3]
  /\ \A e \in Safe_wrapper_ctrl_regs \cup HelloWorldUses :
       who = "data" /\ addr = Unit(SAFE_WRAPPER_CTRL_BASEADDRESS, e) =>
         Route(who, addr) = "SAFE_CPU_REGISTER" /\ Reaches(e, SafeWrapperHits, 6)
  /\ \A e \in CPU_Private_regs :
       who = "data" /\ addr = Unit(PRIVATE_REG_BASEADDRESS, e) =>
         Route(who, addr) = "CPU_REG" /\ Reaches(e, CpuPrivateHits, 4)

\* "Single APB Slave -> All OBI Addr": the AXI wrapper passes every address of
\* the memory.
AxiReachesMemory ==
  Route("host", addr) \in {"RAM0", "RAM1"} => Route("axi", addr) = Route("host", addr)
=============================================================================
