------------------------------ MODULE CfgState ------------------------------
(***************************************************************************)
(* The configuration of the CCD and the ADC: the software's shadow of it   *)
(* (bsp/bsp_cfg_state.c), the PL's registers, and the two that use them.   *)
(* lwIP's thread applies a write block of the PC, field by field,          *)
(* tcp_cfg_handle_write_block in middleware/protocol/tcp_cfg_proto.c.  The *)
(* TCP task reads the shadow for a state report, field by field and        *)
(* without a lock, tcp_cfg_send_state_report.  Either may run between any  *)
(* two steps of the other.                                                 *)
(*                                                                         *)
(* A control word is the collection of its fields, in the block, in a      *)
(* register and in the report; bits outside the fields are masked out in   *)
(* the code and have no counterpart here.                                  *)
(***************************************************************************)
EXTENDS Naturals, Sequences, FiniteSets

CONSTANTS Blocks,    \* the write blocks the PC may send: [mask, value]
          WaitTims,  \* what PL_CCD_WAITTIM_REG may hold after a reset
          OVERLAP    \* bound: configurations in force during one report

CcdControl == {"enable", "ccd1_gain", "ccd2_gain", "mode", "sudo"}
AdcControl == {"adc_mode", "three_channel", "init_err_clr"}
Fields == CcdControl \union AdcControl \union {"integtim", "sps", "waittim"}

\* The registers, and the fields each of them holds.
Registers == {"CCD_CONTROL", "CCD_INTEGTIM", "CCD_SPS", "CCD_WAITTIM", "ADC_CONTROL"}

FieldsOf(r) ==
    CASE r = "CCD_CONTROL"  -> CcdControl
      [] r = "CCD_INTEGTIM" -> {"integtim"}
      [] r = "CCD_SPS"      -> {"sps"}
      [] r = "CCD_WAITTIM"  -> {"waittim"}
      [] r = "ADC_CONTROL"  -> AdcControl

Modes == {1, 2}     \* CCD_MODE_INNER_AUTO, CCD_MODE_EXTER_ONCE

Values(f) ==
    CASE f = "mode" -> 0 .. 3
      [] f \in {"integtim", "sps", "waittim"} -> 0 .. 65535
      [] OTHER -> 0 .. 1

IsConfig(c) == c \in [Fields -> Nat] /\ \A f \in Fields : c[f] \in Values(f)

ASSUME CfgStateAssumption ==
    /\ Blocks # {} /\ \A b \in Blocks : b.mask \subseteq Registers /\ IsConfig(b.value)
    /\ OVERLAP \in Nat \ {0}
    /\ WaitTims # {} /\ WaitTims \subseteq Values("waittim")

VARIABLES shadow,     \* ccd_cfg_handle, adc_cfg_handle, g_ccd_integtim_us, ...
          reg,        \* the contents of the PL's registers, by field
          written,    \* history: the registers the software has written
          block,      \* the write block being applied
          wpos,       \* lwIP's thread: the step of Program it is at, 0: none
          report,     \* the TCP task: the fields it has read
          rpos,       \* the TCP task: the field of ReadOrder it reads, 0: none
          before,     \* history: the shadow before the block being applied
          seen        \* history: the configurations in force during the report

vars == <<shadow, reg, written, block, wpos, report, rpos, before, seen>>

\* The assignments of tcp_cfg_handle_write_block in their order: fields of the
\* shadow, and after the last field of a register the register itself.
Program == <<"enable", "ccd1_gain", "ccd2_gain", "mode", "sudo", "CCD_CONTROL",
             "integtim", "CCD_INTEGTIM", "sps", "CCD_SPS", "waittim", "CCD_WAITTIM",
             "adc_mode", "three_channel", "init_err_clr", "ADC_CONTROL">>

\* The reads of tcp_cfg_send_state_report in their order.
ReadOrder == <<"enable", "ccd1_gain", "ccd2_gain", "mode", "sudo",
               "adc_mode", "three_channel", "init_err_clr",
               "integtim", "sps", "waittim">>

\* The initial values of the shadow.
Defaults ==
    [f \in Fields |->
        CASE f \in {"ccd1_gain", "ccd2_gain", "mode"} -> 1
          [] f = "integtim" -> 100
          [] f = "sps" -> 1000
          [] OTHER -> 0]

\* Only a mode the software knows is stored.
Accepted(f, v) == f = "mode" => v \in Modes

\* What a write block makes of a configuration.
After(b, c) ==
    [f \in Fields |->
        IF (\E r \in b.mask : f \in FieldsOf(r)) /\ Accepted(f, b.value[f])
        THEN b.value[f] ELSE c[f]]

\* bsp_ccd_init and bsp_adc_init have written the defaults, but not WAITTIM.
Init ==
    /\ shadow = Defaults
    /\ \E w \in WaitTims : reg = [Defaults EXCEPT !["waittim"] = w]
    /\ written = Registers \ {"CCD_WAITTIM"}
    /\ block = (CHOOSE b \in Blocks : TRUE) /\ wpos = 0
    /\ report = Defaults /\ rpos = 0
    /\ before = Defaults /\ seen = {}
-----------------------------------------------------------------------------
\* The steps of Program a block takes: those of the registers its mask names.
StepsOf(b) ==
    {i \in 1 .. Len(Program) :
        \E r \in b.mask : Program[i] = r \/ Program[i] \in FieldsOf(r)}

\* A complete write block has arrived; one whose mask is empty does nothing.
BeginBlock(b) ==
    /\ wpos = 0
    /\ block' = b
    /\ wpos' \in StepsOf(b) /\ \A i \in StepsOf(b) : wpos' <= i
    /\ seen' = IF rpos = 0 THEN seen ELSE seen \union {After(b, shadow)}
    /\ Cardinality(seen') <= OVERLAP
    /\ before' = shadow
    /\ UNCHANGED <<shadow, reg, written, report, rpos>>

\* Mutant: the end of the block is missed.
NextStepRunsOn == wpos' = wpos + 1 /\ UNCHANGED block

\* On to the next step of the block, or back to waiting for one.
NextStep ==
    LET rest == {i \in StepsOf(block) : i > wpos} IN
    IF rest = {}
    THEN wpos' = 0 /\ block' = CHOOSE b \in Blocks : TRUE
    ELSE wpos' \in rest /\ (\A i \in rest : wpos' <= i) /\ UNCHANGED block

StoreField ==
    /\ wpos # 0
    /\ LET f == Program[wpos] IN
          /\ f \in Fields
          /\ shadow' = IF Accepted(f, block.value[f])
                       THEN [shadow EXCEPT ![f] = block.value[f]] ELSE shadow
    /\ NextStep
    /\ before' = IF wpos' = 0 THEN shadow' ELSE before
    /\ UNCHANGED <<reg, written, report, rpos, seen>>

\* Mutant: the waiting time goes to the shadow only.
WriteMostRegs ==
    /\ wpos # 0
    /\ LET r == Program[wpos] IN
          /\ r \in Registers
          /\ reg' = IF r = "CCD_WAITTIM" THEN reg
                    ELSE [f \in Fields |-> IF f \in FieldsOf(r) THEN block.value[f] ELSE reg[f]]
          /\ written' = written \union {r}
    /\ NextStep
    /\ before' = IF wpos' = 0 THEN shadow ELSE before
    /\ UNCHANGED <<shadow, report, rpos, seen>>

\* The word as the block has it, not as the shadow has it.
WriteRegister ==
    /\ wpos # 0
    /\ LET r == Program[wpos] IN
          /\ r \in Registers
          /\ reg' = [f \in Fields |-> IF f \in FieldsOf(r) THEN block.value[f] ELSE reg[f]]
          /\ written' = written \union {r}
    /\ NextStep
    /\ before' = IF wpos' = 0 THEN shadow ELSE before
    /\ UNCHANGED <<shadow, report, rpos, seen>>

tcp_cfg_handle_write_block == (\E b \in Blocks : BeginBlock(b)) \/ StoreField \/ WriteRegister

\* A new connection: the TCP task starts a report.
BeginReport ==
    /\ rpos = 0
    /\ rpos' = 1
    /\ seen' = IF wpos = 0 THEN {shadow} ELSE {before, After(block, before)}
    /\ UNCHANGED <<shadow, reg, written, block, wpos, before, report>>

\* Mutant: the report reads the registers instead of the shadow.
ReadFromRegister ==
    /\ rpos \in 1 .. Len(ReadOrder)
    /\ report' = [report EXCEPT ![ReadOrder[rpos]] = reg[ReadOrder[rpos]]]
    /\ rpos' = rpos + 1
    /\ UNCHANGED <<shadow, reg, written, block, wpos, before, seen>>

ReadField ==
    /\ rpos \in 1 .. Len(ReadOrder)
    /\ report' = [report EXCEPT ![ReadOrder[rpos]] = shadow[ReadOrder[rpos]]]
    /\ rpos' = rpos + 1
    /\ UNCHANGED <<shadow, reg, written, block, wpos, before, seen>>

\* The report is handed to tcp_client_send_data; it is forgotten here.
SendReport ==
    /\ rpos > Len(ReadOrder)
    /\ rpos' = 0
    /\ report' = Defaults /\ seen' = {}
    /\ UNCHANGED <<shadow, reg, written, block, wpos, before>>

tcp_cfg_send_state_report == BeginReport \/ ReadField \/ SendReport

Next == tcp_cfg_handle_write_block \/ tcp_cfg_send_state_report

Spec == Init /\ [][Next]_vars
-----------------------------------------------------------------------------
TypeOK ==
    /\ IsConfig(shadow) /\ IsConfig(reg) /\ IsConfig(report) /\ IsConfig(before)
    /\ written \subseteq Registers
    /\ block \in Blocks
    /\ wpos \in 0 .. Len(Program)
    /\ rpos \in 0 .. Len(ReadOrder) + 1
    /\ \A c \in seen : IsConfig(c)

\* Between two blocks every register the software has written holds what the
\* shadow says, whatever the sequence of masks and values; only a mode the
\* shadow refused may differ, and then it is an illegal one.
RegistersFollow ==
    wpos = 0 =>
        \A r \in written : \A f \in FieldsOf(r) :
            \/ reg[f] = shadow[f]
            \/ f = "mode" /\ reg[f] \notin Modes

\* However a report and write blocks interleave, every field reported is that of
\* a configuration in force while the report was made, and a report that no block
\* overlapped is exactly the configuration.
ReportCurrent ==
    rpos = Len(ReadOrder) + 1 =>
        \A f \in Fields : \E c \in seen : report[f] = c[f]

\* bsp_cfg_state.h says that the shadow is kept in step when a configuration is
\* written: the registers hold what the shadow says between two blocks.
ShadowInStep ==
    wpos = 0 => \A r \in written : \A f \in FieldsOf(r) : reg[f] = shadow[f]
=============================================================================
