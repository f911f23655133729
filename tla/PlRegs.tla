------------------------------- MODULE PlRegs -------------------------------
(***************************************************************************)
(* The control registers of the CCD and the ADC as words: the accessors of *)
(* drivers/pl/axi_to_pl.h, the drivers bsp_ccd.c and bsp_adc.c that change *)
(* one field at a time or all at once, the write block of the PC that sets *)
(* a word as it arrives, and the word a state report is built from.        *)
(* CfgState takes a control word for the collection of its fields; this    *)
(* module is why it may.                                                   *)
(*                                                                         *)
(* A number is the set of the positions of its 1 bits: | is \union, & is   *)
(* \cap, and a shift moves the positions.  The calls come one at a time,   *)
(* and the PL leaves a register as it was written.                         *)
(***************************************************************************)
EXTENDS Integers

CONSTANTS Args,      \* values handed to the drivers for a field
          Times,     \* values handed to the drivers for a 16-bit register
          Junk       \* what a raw word may have beside the fields

Bits == 0 .. 31
U16 == 0 .. 15

ASSUME PlRegsAssumption ==
    /\ \A v \in Args : v \subseteq Bits
    /\ {} \in Times /\ \A t \in Times : t \subseteq U16
    /\ \A j \in Junk : j \subseteq U16

BIT(n) == {n}
GENMASK(h, l) == l .. h
Shl(v, n) == {i + n : i \in v} \cap Bits
Shr(v, n) == {i - n : i \in {j \in v : j >= n}}
Not(v) == Bits \ v
Bool(b) == IF b THEN BIT(0) ELSE {}

CcdFields == {"enable", "ccd1_gain", "ccd2_gain", "mode", "sudo"}
AdcFields == {"adc_mode", "three_channel", "init_err_clr"}
Timings == {"integtim", "sps", "waittim"}     \* a register each
ControlFields == CcdFields \union AdcFields

\* *_SHIFT and *_MASK of bsp_ccd.h and bsp_adc.h.
Shift(f) ==
    CASE f \in {"enable", "adc_mode"}         -> 0
      [] f \in {"ccd1_gain", "three_channel"} -> 1
      [] f = "ccd2_gain"                      -> 2
      [] f = "mode"                           -> 3
      [] f \in {"sudo", "init_err_clr"}       -> 15

Mask(f) == IF f = "mode" THEN GENMASK(4, 3) ELSE BIT(Shift(f))

RegOf(f) == IF f \in CcdFields THEN "CCD_CONTROL" ELSE "ADC_CONTROL"

\* 0x801F and 0x8003
CCD_CONTROL_ALLOWED_MASK == 0 .. 4 \union {15}
ADC_CONTROL_ALLOWED_MASK == {0, 1, 15}

\* The bits a field has, and those of a value that fit.
Width(f) == IF f = "mode" THEN 2 ELSE 1
Fitting(f, v) == v \cap 0 .. Width(f) - 1

VARIABLES reg,      \* register -> word
          asked     \* history: field -> the value last asked for

vars == <<reg, asked>>

-----------------------------------------------------------------------------
\* drivers/pl/axi_to_pl.h
pl_reg_read(r) == reg[r]

pl_reg_write(r, v) == reg' = [reg EXCEPT ![r] = v]

pl_reg_set_bits(r, mask) == pl_reg_write(r, pl_reg_read(r) \union mask)

pl_reg_clear_bits(r, mask) == pl_reg_write(r, pl_reg_read(r) \cap Not(mask))

\* Mutant: the old bits of the field stay.
UpdateKeepsBits(r, mask, v) == pl_reg_write(r, pl_reg_read(r) \union (v \cap mask))

pl_reg_update_bits(r, mask, v) ==
    pl_reg_write(r, (pl_reg_read(r) \cap Not(mask)) \union (v \cap mask))

pl_reg_write_field(r, mask, shift, v) == pl_reg_update_bits(r, mask, Shl(v, shift) \cap mask)

pl_reg_read_field(r, mask, shift) == Shr(pl_reg_read(r) \cap mask, shift)

-----------------------------------------------------------------------------
Ask(f, v) == asked' = [asked EXCEPT ![f] = v]

AskAll(fs, c) == asked' = [f \in DOMAIN asked |-> IF f \in fs THEN c[f] ELSE asked[f]]

\* The configurations a caller may hand over; a bool is 0 or 1.
BoolFields == {"enable", "sudo", "init_err_clr"}
Configs(fs) == {c \in [fs -> Args] : \A f \in fs \cap BoolFields : c[f] \in {{}, BIT(0)}}

\* A configuration as its callers mean it.
Meant(fs, c) == [f \in fs |-> Fitting(f, c[f])]

\* The word bsp_ccd_init, and tcp_cfg_build_ccd_control_word, put together,
\* of each field the bits that fit.
CcdWord(c) ==
    (Shl(c["enable"], Shift("enable")) \cap Mask("enable"))
    \union (Shl(c["ccd1_gain"] \cap {0}, Shift("ccd1_gain")) \cap Mask("ccd1_gain"))
    \union (Shl(c["ccd2_gain"] \cap {0}, Shift("ccd2_gain")) \cap Mask("ccd2_gain"))
    \union (Shl(c["mode"] \cap {0, 1}, Shift("mode")) \cap Mask("mode"))
    \union (Shl(c["sudo"], Shift("sudo")) \cap Mask("sudo"))

AdcWord(c) ==
    (Shl(c["adc_mode"] \cap {0}, Shift("adc_mode")) \cap Mask("adc_mode"))
    \union (Shl(c["three_channel"] \cap {0}, Shift("three_channel")) \cap Mask("three_channel"))
    \union (Shl(c["init_err_clr"], Shift("init_err_clr")) \cap Mask("init_err_clr"))

\* g_ccd_integtim_us and g_ccd_sps_us go along.
bsp_ccd_init(c, integtim, sps) ==
    /\ reg' = [reg EXCEPT !["CCD_CONTROL"] = CcdWord(c), !["integtim"] = integtim,
                          !["sps"] = sps]
    /\ AskAll(CcdFields \union {"integtim", "sps"},
              [f \in CcdFields \union {"integtim", "sps"} |->
                  CASE f = "integtim" -> integtim
                    [] f = "sps" -> sps
                    [] OTHER -> Fitting(f, c[f])])

bsp_ccd_deinit ==
    /\ pl_reg_write("CCD_CONTROL", {})
    /\ AskAll(CcdFields, [f \in CcdFields |-> {}])

\* bsp_ccd_set_enable, bsp_ccd_set_sudo
bsp_ccd_set_bool(f, on) ==
    /\ IF on THEN pl_reg_set_bits("CCD_CONTROL", Mask(f))
       ELSE pl_reg_clear_bits("CCD_CONTROL", Mask(f))
    /\ Ask(f, Bool(on))

\* bsp_ccd_set_ccd1_gain, bsp_ccd_set_ccd2_gain, bsp_ccd_set_mode
bsp_ccd_set_field(f, v) ==
    /\ pl_reg_write_field("CCD_CONTROL", Mask(f), Shift(f), v)
    /\ Ask(f, Fitting(f, v))

\* bsp_ccd_set_integration_time_us, bsp_ccd_set_conversion_rate_us,
\* bsp_ccd_set_delay_time_us
bsp_ccd_set_timing(f, t) == pl_reg_write(f, t) /\ Ask(f, t)

bsp_adc_init(c) ==
    /\ pl_reg_write("ADC_CONTROL", AdcWord(c))
    /\ AskAll(AdcFields, Meant(AdcFields, c))

\* bsp_adc_set_mode, bsp_adc_set_3channel
bsp_adc_set_field(f, v) ==
    /\ pl_reg_write_field("ADC_CONTROL", Mask(f), Shift(f), v)
    /\ Ask(f, Fitting(f, v))

bsp_adc_clear_init_err ==
    /\ pl_reg_set_bits("ADC_CONTROL", Mask("init_err_clr"))
    /\ Ask("init_err_clr", Bool(TRUE))

\* A raw word of the PC or of a caller: the fields where the layout has them,
\* and anything in the other bits.
RawWord(fs, c, junk) ==
    (UNION {Shl(c[f], Shift(f)) : f \in fs}) \union (junk \ (UNION {Mask(f) : f \in fs}))

\* It is written as it is: its other bits stay in the register.
bsp_adc_set_control_reg(c, junk) ==
    /\ pl_reg_write("ADC_CONTROL", RawWord(AdcFields, Meant(AdcFields, c), junk))
    /\ AskAll(AdcFields, Meant(AdcFields, c))

\* The control words of tcp_cfg_handle_write_block, filtered first.
WriteBlockCcd(c, junk) ==
    /\ pl_reg_write("CCD_CONTROL",
                    RawWord(CcdFields, Meant(CcdFields, c), junk) \cap CCD_CONTROL_ALLOWED_MASK)
    /\ AskAll(CcdFields, Meant(CcdFields, c))

WriteBlockAdc(c, junk) ==
    /\ pl_reg_write("ADC_CONTROL",
                    RawWord(AdcFields, Meant(AdcFields, c), junk) \cap ADC_CONTROL_ALLOWED_MASK)
    /\ AskAll(AdcFields, Meant(AdcFields, c))

-----------------------------------------------------------------------------
\* The words a state report carries.
tcp_cfg_build_ccd_control_word(c) == CcdWord(c) \cap CCD_CONTROL_ALLOWED_MASK
tcp_cfg_build_adc_control_word(c) == AdcWord(c) \cap ADC_CONTROL_ALLOWED_MASK

\* bsp_ccd_get_enable_status, bsp_ccd_get_sudo_status, bsp_adc_get_mode
bsp_get_status(f) == pl_reg_read_field(RegOf(f), Mask(f), Shift(f)) # {}

Nothing == [f \in ControlFields \union Timings |-> {}]

\* The PL after a reset: all registers zero.
Init ==
    /\ reg = [r \in {"CCD_CONTROL", "ADC_CONTROL"} \union Timings |-> {}]
    /\ asked = Nothing

CcdDriver ==
    \/ \E c \in Configs(CcdFields), t, u \in Times : bsp_ccd_init(c, t, u)
    \/ bsp_ccd_deinit
    \/ \E f \in {"enable", "sudo"}, on \in BOOLEAN : bsp_ccd_set_bool(f, on)
    \/ \E f \in {"ccd1_gain", "ccd2_gain", "mode"}, v \in Args : bsp_ccd_set_field(f, v)
    \/ \E f \in Timings, t \in Times : bsp_ccd_set_timing(f, t)

AdcDriver ==
    \/ \E c \in Configs(AdcFields) : bsp_adc_init(c)
    \/ \E f \in {"adc_mode", "three_channel"}, v \in Args : bsp_adc_set_field(f, v)
    \/ bsp_adc_clear_init_err
    \/ \E c \in Configs(AdcFields), j \in Junk : bsp_adc_set_control_reg(c, j)

WriteBlock ==
    \/ \E c \in Configs(CcdFields), j \in Junk : WriteBlockCcd(c, j)
    \/ \E c \in Configs(AdcFields), j \in Junk : WriteBlockAdc(c, j)

Next == CcdDriver \/ AdcDriver \/ WriteBlock

Spec == Init /\ [][Next]_vars

-----------------------------------------------------------------------------
\* After any sequence of driver calls and write blocks, every field reads back
\* as it was last asked for, whatever the calls in between did to the other
\* fields of its word; the CCD's word is the one a state report of these fields
\* carries, and so is the ADC's up to bits no field has.
RegistersHoldFields ==
    /\ \A f \in ControlFields : pl_reg_read_field(RegOf(f), Mask(f), Shift(f)) = asked[f]
    /\ \A f \in {"enable", "sudo", "adc_mode"} : bsp_get_status(f) <=> asked[f] = BIT(0)
    /\ \A f \in Timings : pl_reg_read(f) = asked[f]
    /\ pl_reg_read("CCD_CONTROL") = tcp_cfg_build_ccd_control_word(asked)
    /\ pl_reg_read("ADC_CONTROL") \cap ADC_CONTROL_ALLOWED_MASK
            = tcp_cfg_build_adc_control_word(asked)
=============================================================================
