--------------------------- MODULE CfgStateProofs ---------------------------
EXTENDS CfgState, TLAPS
(***************************************************************************)
(* The safety of CfgState: where a write block has got to decides what     *)
(* shadow and registers hold, field by field, and that is inductive.       *)
(***************************************************************************)

\* The block being applied has passed this step.
Passed(x) == \E i \in StepsOf(block) : i < wpos /\ Program[i] = x

Idle == wpos = 0 => shadow = before

\* While a block is applied, the fields it has passed are new, the others old.
ShadowProgress ==
    wpos # 0 =>
        \A f \in Fields :
            shadow[f] = IF Passed(f) THEN After(block, before)[f] ELSE before[f]

Follows(f, c) == (f = "mode" /\ reg[f] \notin Modes) \/ reg[f] = c[f]

\* So are the registers, and those not yet reached follow the old shadow.
RegisterProgress ==
    wpos # 0 =>
        \A r \in written : \A f \in FieldsOf(r) :
            IF Passed(r) THEN reg[f] = block.value[f] ELSE Follows(f, before)

AtStep == wpos # 0 => wpos \in StepsOf(block)

\* What a report may meet has been noted.
SeenInForce ==
    rpos # 0 => /\ before \in seen
                /\ wpos # 0 => After(block, before) \in seen

\* What it has read so far was in force.
ReadSoFar ==
    \A j \in 1 .. Len(ReadOrder) :
        j < rpos => \E c \in seen : report[ReadOrder[j]] = c[ReadOrder[j]]

IInv ==
    /\ TypeOK /\ AtStep /\ Idle /\ ShadowProgress /\ RegisterProgress
    /\ RegistersFollow /\ SeenInForce /\ ReadSoFar

\* The fields of different registers differ, and are no registers.
LEMMA Layout ==
    /\ Fields \intersect Registers = {}
    /\ \A r \in Registers : FieldsOf(r) \subseteq Fields
    /\ \A r, s \in Registers : \A f \in FieldsOf(r) : f \in FieldsOf(s) => r = s
  BY DEF Fields, Registers, FieldsOf, CcdControl, AdcControl

\* Every field, and every register, is a step of the program.
LEMMA ProgramComplete ==
    /\ Len(Program) = 16
    /\ \A i \in 1 .. 16 : Program[i] \in Fields \union Registers
    /\ \A x \in Fields \union Registers : \E i \in 1 .. 16 : Program[i] = x
<1> DEFINE P == Program
<1>1. /\ P[1] = "enable" /\ P[2] = "ccd1_gain" /\ P[3] = "ccd2_gain" /\ P[4] = "mode"
      /\ P[5] = "sudo" /\ P[6] = "CCD_CONTROL" /\ P[7] = "integtim"
      /\ P[8] = "CCD_INTEGTIM" /\ P[9] = "sps" /\ P[10] = "CCD_SPS"
      /\ P[11] = "waittim" /\ P[12] = "CCD_WAITTIM" /\ P[13] = "adc_mode"
      /\ P[14] = "three_channel" /\ P[15] = "init_err_clr" /\ P[16] = "ADC_CONTROL"
      /\ Len(P) = 16
  BY DEF Program
<1> HIDE DEF P
<1>2. \A i \in 1 .. 16 : P[i] \in Fields \union Registers
  BY <1>1 DEF Fields, Registers, CcdControl, AdcControl
<1>3. \A x \in Fields \union Registers : \E i \in 1 .. 16 : P[i] = x
  BY <1>1 DEF Fields, Registers, CcdControl, AdcControl
<1> QED
  BY <1>1, <1>2, <1>3 DEF P

\* The fields the report reads are fields, and it reads them all.
LEMMA ReadsComplete ==
    /\ Len(ReadOrder) = 11
    /\ \A i \in 1 .. 11 : ReadOrder[i] \in Fields
    /\ \A f \in Fields : \E i \in 1 .. 11 : ReadOrder[i] = f
<1> DEFINE R == ReadOrder
<1>1. /\ R[1] = "enable" /\ R[2] = "ccd1_gain" /\ R[3] = "ccd2_gain" /\ R[4] = "mode"
      /\ R[5] = "sudo" /\ R[6] = "adc_mode" /\ R[7] = "three_channel"
      /\ R[8] = "init_err_clr" /\ R[9] = "integtim" /\ R[10] = "sps" /\ R[11] = "waittim"
      /\ Len(R) = 11
  BY DEF ReadOrder
<1> HIDE DEF R
<1>2. \A i \in 1 .. 11 : R[i] \in Fields
  BY <1>1 DEF Fields, CcdControl, AdcControl
<1>3. \A f \in Fields : \E i \in 1 .. 11 : R[i] = f
  BY <1>1 DEF Fields, CcdControl, AdcControl
<1> QED
  BY <1>1, <1>2, <1>3 DEF R

\* A write block makes of a configuration a configuration.
LEMMA AfterConfig ==
    ASSUME NEW b \in Blocks, NEW c, IsConfig(c)
    PROVE  IsConfig(After(b, c))
  BY CfgStateAssumption DEF IsConfig, After

LEMMA DefaultsConfig == IsConfig(Defaults)
  BY DEF IsConfig, Defaults, Fields, Values, CcdControl, AdcControl

\* The steps of a block: its registers, and their fields.
LEMMA StepsFacts ==
    ASSUME NEW b \in Blocks
    PROVE  /\ StepsOf(b) \subseteq 1 .. 16
           /\ \A i \in StepsOf(b) : Program[i] \in Fields \union Registers
           /\ \A i \in StepsOf(b) : Program[i] \in Registers => Program[i] \in b.mask
           /\ \A r \in b.mask : \E i \in StepsOf(b) : Program[i] = r
           /\ \A r \in b.mask : \A f \in FieldsOf(r) : \E i \in StepsOf(b) : Program[i] = f
           /\ \A i \in StepsOf(b), f \in Fields :
                 Program[i] = f => \E r \in b.mask : f \in FieldsOf(r)
<1>1. b.mask \subseteq Registers
  BY CfgStateAssumption
<1> QED
  BY <1>1, Layout, ProgramComplete DEF StepsOf

-----------------------------------------------------------------------------
\* On to the next step: the steps passed are those before, and the one just made.
LEMMA NextStepFacts ==
    ASSUME TypeOK, AtStep, wpos # 0, NextStep
    PROVE  /\ block' \in Blocks /\ wpos' \in 0 .. 16 /\ AtStep'
           /\ wpos' = 0 => \A i \in StepsOf(block) : i <= wpos
           /\ wpos' # 0 => /\ block' = block
                           /\ \A i \in StepsOf(block) : i < wpos' <=> i < wpos \/ i = wpos
<1>1. wpos \in StepsOf(block) /\ block \in Blocks
  BY DEF AtStep, TypeOK
<1>2. StepsOf(block) \subseteq 1 .. 16
  BY <1>1, StepsFacts
<1> DEFINE rest == {i \in StepsOf(block) : i > wpos}
<1>3. CASE rest = {}
  <2>1. wpos' = 0 /\ block' = CHOOSE b \in Blocks : TRUE
    BY <1>3 DEF NextStep
  <2>2. block' \in Blocks
    BY <1>1, <2>1
  <2>3. \A i \in StepsOf(block) : i <= wpos
    BY <1>1, <1>2, <1>3
  <2> QED
    BY <2>1, <2>2, <2>3 DEF AtStep
<1>4. CASE rest # {}
  <2>1. wpos' \in rest /\ (\A i \in rest : wpos' <= i) /\ block' = block
    BY <1>4 DEF NextStep
  <2>2. \A i \in StepsOf(block) : i < wpos' <=> i < wpos \/ i = wpos
    BY <1>1, <1>2, <2>1
  <2> QED
    BY <1>1, <1>2, <2>1, <2>2 DEF AtStep
<1> QED
  BY <1>3, <1>4

\* At the end of a block everything it names has been passed, ...
LEMMA PassedAtEnd ==
    ASSUME TypeOK, AtStep, wpos # 0, NextStep, wpos' = 0
    PROVE  /\ \A r \in block.mask : Passed(r) \/ Program[wpos] = r
           /\ \A r \in block.mask : \A f \in FieldsOf(r) : Passed(f) \/ Program[wpos] = f
<1>1. block \in Blocks /\ wpos \in StepsOf(block)
  BY DEF TypeOK, AtStep
<1>2. StepsOf(block) \subseteq 1 .. 16 /\ \A i \in StepsOf(block) : i <= wpos
  BY <1>1, StepsFacts, NextStepFacts
<1>3. \A i \in StepsOf(block) : i < wpos \/ i = wpos
  BY <1>1, <1>2
<1> QED
  BY <1>1, <1>3, StepsFacts DEF Passed

\* ... and before it the step just made.
LEMMA PassedGrows ==
    ASSUME TypeOK, AtStep, wpos # 0, NextStep, wpos' # 0
    PROVE  \A x : Passed(x)' <=> Passed(x) \/ Program[wpos] = x
<1>1. wpos \in StepsOf(block)
  BY DEF AtStep
<1> QED
  BY <1>1, NextStepFacts DEF Passed

\* What is passed is named by the mask, and the other way round.
LEMMA PassedNamed ==
    ASSUME TypeOK
    PROVE  /\ \A f \in Fields : Passed(f) => \E r \in block.mask : f \in FieldsOf(r)
           /\ \A r \in Registers : Passed(r) => r \in block.mask
  BY StepsFacts DEF TypeOK, Passed

\* Nothing has been passed when a block begins.
LEMMA NothingPassed ==
    ASSUME NEW b \in Blocks, TypeOK, BeginBlock(b)
    PROVE  \A x : ~ Passed(x)'
<1>1. StepsOf(b) \subseteq 1 .. 16
  BY StepsFacts
<1> QED
  BY <1>1 DEF BeginBlock, Passed

-----------------------------------------------------------------------------
LEMMA StepTypes ==
    ASSUME TypeOK, AtStep, [Next]_vars
    PROVE  TypeOK' /\ AtStep'
<1>1. ASSUME NEW b \in Blocks, BeginBlock(b) PROVE TypeOK' /\ AtStep'
  <2>1. StepsOf(b) \subseteq 1 .. 16 /\ IsConfig(After(b, shadow))
    BY StepsFacts, AfterConfig DEF TypeOK
  <2> QED
    BY <1>1, <2>1, ProgramComplete DEF BeginBlock, TypeOK, AtStep
<1>2. CASE StoreField
  <2>1. block' \in Blocks /\ wpos' \in 0 .. 16 /\ AtStep'
    BY <1>2, NextStepFacts DEF StoreField
  <2>2. block \in Blocks /\ IsConfig(block.value) /\ IsConfig(shadow)
    BY CfgStateAssumption DEF TypeOK
  <2>3. IsConfig(shadow')
    BY <1>2, <2>2 DEF StoreField, IsConfig
  <2> QED
    BY <1>2, <2>1, <2>3, ProgramComplete DEF StoreField, TypeOK
<1>3. CASE WriteRegister
  <2>1. block' \in Blocks /\ wpos' \in 0 .. 16 /\ AtStep'
    BY <1>3, NextStepFacts DEF WriteRegister
  <2>2. block \in Blocks /\ IsConfig(block.value) /\ IsConfig(reg)
    BY CfgStateAssumption DEF TypeOK
  <2>3. IsConfig(reg')
    BY <1>3, <2>2 DEF WriteRegister, IsConfig
  <2> QED
    BY <1>3, <2>1, <2>3, ProgramComplete DEF WriteRegister, TypeOK
<1>4. CASE BeginReport
  <2>1. IsConfig(After(block, before))
    BY AfterConfig DEF TypeOK
  <2> QED
    BY <1>4, <2>1, ReadsComplete DEF BeginReport, TypeOK, AtStep
<1>5. CASE ReadField
  <2>1. ReadOrder[rpos] \in Fields
    BY <1>5, ReadsComplete DEF ReadField
  <2>2. IsConfig(report')
    BY <1>5, <2>1 DEF ReadField, TypeOK, IsConfig
  <2> QED
    BY <1>5, <2>2, ReadsComplete DEF ReadField, TypeOK, AtStep
<1>6. CASE SendReport
  BY <1>6, DefaultsConfig DEF SendReport, TypeOK, AtStep
<1>7. CASE UNCHANGED vars
  BY <1>7 DEF vars, TypeOK, AtStep
<1> QED
  BY <1>1, <1>2, <1>3, <1>4, <1>5, <1>6, <1>7
     DEF Next, tcp_cfg_handle_write_block, tcp_cfg_send_state_report

\* At the end of a block the shadow is what the block makes of the old one.
LEMMA StepShadow ==
    ASSUME TypeOK, AtStep, Idle, ShadowProgress, [Next]_vars
    PROVE  /\ Idle' /\ ShadowProgress'
           /\ wpos # 0 /\ wpos' = 0 => shadow' = After(block, before)
<1>1. ASSUME NEW b \in Blocks, BeginBlock(b) PROVE Idle' /\ ShadowProgress' /\ wpos = 0
  <2>1. wpos = 0 /\ wpos' # 0 /\ shadow' = shadow /\ before' = shadow
    BY <1>1, StepsFacts DEF BeginBlock
  <2> QED
    BY <1>1, <2>1, NothingPassed DEF Idle, ShadowProgress
<1>2. CASE StoreField \/ WriteRegister
  <2>1. wpos # 0 /\ NextStep /\ block \in Blocks /\ wpos \in StepsOf(block)
    BY <1>2 DEF StoreField, WriteRegister, TypeOK, AtStep
  <2>2. IsConfig(shadow) /\ IsConfig(before) /\ IsConfig(After(block, before))
    BY <2>1, AfterConfig DEF TypeOK
  <2>3. \A f \in Fields :
           shadow'[f] = IF Passed(f) \/ Program[wpos] = f
                        THEN After(block, before)[f] ELSE before[f]
    <3>1. CASE StoreField
      <4>1. Program[wpos] \in Fields
            /\ \E r \in block.mask : Program[wpos] \in FieldsOf(r)
        BY <2>1, <3>1, StepsFacts DEF StoreField
      <4>2. shadow' = IF Accepted(Program[wpos], block.value[Program[wpos]])
                      THEN [shadow EXCEPT ![Program[wpos]] = block.value[Program[wpos]]]
                      ELSE shadow
        BY <3>1 DEF StoreField
      <4>3. \A f \in Fields : f # Program[wpos] => shadow'[f] = shadow[f]
        BY <2>2, <4>1, <4>2 DEF IsConfig
      <4>4. ASSUME NEW f \in Fields, f = Program[wpos]
            PROVE  shadow'[f] = After(block, before)[f]
        <5>1. CASE Accepted(f, block.value[f])
          BY <2>2, <4>1, <4>2, <4>4, <5>1 DEF IsConfig, After
        <5>2. CASE ~ Accepted(f, block.value[f])
          <6>1. shadow'[f] = shadow[f] /\ After(block, before)[f] = before[f]
            BY <4>2, <4>4, <5>2 DEF After
          <6> QED
            BY <2>1, <6>1 DEF ShadowProgress
        <5> QED
          BY <5>1, <5>2
      <4> QED
        BY <2>1, <4>3, <4>4 DEF ShadowProgress
    <3>2. CASE WriteRegister
      <4>1. Program[wpos] \notin Fields /\ shadow' = shadow
        BY <3>2, Layout DEF WriteRegister
      <4> QED
        BY <2>1, <4>1 DEF ShadowProgress
    <3> QED
      BY <1>2, <3>1, <3>2
  <2>4. CASE wpos' # 0
    <3>1. before' = before /\ block' = block
      BY <1>2, <2>1, <2>4, NextStepFacts DEF StoreField, WriteRegister
    <3>2. \A f \in Fields : Passed(f)' <=> Passed(f) \/ Program[wpos] = f
      BY <2>1, <2>4, PassedGrows
    <3> QED
      BY <2>3, <2>4, <3>1, <3>2 DEF ShadowProgress, Idle
  <2>5. CASE wpos' = 0
    <3>1. before' = shadow'
      BY <1>2, <2>5 DEF StoreField, WriteRegister
    <3>2. \A f \in Fields : shadow'[f] = After(block, before)[f]
      <4>1. \A f \in Fields : ~ (\E r \in block.mask : f \in FieldsOf(r))
                              => After(block, before)[f] = before[f]
        BY DEF After
      <4> QED
        BY <2>1, <2>3, <2>5, <4>1, PassedAtEnd
    <3>3. IsConfig(shadow')
      BY StepTypes DEF TypeOK
    <3>4. shadow' = After(block, before)
      BY <2>2, <3>2, <3>3 DEF IsConfig
    <3> QED
      BY <2>5, <3>1, <3>4 DEF Idle, ShadowProgress
  <2> QED
    BY <2>4, <2>5
<1>3. CASE tcp_cfg_send_state_report \/ UNCHANGED vars
  <2>1. UNCHANGED <<shadow, before, block, wpos>>
    BY <1>3 DEF tcp_cfg_send_state_report, BeginReport, ReadField, SendReport, vars
  <2> QED
    BY <2>1 DEF Idle, ShadowProgress, Passed
<1> QED
  BY <1>1, <1>2, <1>3 DEF Next, tcp_cfg_handle_write_block

\* At the end of a block the registers follow the new shadow.
LEMMA StepRegisters ==
    ASSUME TypeOK, AtStep, Idle, ShadowProgress, RegisterProgress, RegistersFollow, [Next]_vars
    PROVE  RegisterProgress' /\ RegistersFollow'
<1> written \subseteq Registers
  BY DEF TypeOK
<1>1. ASSUME NEW b \in Blocks, BeginBlock(b) PROVE RegisterProgress' /\ RegistersFollow'
  <2>1. /\ wpos = 0 /\ wpos' # 0 /\ before' = shadow
        /\ reg' = reg /\ written' = written
    BY <1>1, StepsFacts DEF BeginBlock
  <2> QED
    BY <1>1, <2>1, NothingPassed DEF RegisterProgress, RegistersFollow, Follows
<1>2. CASE StoreField \/ WriteRegister
  <2>1. wpos # 0 /\ NextStep /\ block \in Blocks /\ wpos \in StepsOf(block)
    BY <1>2 DEF StoreField, WriteRegister, TypeOK, AtStep
  <2>2. written' \subseteq Registers
    BY <1>2 DEF StoreField, WriteRegister
  <2>3. ASSUME NEW r \in written', NEW f \in FieldsOf(r)
        PROVE  IF Passed(r) \/ Program[wpos] = r THEN reg'[f] = block.value[f]
               ELSE (f = "mode" /\ reg'[f] \notin Modes) \/ reg'[f] = before[f]
    <3>1. r \in Registers /\ f \in Fields
      BY <2>2, Layout
    <3>2. CASE StoreField
      <4>1. r \in written /\ reg' = reg /\ Program[wpos] # r
        BY <3>1, <3>2, Layout DEF StoreField
      <4> QED
        BY <2>1, <4>1 DEF RegisterProgress, Follows
    <3>3. CASE WriteRegister
      <4>1. /\ Program[wpos] \in Registers /\ written' = written \union {Program[wpos]}
            /\ reg' = [g \in Fields |-> IF g \in FieldsOf(Program[wpos])
                                        THEN block.value[g] ELSE reg[g]]
        BY <3>3 DEF WriteRegister
      <4>2. CASE r = Program[wpos]
        BY <3>1, <4>1, <4>2
      <4>3. CASE r # Program[wpos]
        <5>1. r \in written /\ f \notin FieldsOf(Program[wpos])
          BY <3>1, <4>1, <4>3, Layout
        <5>2. reg'[f] = reg[f]
          BY <3>1, <4>1, <5>1
        <5> QED
          BY <2>1, <4>3, <5>1, <5>2 DEF RegisterProgress, Follows
      <4> QED
        BY <4>2, <4>3
    <3> QED
      BY <1>2, <3>2, <3>3
  <2>4. CASE wpos' # 0
    <3>1. before' = before /\ block' = block
      BY <1>2, <2>1, <2>4, NextStepFacts DEF StoreField, WriteRegister
    <3>2. \A r : Passed(r)' <=> Passed(r) \/ Program[wpos] = r
      BY <2>1, <2>4, PassedGrows
    <3> QED
      BY <2>3, <2>4, <3>1, <3>2 DEF RegisterProgress, RegistersFollow, Follows
  <2>5. CASE wpos' = 0
    <3>1. shadow' = After(block, before)
      BY <2>1, <2>5, StepShadow
    <3>2. ASSUME NEW r \in written', NEW f \in FieldsOf(r)
          PROVE  (f = "mode" /\ reg'[f] \notin Modes) \/ reg'[f] = shadow'[f]
      <4>1. r \in Registers /\ f \in Fields
        BY <2>2, Layout
      <4>2. CASE r \in block.mask
        <5>1. reg'[f] = block.value[f]
          BY <2>1, <2>3, <2>5, <4>2, PassedAtEnd
        <5>2. CASE Accepted(f, block.value[f])
          BY <3>1, <4>1, <4>2, <5>1, <5>2 DEF After
        <5>3. CASE ~ Accepted(f, block.value[f])
          BY <5>1, <5>3 DEF Accepted
        <5> QED
          BY <5>2, <5>3
      <4>3. CASE r \notin block.mask
        <5>1. ~ Passed(r) /\ Program[wpos] # r
          BY <2>1, <4>1, <4>3, PassedNamed, StepsFacts
        <5>2. ~ (\E s \in block.mask : f \in FieldsOf(s))
          BY <2>1, <4>1, <4>3, Layout, CfgStateAssumption
        <5>3. shadow'[f] = before[f]
          BY <3>1, <4>1, <5>2 DEF After
        <5> QED
          BY <2>3, <5>1, <5>3
      <4> QED
        BY <4>2, <4>3
    <3> QED
      BY <2>5, <3>2 DEF RegisterProgress, RegistersFollow
  <2> QED
    BY <2>4, <2>5
<1>3. CASE tcp_cfg_send_state_report \/ UNCHANGED vars
  <2>1. UNCHANGED <<shadow, reg, written, before, block, wpos>>
    BY <1>3 DEF tcp_cfg_send_state_report, BeginReport, ReadField, SendReport, vars
  <2> QED
    BY <2>1 DEF RegisterProgress, RegistersFollow, Follows, Passed
<1> QED
  BY <1>1, <1>2, <1>3 DEF Next, tcp_cfg_handle_write_block

\* What a report reads is of a configuration that is noted as in force.
LEMMA StepReport ==
    ASSUME TypeOK, AtStep, Idle, ShadowProgress, SeenInForce, ReadSoFar, [Next]_vars
    PROVE  SeenInForce' /\ ReadSoFar'
<1>1. ASSUME NEW b \in Blocks, BeginBlock(b) PROVE SeenInForce' /\ ReadSoFar'
  <2>1. /\ wpos = 0 /\ block' = b /\ before' = shadow /\ shadow = before
        /\ rpos' = rpos /\ report' = report /\ seen \subseteq seen'
        /\ rpos # 0 => After(b, shadow) \in seen'
    BY <1>1 DEF BeginBlock, Idle
  <2> QED
    BY <2>1 DEF SeenInForce, ReadSoFar
<1>2. CASE StoreField \/ WriteRegister
  <2>1. /\ wpos # 0 /\ NextStep /\ rpos' = rpos /\ report' = report /\ seen' = seen
        /\ before' = IF wpos' = 0 THEN shadow' ELSE before
    BY <1>2 DEF StoreField, WriteRegister
  <2>2. wpos' = 0 => shadow' = After(block, before)
    BY <2>1, StepShadow
  <2>3. wpos' # 0 => block' = block
    BY <2>1, NextStepFacts
  <2> QED
    BY <2>1, <2>2, <2>3 DEF SeenInForce, ReadSoFar
<1>3. CASE BeginReport
  <2>1. \A j \in 1 .. Len(ReadOrder) : ~ (j < rpos')
    BY <1>3, ReadsComplete DEF BeginReport
  <2>2. SeenInForce'
    BY <1>3 DEF BeginReport, SeenInForce, Idle
  <2> QED
    BY <2>1, <2>2 DEF ReadSoFar
<1>4. CASE ReadField
  <2>1. /\ rpos \in 1 .. 11 /\ rpos' = rpos + 1 /\ seen' = seen
        /\ report' = [report EXCEPT ![ReadOrder[rpos]] = shadow[ReadOrder[rpos]]]
        /\ ReadOrder[rpos] \in Fields /\ Len(ReadOrder) = 11
        /\ UNCHANGED <<before, block, wpos>>
    BY <1>4, ReadsComplete DEF ReadField
  <2>2. \E c \in seen : shadow[ReadOrder[rpos]] = c[ReadOrder[rpos]]
    <3>1. CASE wpos = 0
      BY <2>1, <3>1 DEF SeenInForce, Idle
    <3>2. CASE wpos # 0
      BY <2>1, <3>2 DEF SeenInForce, ShadowProgress
    <3> QED
      BY <3>1, <3>2
  <2>3. IsConfig(report)
    BY DEF TypeOK
  <2>4. ASSUME NEW j \in 1 .. 11, j < rpos'
        PROVE  \E c \in seen : report'[ReadOrder[j]] = c[ReadOrder[j]]
    <3>1. CASE ReadOrder[j] = ReadOrder[rpos]
      BY <2>1, <2>2, <2>3, <3>1 DEF IsConfig
    <3>2. CASE ReadOrder[j] # ReadOrder[rpos]
      <4>1. j < rpos /\ ReadOrder[j] \in Fields
        BY <2>1, <2>4, <3>2, ReadsComplete
      <4>2. report'[ReadOrder[j]] = report[ReadOrder[j]]
        BY <2>1, <2>3, <3>2, <4>1 DEF IsConfig
      <4> QED
        BY <2>1, <4>1, <4>2 DEF ReadSoFar
    <3> QED
      BY <3>1, <3>2
  <2>5. SeenInForce'
    BY <2>1 DEF SeenInForce
  <2> QED
    BY <2>1, <2>4, <2>5 DEF ReadSoFar
<1>5. CASE SendReport
  BY <1>5, ReadsComplete DEF SendReport, SeenInForce, ReadSoFar
<1>6. CASE UNCHANGED vars
  BY <1>6 DEF vars, SeenInForce, ReadSoFar
<1> QED
  BY <1>1, <1>2, <1>3, <1>4, <1>5, <1>6
     DEF Next, tcp_cfg_handle_write_block, tcp_cfg_send_state_report

LEMMA InitIInv == Init => IInv
<1> SUFFICES ASSUME Init PROVE IInv
  OBVIOUS
<1>1. PICK w \in WaitTims : reg = [Defaults EXCEPT !["waittim"] = w]
  BY DEF Init
<1>2. IsConfig(reg)
  <2>1. w \in Values("waittim")
    BY <1>1, CfgStateAssumption
  <2>2. Values("waittim") \subseteq Nat
    BY DEF Values
  <2> QED
    BY <1>1, <2>1, <2>2, DefaultsConfig DEF IsConfig
<1>3. block \in Blocks
  BY CfgStateAssumption DEF Init
<1>4. TypeOK
  BY <1>2, <1>3, DefaultsConfig DEF Init, TypeOK
<1>5. ASSUME NEW r \in written, NEW f \in FieldsOf(r) PROVE reg[f] = shadow[f]
  <2>1. r # "CCD_WAITTIM" /\ r \in Registers
    BY DEF Init, Registers
  <2>2. f # "waittim" /\ f \in Fields
    BY <2>1, Layout DEF FieldsOf, Registers
  <2> QED
    BY <1>1, <2>2, DefaultsConfig DEF Init, IsConfig
<1>6. RegistersFollow
  BY <1>5 DEF RegistersFollow
<1>7. AtStep /\ Idle /\ ShadowProgress /\ RegisterProgress /\ SeenInForce /\ ReadSoFar
  BY ReadsComplete DEF Init, AtStep, Idle, ShadowProgress, RegisterProgress, SeenInForce, ReadSoFar
<1> QED
  BY <1>4, <1>6, <1>7 DEF IInv

LEMMA NextIInv == IInv /\ [Next]_vars => IInv'
  BY StepTypes, StepShadow, StepRegisters, StepReport DEF IInv

-----------------------------------------------------------------------------
\* The inductive invariant, for every set of write blocks.
THEOREM IInvAlways == Spec => []IInv
  BY InitIInv, NextIInv, PTL DEF Spec

\* Every step of tcp_cfg_handle_write_block and tcp_cfg_send_state_report leaves
\* configurations whose fields fit the words the code packs them into.
THEOREM ConfigTypeCorrect == Spec => []TypeOK
<1>1. IInv => TypeOK
  BY DEF IInv
<1> QED
  BY <1>1, IInvAlways, PTL

\* After every sequence of write blocks, the registers tcp_cfg_handle_write_block
\* has written hold what bsp_cfg_state.c says, but for a mode it refused.
THEOREM RegistersKeepUp == Spec => []RegistersFollow
<1>1. IInv => RegistersFollow
  BY DEF IInv
<1> QED
  BY <1>1, IInvAlways, PTL

\* However lwIP's thread and the TCP task interleave, every field of a state
\* report (tcp_cfg_send_state_report) is of a configuration in force meanwhile.
THEOREM ReportsInForce == Spec => []ReportCurrent
<1>1. IInv => ReportCurrent
  <2> SUFFICES ASSUME IInv, rpos = Len(ReadOrder) + 1, NEW f \in Fields
               PROVE  \E c \in seen : report[f] = c[f]
    BY DEF ReportCurrent
  <2>1. PICK i \in 1 .. 11 : ReadOrder[i] = f
    BY ReadsComplete
  <2>2. i \in 1 .. Len(ReadOrder) /\ i < rpos
    BY <2>1, ReadsComplete
  <2> QED
    BY <2>1, <2>2 DEF IInv, ReadSoFar
<1> QED
  BY <1>1, IInvAlways, PTL
=============================================================================
