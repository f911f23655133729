---------------------------- MODULE PlRegsProofs ----------------------------
EXTENDS PlRegs, TLAPS
(***************************************************************************)
(* The control words hold what was asked for: each change of a word is     *)
(* followed bit by bit through shift and mask, and the masks of a word do  *)
(* not overlap.                                                            *)
(***************************************************************************)

Regs == {"CCD_CONTROL", "ADC_CONTROL"} \union Timings

\* What a word holds of a field.
Field(w, f) == {i \in 0 .. Width(f) - 1 : i + Shift(f) \in w}

Types ==
    /\ reg \in [Regs -> SUBSET Bits]
    /\ asked \in [ControlFields \union Timings -> SUBSET Bits]

FieldsHeld == \A f \in ControlFields : Field(reg[RegOf(f)], f) = asked[f]

TimingsHeld == \A f \in Timings : reg[f] = asked[f]

\* No bit outside the fields ever enters the CCD's word.
CcdFiltered == reg["CCD_CONTROL"] \subseteq CCD_CONTROL_ALLOWED_MASK

IInv == Types /\ FieldsHeld /\ TimingsHeld /\ CcdFiltered

-----------------------------------------------------------------------------
\* Membership in a shifted word.
LEMMA ShlMember ==
    ASSUME NEW v \in SUBSET Bits, NEW n \in 0 .. 15, NEW x \in Int
    PROVE  x \in Shl(v, n) <=> x \in Bits /\ x - n \in v
<1>1. ASSUME x \in Shl(v, n) PROVE x \in Bits /\ x - n \in v
  <2>1. PICK i \in v : x = i + n
    BY <1>1 DEF Shl
  <2> QED
    BY <1>1, <2>1 DEF Shl, Bits
<1>2. ASSUME x \in Bits, x - n \in v PROVE x \in Shl(v, n)
  <2>1. x = (x - n) + n
    OBVIOUS
  <2> QED
    BY <1>2, <2>1 DEF Shl
<1> QED
  BY <1>1, <1>2

LEMMA ShrMember ==
    ASSUME NEW v \in SUBSET Bits, NEW n \in 0 .. 15, NEW x \in Int
    PROVE  x \in Shr(v, n) <=> x >= 0 /\ x + n \in v
<1>1. ASSUME x \in Shr(v, n) PROVE x >= 0 /\ x + n \in v
  <2>1. PICK i \in v : i >= n /\ x = i - n
    BY <1>1 DEF Shr
  <2> QED
    BY <2>1 DEF Bits
<1>2. ASSUME x >= 0, x + n \in v PROVE x \in Shr(v, n)
  <2>1. x = (x + n) - n /\ x + n >= n
    BY <1>2
  <2> QED
    BY <1>2, <2>1 DEF Shr
<1> QED
  BY <1>1, <1>2

\* The masks of the headers are where shift and width say, ...
LEMMA Masks ==
    ASSUME NEW f \in ControlFields
    PROVE  /\ Shift(f) \in 0 .. 15 /\ Width(f) \in 1 .. 2 /\ Shift(f) + Width(f) <= 16
           /\ Mask(f) = Shift(f) .. Shift(f) + Width(f) - 1
           /\ RegOf(f) \in {"CCD_CONTROL", "ADC_CONTROL"}
<1>1. CASE f = "mode"
  BY <1>1 DEF Shift, Width, Mask, GENMASK, RegOf, CcdFields
<1>2. CASE f # "mode"
  <2>1. Shift(f) \in 0 .. 15 /\ Width(f) = 1
    BY <1>2 DEF ControlFields, CcdFields, AdcFields, Shift, Width
  <2>2. Mask(f) = {Shift(f)}
    BY <1>2 DEF Mask, BIT
  <2> QED
    BY <2>1, <2>2 DEF RegOf
<1> QED
  BY <1>1, <1>2

\* ... and do not overlap in a word.
LEMMA MasksDisjoint ==
    ASSUME NEW f \in ControlFields, NEW g \in ControlFields, RegOf(f) = RegOf(g), f # g
    PROVE  Mask(f) \intersect Mask(g) = {}
<1>1. (f \in CcdFields /\ g \in CcdFields) \/ (f \in AdcFields /\ g \in AdcFields)
  <2>1. f \in CcdFields <=> g \in CcdFields
    BY DEF RegOf
  <2> QED
    BY <2>1 DEF ControlFields
<1>2. CASE f \in CcdFields /\ g \in CcdFields
  <2>1. f = "mode" => Mask(f) = 3 .. 4
    BY DEF Mask, GENMASK
  <2>2. g = "mode" => Mask(g) = 3 .. 4
    BY DEF Mask, GENMASK
  <2>3. f # "mode" => Mask(f) = {Shift(f)} /\ Shift(f) \in {0, 1, 2, 15}
    BY <1>2 DEF CcdFields, Mask, Shift, BIT
  <2>4. g # "mode" => Mask(g) = {Shift(g)} /\ Shift(g) \in {0, 1, 2, 15}
    BY <1>2 DEF CcdFields, Mask, Shift, BIT
  <2>5. f # "mode" /\ g # "mode" => Shift(f) # Shift(g)
    BY <1>2 DEF CcdFields, Shift
  <2> QED
    BY <2>1, <2>2, <2>3, <2>4, <2>5
<1>3. CASE f \in AdcFields /\ g \in AdcFields
  BY <1>3 DEF AdcFields, Mask, Shift, BIT, GENMASK
<1> QED
  BY <1>1, <1>2, <1>3

\* The bits of a mask, counted from its field's shift.
LEMMA MaskBits ==
    ASSUME NEW f \in ControlFields, NEW x \in Int
    PROVE  x \in Mask(f) <=> x - Shift(f) \in 0 .. Width(f) - 1
<1> DEFINE a == Shift(f)
           b == Width(f)
<1>1. a \in Int /\ b \in Int /\ Mask(f) = a .. a + b - 1
  BY Masks
<1> HIDE DEF a, b
<1>2. x \in Mask(f) <=> x - a \in 0 .. b - 1
  BY <1>1
<1> QED
  BY <1>2 DEF a, b

LEMMA MaskInBits == \A f \in ControlFields : Mask(f) \subseteq U16 /\ U16 \subseteq Bits
<1> SUFFICES ASSUME NEW f \in ControlFields PROVE Mask(f) \subseteq U16 /\ U16 \subseteq Bits
  OBVIOUS
<1> DEFINE a == Shift(f)
           b == Width(f)
<1>1. a \in 0 .. 15 /\ b \in 1 .. 2 /\ a + b <= 16 /\ Mask(f) = a .. a + b - 1
  BY Masks
<1> HIDE DEF a, b
<1> QED
  BY <1>1 DEF U16, Bits

\* Where the bits of a field are.
LEMMA FieldBits ==
    ASSUME NEW f \in ControlFields, NEW i \in 0 .. Width(f) - 1
    PROVE  /\ i \in 0 .. 1 /\ i + Shift(f) \in U16 /\ i + Shift(f) \in Bits
           /\ i + Shift(f) \in Mask(f)
           /\ \A v \in SUBSET Bits : i + Shift(f) \in Shl(v, Shift(f)) <=> i \in v
<1> DEFINE a == Shift(f)
           b == Width(f)
<1>1. a \in 0 .. 15 /\ b \in 1 .. 2 /\ a + b <= 16 /\ Mask(f) = a .. a + b - 1
  BY Masks
<1>2. i \in 0 .. b - 1
  OBVIOUS
<1> HIDE DEF a, b
<1>3. i \in 0 .. 1 /\ i + a \in U16 /\ i + a \in Bits /\ i + a \in Mask(f)
  BY <1>1, <1>2 DEF U16, Bits
<1>4. ASSUME NEW v \in SUBSET Bits PROVE i + a \in Shl(v, a) <=> i \in v
  <2>1. i + a \in Int /\ (i + a) - a = i
    BY <1>1, <1>3
  <2> QED
    BY <1>1, <1>3, <2>1, ShlMember
<1> QED
  BY <1>3, <1>4 DEF a

\* A shifted value shows in its mask with the bits that fit.
LEMMA ShiftedField ==
    ASSUME NEW f \in ControlFields, NEW v \in SUBSET Bits
    PROVE  /\ Field(Shl(v, Shift(f)), f) = Fitting(f, v)
           /\ Field(Shl(v, Shift(f)) \intersect Mask(f), f) = Fitting(f, v)
  BY FieldBits DEF Field, Fitting

\* Words that agree but in one mask hold the other fields alike.
LEMMA OtherField ==
    ASSUME NEW f \in ControlFields, NEW g \in ControlFields, RegOf(f) = RegOf(g), f # g,
           NEW w, NEW u, \A x \in Bits : x \in Mask(f) \/ (x \in w <=> x \in u)
    PROVE  Field(w, g) = Field(u, g)
<1>1. \A i \in 0 .. Width(g) - 1 : i + Shift(g) \in Bits /\ i + Shift(g) \notin Mask(f)
  BY FieldBits, MasksDisjoint
<1> QED
  BY <1>1 DEF Field

\* The three ways to change a field of a word.
LEMMA UpdatedFields ==
    ASSUME NEW f \in ControlFields, NEW w \in SUBSET Bits, NEW v \in SUBSET Bits,
           NEW m, m = (w \intersect Not(Mask(f))) \union
                      ((Shl(v, Shift(f)) \intersect Mask(f)) \intersect Mask(f))
    PROVE  /\ m \in SUBSET Bits
           /\ Field(m, f) = Fitting(f, v)
           /\ \A g \in ControlFields : RegOf(f) = RegOf(g) /\ f # g => Field(m, g) = Field(w, g)
<1>1. Mask(f) \subseteq Bits
  BY MaskInBits
<1>2. \A x \in Bits : x \in Mask(f) \/ (x \in m <=> x \in w)
  BY DEF Not
<1>3. \A x \in Mask(f) : x \in m <=> x \in Shl(v, Shift(f))
  BY DEF Not
<1>4. Field(m, f) = Fitting(f, v)
  BY <1>3, FieldBits DEF Field, Fitting
<1> QED
  BY <1>1, <1>2, <1>4, OtherField

LEMMA SetFields ==
    ASSUME NEW f \in ControlFields, Width(f) = 1, NEW w \in SUBSET Bits,
           NEW m, m = w \union Mask(f)
    PROVE  /\ m \in SUBSET Bits
           /\ Field(m, f) = BIT(0)
           /\ \A g \in ControlFields : RegOf(f) = RegOf(g) /\ f # g => Field(m, g) = Field(w, g)
<1>1. Mask(f) \subseteq Bits
  BY MaskInBits
<1>2. \A x \in Bits : x \in Mask(f) \/ (x \in m <=> x \in w)
  OBVIOUS
<1>3. Field(m, f) = {0}
  <2>1. 0 .. Width(f) - 1 = {0}
    OBVIOUS
  <2>2. 0 + Shift(f) \in m
    BY <2>1, FieldBits
  <2> QED
    BY <2>1, <2>2 DEF Field
<1> QED
  BY <1>1, <1>2, <1>3, OtherField DEF BIT

LEMMA ClearedFields ==
    ASSUME NEW f \in ControlFields, NEW w \in SUBSET Bits,
           NEW m, m = w \intersect Not(Mask(f))
    PROVE  /\ m \in SUBSET Bits
           /\ Field(m, f) = {}
           /\ \A g \in ControlFields : RegOf(f) = RegOf(g) /\ f # g => Field(m, g) = Field(w, g)
<1>1. \A x \in Bits : x \in Mask(f) \/ (x \in m <=> x \in w)
  BY DEF Not
<1>2. Field(m, f) = {}
  BY FieldBits DEF Field, Not
<1> QED
  BY <1>1, <1>2, OtherField

\* Reading a field gives what the word holds of it.
LEMMA ReadBack ==
    ASSUME NEW f \in ControlFields, NEW w \in SUBSET Bits
    PROVE  Shr(w \intersect Mask(f), Shift(f)) = Field(w, f)
<1> DEFINE a == Shift(f)
<1>1. a \in 0 .. 15 /\ Width(f) \in 1 .. 2
  BY Masks
<1>2. ASSUME NEW x \in Shr(w \intersect Mask(f), a) PROVE x \in Field(w, f)
  <2>1. PICK i \in w \intersect Mask(f) : i >= a /\ x = i - a
    BY <1>2 DEF Shr
  <2>2. i \in Int /\ i - a \in 0 .. Width(f) - 1
    BY <2>1, MaskBits DEF Bits
  <2>3. (i - a) + a = i
    BY <1>1, <2>2
  <2> QED
    BY <2>1, <2>2, <2>3 DEF Field
<1>3. ASSUME NEW x \in Field(w, f) PROVE x \in Shr(w \intersect Mask(f), a)
  <2>1. x \in 0 .. 1 /\ x + a \in w /\ x + a \in Mask(f)
    BY <1>3, FieldBits DEF Field
  <2> QED
    BY <1>1, <2>1, ShrMember
<1> QED
  BY <1>2, <1>3

\* The allowed bits are those of the fields.
LEMMA Allowed ==
    /\ \A f \in CcdFields : Mask(f) \subseteq CCD_CONTROL_ALLOWED_MASK
    /\ \A f \in AdcFields : Mask(f) \subseteq ADC_CONTROL_ALLOWED_MASK
    /\ \A x \in CCD_CONTROL_ALLOWED_MASK : \E f \in CcdFields : x \in Mask(f)
    /\ \A x \in ADC_CONTROL_ALLOWED_MASK : \E f \in AdcFields : x \in Mask(f)
    /\ CCD_CONTROL_ALLOWED_MASK \subseteq Bits /\ ADC_CONTROL_ALLOWED_MASK \subseteq Bits
<1>1. /\ Mask("enable") = {0} /\ Mask("ccd1_gain") = {1} /\ Mask("ccd2_gain") = {2}
      /\ Mask("mode") = {3, 4} /\ Mask("sudo") = {15}
      /\ Mask("adc_mode") = {0} /\ Mask("three_channel") = {1} /\ Mask("init_err_clr") = {15}
  <2>1. /\ Mask("enable") = {Shift("enable")} /\ Shift("enable") = 0
        /\ Mask("ccd1_gain") = {Shift("ccd1_gain")} /\ Shift("ccd1_gain") = 1
        /\ Mask("ccd2_gain") = {Shift("ccd2_gain")} /\ Shift("ccd2_gain") = 2
        /\ Mask("mode") = 3 .. 4
        /\ Mask("sudo") = {Shift("sudo")} /\ Shift("sudo") = 15
    BY DEF Mask, Shift, BIT, GENMASK
  <2>2. /\ Mask("adc_mode") = {Shift("adc_mode")} /\ Shift("adc_mode") = 0
        /\ Mask("three_channel") = {Shift("three_channel")} /\ Shift("three_channel") = 1
        /\ Mask("init_err_clr") = {Shift("init_err_clr")} /\ Shift("init_err_clr") = 15
    BY DEF Mask, Shift, BIT
  <2> QED
    BY <2>1, <2>2
<1>2. /\ \A x \in CCD_CONTROL_ALLOWED_MASK : x \in {0, 1, 2, 3, 4, 15}
      /\ {0, 1, 2, 3, 4, 15} \subseteq CCD_CONTROL_ALLOWED_MASK
  BY DEF CCD_CONTROL_ALLOWED_MASK
<1> QED
  BY <1>1, <1>2 DEF CcdFields, AdcFields, ADC_CONTROL_ALLOWED_MASK, CCD_CONTROL_ALLOWED_MASK, Bits

\* Which fields a word has, and which have one bit only.
LEMMA WordFields ==
    /\ CcdFields \subseteq ControlFields /\ AdcFields \subseteq ControlFields
    /\ \A f \in CcdFields : RegOf(f) = "CCD_CONTROL"
    /\ \A f \in AdcFields : RegOf(f) = "ADC_CONTROL"
    /\ ControlFields = CcdFields \union AdcFields
    /\ ControlFields \intersect Timings = {}
    /\ \A f \in {"enable", "sudo", "ccd1_gain", "ccd2_gain"} : Width(f) = 1 /\ f \in CcdFields
    /\ \A f \in AdcFields : Width(f) = 1
  BY DEF CcdFields, AdcFields, ControlFields, RegOf, Timings, Width

\* The word put together from a configuration holds of each field what fits.
LEMMA CcdWordFields ==
    ASSUME NEW c, \A f \in CcdFields : c[f] \in SUBSET Bits
    PROVE  /\ \A f \in CcdFields : Field(CcdWord(c), f) = Fitting(f, c[f])
           /\ CcdWord(c) \subseteq CCD_CONTROL_ALLOWED_MASK
<1>1. ASSUME NEW g \in CcdFields, NEW i \in 0 .. Width(g) - 1
      PROVE  i + Shift(g) \in CcdWord(c) <=> i \in c[g]
  <2> DEFINE x == i + Shift(g)
  <2>1. x \in Mask(g) /\ i \in 0 .. 1
    BY FieldBits, WordFields
  <2>2. \A f \in CcdFields : f # g => x \notin Mask(f)
    BY <2>1, MasksDisjoint, WordFields
  <2>3. \A v \in SUBSET Bits : x \in Shl(v, Shift(g)) <=> i \in v
    BY FieldBits, WordFields
  <2>4. g # "mode" => i = 0
    BY DEF Width
  <2>5. \A v \in SUBSET Bits : v \intersect {0} \in SUBSET Bits /\ v \intersect {0, 1} \in SUBSET Bits
    OBVIOUS
  <2>6. /\ g = "enable" => (x \in CcdWord(c) <=> x \in Shl(c["enable"], Shift("enable")))
        /\ g = "ccd1_gain" => (x \in CcdWord(c)
                               <=> x \in Shl(c["ccd1_gain"] \intersect {0}, Shift("ccd1_gain")))
        /\ g = "ccd2_gain" => (x \in CcdWord(c)
                               <=> x \in Shl(c["ccd2_gain"] \intersect {0}, Shift("ccd2_gain")))
        /\ g = "mode" => (x \in CcdWord(c)
                          <=> x \in Shl(c["mode"] \intersect {0, 1}, Shift("mode")))
        /\ g = "sudo" => (x \in CcdWord(c) <=> x \in Shl(c["sudo"], Shift("sudo")))
    <3> HIDE DEF x
    <3> QED
      BY <2>1, <2>2 DEF CcdWord, CcdFields
  <2> HIDE DEF x
  <2>7. x \in CcdWord(c) <=> i \in c[g]
    <3>1. c[g] \in SUBSET Bits
      OBVIOUS
    <3>2. CASE g = "enable" \/ g = "sudo"
      BY <2>3, <2>6, <3>1, <3>2
    <3>3. CASE g = "ccd1_gain" \/ g = "ccd2_gain"
      BY <2>3, <2>4, <2>5, <2>6, <3>1, <3>3
    <3>4. CASE g = "mode"
      BY <2>1, <2>3, <2>5, <2>6, <3>1, <3>4
    <3> QED
      BY <3>2, <3>3, <3>4 DEF CcdFields
  <2> QED
    BY <2>7 DEF x
<1>2. CcdWord(c) \subseteq CCD_CONTROL_ALLOWED_MASK
  BY Allowed DEF CcdWord, CcdFields
<1> QED
  BY <1>1, <1>2 DEF Field, Fitting

LEMMA AdcWordFields ==
    ASSUME NEW c, \A f \in AdcFields : c[f] \in SUBSET Bits
    PROVE  /\ \A f \in AdcFields : Field(AdcWord(c), f) = Fitting(f, c[f])
           /\ AdcWord(c) \subseteq Bits
<1>1. ASSUME NEW g \in AdcFields, NEW i \in 0 .. Width(g) - 1
      PROVE  i + Shift(g) \in AdcWord(c) <=> i \in c[g]
  <2> DEFINE x == i + Shift(g)
  <2>1. x \in Mask(g) /\ i = 0
    BY FieldBits, WordFields
  <2>2. \A f \in AdcFields : f # g => x \notin Mask(f)
    BY <2>1, MasksDisjoint, WordFields
  <2>3. \A v \in SUBSET Bits : x \in Shl(v, Shift(g)) <=> i \in v
    BY FieldBits, WordFields
  <2>4. c[g] \in SUBSET Bits /\ c[g] \intersect {0} \in SUBSET Bits
    OBVIOUS
  <2> HIDE DEF x
  <2>5. /\ g = "adc_mode" => (x \in AdcWord(c)
                              <=> x \in Shl(c["adc_mode"] \intersect {0}, Shift("adc_mode")))
        /\ g = "three_channel" => (x \in AdcWord(c)
                                   <=> x \in Shl(c["three_channel"] \intersect {0}, Shift("three_channel")))
        /\ g = "init_err_clr" => (x \in AdcWord(c)
                                  <=> x \in Shl(c["init_err_clr"], Shift("init_err_clr")))
    BY <2>1, <2>2 DEF AdcWord, AdcFields
  <2>6. x \in AdcWord(c) <=> i \in c[g]
    BY <2>1, <2>3, <2>4, <2>5 DEF AdcFields
  <2> QED
    BY <2>6 DEF x
<1>2. AdcWord(c) \subseteq ADC_CONTROL_ALLOWED_MASK
  BY Allowed DEF AdcWord, AdcFields
<1> QED
  BY <1>1, <1>2, Allowed DEF Field, Fitting

\* A raw word holds its fields, whatever it has beside them.
LEMMA RawWordFields ==
    ASSUME NEW fs \in {CcdFields, AdcFields}, NEW c, NEW junk \in SUBSET U16,
           \A f \in fs : c[f] \subseteq 0 .. Width(f) - 1
    PROVE  /\ RawWord(fs, c, junk) \subseteq Bits
           /\ \A f \in fs : Field(RawWord(fs, c, junk), f) = c[f]
<1>1. /\ fs \subseteq ControlFields
      /\ \A f, g \in fs : RegOf(f) = RegOf(g)
      /\ \A f \in fs : c[f] \in SUBSET Bits
  <2>1. \A f \in ControlFields : 0 .. Width(f) - 1 \subseteq Bits
    BY DEF Width, Bits
  <2> QED
    BY <2>1, WordFields
<1>2. ASSUME NEW f \in fs, NEW x \in Shl(c[f], Shift(f)) PROVE x \in Mask(f)
  <2>1. x \in Int /\ x \in Bits
    BY DEF Shl, Bits
  <2>2. x - Shift(f) \in c[f]
    BY <1>1, <2>1, Masks, ShlMember
  <2> QED
    BY <1>1, <2>1, <2>2, MaskBits
<1>3. ASSUME NEW g \in fs, NEW i \in 0 .. Width(g) - 1
      PROVE  i + Shift(g) \in RawWord(fs, c, junk) <=> i \in c[g]
  <2>1. /\ i + Shift(g) \in Mask(g)
        /\ i + Shift(g) \in Shl(c[g], Shift(g)) <=> i \in c[g]
    BY <1>1, FieldBits
  <2>2. \A f \in fs : f # g => i + Shift(g) \notin Shl(c[f], Shift(f))
    BY <1>1, <1>2, <2>1, MasksDisjoint
  <2> DEFINE x == i + Shift(g)
  <2> HIDE DEF x
  <2>3. x \notin junk \ UNION {Mask(f) : f \in fs}
    BY <2>1 DEF x
  <2>4. x \in UNION {Shl(c[f], Shift(f)) : f \in fs} <=> \E f \in fs : x \in Shl(c[f], Shift(f))
    OBVIOUS
  <2>5. (\E f \in fs : x \in Shl(c[f], Shift(f))) <=> x \in Shl(c[g], Shift(g))
    BY <2>2 DEF x
  <2>6. x \in RawWord(fs, c, junk) <=> x \in Shl(c[g], Shift(g))
    BY <2>3, <2>4, <2>5 DEF RawWord
  <2> QED
    BY <2>1, <2>6 DEF x
<1>4. RawWord(fs, c, junk) \subseteq Bits
  <2>1. \A f \in fs : Shl(c[f], Shift(f)) \subseteq Bits
    BY DEF Shl
  <2>2. junk \subseteq Bits
    BY DEF U16, Bits
  <2>3. UNION {Shl(c[f], Shift(f)) : f \in fs} \subseteq Bits
    BY <2>1
  <2> QED
    BY <2>2, <2>3 DEF RawWord
<1> QED
  BY <1>3, <1>4 DEF Field

-----------------------------------------------------------------------------
\* What a call has to establish: a new word for one of the two, and the fields it
\* holds asked for.
LEMMA CcdStep ==
    ASSUME IInv, NEW m, m \subseteq CCD_CONTROL_ALLOWED_MASK,
           reg' = [reg EXCEPT !["CCD_CONTROL"] = m],
           asked' \in [ControlFields \union Timings -> SUBSET Bits],
           \A f \in CcdFields : Field(m, f) = asked'[f],
           \A f \in AdcFields \union Timings : asked'[f] = asked[f]
    PROVE  IInv'
<1>1. m \in SUBSET Bits /\ reg \in [Regs -> SUBSET Bits]
  BY Allowed DEF IInv, Types
<1>2. /\ reg'["CCD_CONTROL"] = m /\ reg'["ADC_CONTROL"] = reg["ADC_CONTROL"]
      /\ \A f \in Timings : reg'[f] = reg[f]
      /\ reg' \in [Regs -> SUBSET Bits]
  BY <1>1 DEF Regs, Timings
<1>3. FieldsHeld'
  <2> SUFFICES ASSUME NEW f \in ControlFields PROVE Field(reg'[RegOf(f)], f) = asked'[f]
    BY DEF FieldsHeld
  <2>1. CASE f \in CcdFields
    BY <1>2, <2>1, WordFields
  <2>2. CASE f \in AdcFields
    BY <1>2, <2>2, WordFields DEF IInv, FieldsHeld
  <2> QED
    BY <2>1, <2>2, WordFields
<1> QED
  BY <1>2, <1>3 DEF IInv, Types, TimingsHeld, CcdFiltered

LEMMA AdcStep ==
    ASSUME IInv, NEW m \in SUBSET Bits,
           reg' = [reg EXCEPT !["ADC_CONTROL"] = m],
           asked' \in [ControlFields \union Timings -> SUBSET Bits],
           \A f \in AdcFields : Field(m, f) = asked'[f],
           \A f \in CcdFields \union Timings : asked'[f] = asked[f]
    PROVE  IInv'
<1>1. reg \in [Regs -> SUBSET Bits]
  BY DEF IInv, Types
<1>2. /\ reg'["ADC_CONTROL"] = m /\ reg'["CCD_CONTROL"] = reg["CCD_CONTROL"]
      /\ \A f \in Timings : reg'[f] = reg[f]
      /\ reg' \in [Regs -> SUBSET Bits]
  BY <1>1 DEF Regs, Timings
<1>3. FieldsHeld'
  <2> SUFFICES ASSUME NEW f \in ControlFields PROVE Field(reg'[RegOf(f)], f) = asked'[f]
    BY DEF FieldsHeld
  <2>1. CASE f \in AdcFields
    BY <1>2, <2>1, WordFields
  <2>2. CASE f \in CcdFields
    BY <1>2, <2>2, WordFields DEF IInv, FieldsHeld
  <2> QED
    BY <2>1, <2>2, WordFields
<1> QED
  BY <1>2, <1>3 DEF IInv, Types, TimingsHeld, CcdFiltered

\* Asking for one field, or for several.
LEMMA AskOne ==
    ASSUME Types, NEW f \in ControlFields \union Timings, NEW v \in SUBSET Bits, Ask(f, v)
    PROVE  /\ asked' \in [ControlFields \union Timings -> SUBSET Bits]
           /\ asked'[f] = v
           /\ \A g \in ControlFields \union Timings : g # f => asked'[g] = asked[g]
  BY DEF Types, Ask

LEMMA AskSeveral ==
    ASSUME Types, NEW fs \in SUBSET (ControlFields \union Timings), NEW c,
           \A f \in fs : c[f] \in SUBSET Bits, AskAll(fs, c)
    PROVE  /\ asked' \in [ControlFields \union Timings -> SUBSET Bits]
           /\ \A f \in fs : asked'[f] = c[f]
           /\ \A f \in (ControlFields \union Timings) \ fs : asked'[f] = asked[f]
<1>1. DOMAIN asked = ControlFields \union Timings
  BY DEF Types
<1>2. \A f \in ControlFields \union Timings : asked[f] \in SUBSET Bits
  BY DEF Types
<1>3. asked' = [f \in ControlFields \union Timings |-> IF f \in fs THEN c[f] ELSE asked[f]]
  BY <1>1 DEF AskAll
<1> QED
  BY <1>2, <1>3

\* The arguments of the drivers are words.
LEMMA ArgBits ==
    ASSUME NEW fs \in SUBSET ControlFields, NEW c \in Configs(fs)
    PROVE  /\ \A f \in fs : c[f] \in SUBSET Bits
           /\ \A f \in fs : Meant(fs, c)[f] = Fitting(f, c[f])
           /\ \A f \in fs : Meant(fs, c)[f] \subseteq 0 .. Width(f) - 1
           /\ \A f \in fs : Meant(fs, c)[f] \in SUBSET Bits
<1>1. \A f \in fs : c[f] \in SUBSET Bits
  BY PlRegsAssumption DEF Configs
<1>2. \A f \in fs : Meant(fs, c)[f] = Fitting(f, c[f])
  BY DEF Meant
<1> QED
  BY <1>1, <1>2 DEF Fitting

LEMMA TimeBits == \A t \in Times : t \in SUBSET Bits
  BY PlRegsAssumption DEF U16, Bits

LEMMA CcdInit ==
    ASSUME IInv, NEW c \in Configs(CcdFields), NEW t \in Times, NEW u \in Times,
           bsp_ccd_init(c, t, u)
    PROVE  IInv'
<1> DEFINE fs == CcdFields \union {"integtim", "sps"}
           d == [f \in fs |-> CASE f = "integtim" -> t
                                [] f = "sps" -> u
                                [] OTHER -> Fitting(f, c[f])]
<1>1. \A f \in CcdFields : c[f] \in SUBSET Bits
  BY ArgBits, WordFields
<1>2. /\ d["integtim"] = t /\ d["sps"] = u
      /\ \A f \in CcdFields : d[f] = Fitting(f, c[f])
  <2>1. \A f \in CcdFields : f # "integtim" /\ f # "sps" /\ f \in fs
    BY DEF CcdFields
  <2> QED
    BY <2>1
<1>3. \A f \in fs : d[f] \in SUBSET Bits
  BY <1>1, <1>2, TimeBits DEF Fitting
<1>4. fs \in SUBSET (ControlFields \union Timings)
  BY WordFields DEF Timings
<1>5. /\ AskAll(fs, d)
      /\ reg' = [reg EXCEPT !["CCD_CONTROL"] = CcdWord(c), !["integtim"] = t, !["sps"] = u]
  BY DEF bsp_ccd_init
<1> HIDE DEF d
<1>6. /\ asked' \in [ControlFields \union Timings -> SUBSET Bits]
      /\ \A f \in fs : asked'[f] = d[f]
      /\ \A f \in (ControlFields \union Timings) \ fs : asked'[f] = asked[f]
  BY <1>3, <1>4, <1>5, AskSeveral DEF IInv
<1>7. reg \in [Regs -> SUBSET Bits] /\ CcdWord(c) \in SUBSET Bits
  BY <1>1, CcdWordFields, Allowed DEF IInv, Types
<1>8. /\ reg'["CCD_CONTROL"] = CcdWord(c) /\ reg'["ADC_CONTROL"] = reg["ADC_CONTROL"]
      /\ reg'["integtim"] = t /\ reg'["sps"] = u /\ reg'["waittim"] = reg["waittim"]
      /\ reg' \in [Regs -> SUBSET Bits]
  BY <1>5, <1>7, TimeBits DEF Regs, Timings
<1>9. FieldsHeld'
  <2> SUFFICES ASSUME NEW f \in ControlFields PROVE Field(reg'[RegOf(f)], f) = asked'[f]
    BY DEF FieldsHeld
  <2>1. CASE f \in CcdFields
    BY <1>1, <1>2, <1>6, <1>8, <2>1, WordFields, CcdWordFields
  <2>2. CASE f \in AdcFields
    <3>1. f \notin fs
      BY <2>2 DEF AdcFields, CcdFields
    <3> QED
      BY <1>6, <1>8, <2>2, <3>1, WordFields DEF IInv, FieldsHeld
  <2> QED
    BY <2>1, <2>2, WordFields
<1>10. TimingsHeld'
  <2>1. asked'["waittim"] = asked["waittim"]
    BY <1>6 DEF Timings, CcdFields
  <2> QED
    BY <1>2, <1>6, <1>8, <2>1 DEF IInv, TimingsHeld, Timings
<1>11. CcdFiltered'
  BY <1>1, <1>8, CcdWordFields DEF CcdFiltered
<1> QED
  BY <1>6, <1>8, <1>9, <1>10, <1>11 DEF IInv, Types

LEMMA CcdDeinit == ASSUME IInv, bsp_ccd_deinit PROVE IInv'
<1> DEFINE c == [f \in CcdFields |-> {}]
<1>1. /\ AskAll(CcdFields, c) /\ reg' = [reg EXCEPT !["CCD_CONTROL"] = {}]
      /\ \A f \in CcdFields : c[f] = {} /\ c[f] \in SUBSET Bits
  BY DEF bsp_ccd_deinit, pl_reg_write
<1> HIDE DEF c
<1>2. /\ asked' \in [ControlFields \union Timings -> SUBSET Bits]
      /\ \A f \in CcdFields : asked'[f] = {}
      /\ \A f \in (ControlFields \union Timings) \ CcdFields : asked'[f] = asked[f]
  <2>1. Types /\ CcdFields \in SUBSET (ControlFields \union Timings)
    BY WordFields DEF IInv
  <2>2. \A f \in CcdFields : c[f] \in SUBSET Bits
    BY <1>1
  <2>3. /\ asked' \in [ControlFields \union Timings -> SUBSET Bits]
        /\ \A f \in CcdFields : asked'[f] = c[f]
        /\ \A f \in (ControlFields \union Timings) \ CcdFields : asked'[f] = asked[f]
    BY <1>1, <2>1, <2>2, AskSeveral
  <2> QED
    BY <1>1, <2>3
<1>3. \A f \in AdcFields \union Timings : f \notin CcdFields
  BY DEF AdcFields, CcdFields, Timings
<1>4. \A f \in CcdFields : Field({}, f) = asked'[f]
  BY <1>2 DEF Field
<1>5. {} \subseteq CCD_CONTROL_ALLOWED_MASK
  OBVIOUS
<1>6. \A f \in AdcFields \union Timings : asked'[f] = asked[f]
  BY <1>2, <1>3, WordFields
<1> QED
  BY <1>1, <1>2, <1>4, <1>5, <1>6, CcdStep

\* Changing one field of the CCD's word, in any way that leaves the others alone.
LEMMA CcdFieldStep ==
    ASSUME IInv, NEW f \in CcdFields, NEW v \in SUBSET Bits, NEW m,
           m \subseteq CCD_CONTROL_ALLOWED_MASK,
           reg' = [reg EXCEPT !["CCD_CONTROL"] = m], Ask(f, v), Field(m, f) = v,
           \A g \in CcdFields : g # f => Field(m, g) = Field(reg["CCD_CONTROL"], g)
    PROVE  IInv'
<1>1. /\ asked' \in [ControlFields \union Timings -> SUBSET Bits]
      /\ asked'[f] = v
      /\ \A g \in ControlFields \union Timings : g # f => asked'[g] = asked[g]
  BY AskOne, WordFields DEF IInv
<1>2. \A g \in CcdFields : Field(m, g) = asked'[g]
  BY <1>1, WordFields DEF IInv, FieldsHeld
<1>3. \A g \in AdcFields \union Timings : g # f
  BY DEF AdcFields, CcdFields, Timings
<1> QED
  BY <1>1, <1>2, <1>3, WordFields, CcdStep

LEMMA AdcFieldStep ==
    ASSUME IInv, NEW f \in AdcFields, NEW v \in SUBSET Bits, NEW m \in SUBSET Bits,
           reg' = [reg EXCEPT !["ADC_CONTROL"] = m], Ask(f, v), Field(m, f) = v,
           \A g \in AdcFields : g # f => Field(m, g) = Field(reg["ADC_CONTROL"], g)
    PROVE  IInv'
<1>1. /\ asked' \in [ControlFields \union Timings -> SUBSET Bits]
      /\ asked'[f] = v
      /\ \A g \in ControlFields \union Timings : g # f => asked'[g] = asked[g]
  BY AskOne, WordFields DEF IInv
<1>2. \A g \in AdcFields : Field(m, g) = asked'[g]
  BY <1>1, WordFields DEF IInv, FieldsHeld
<1>3. \A g \in CcdFields \union Timings : g # f
  BY DEF AdcFields, CcdFields, Timings
<1> QED
  BY <1>1, <1>2, <1>3, WordFields, AdcStep

LEMMA ControlWords ==
    ASSUME IInv
    PROVE  reg["CCD_CONTROL"] \in SUBSET Bits /\ reg["ADC_CONTROL"] \in SUBSET Bits
  BY DEF IInv, Types, Regs

LEMMA CcdSetBool ==
    ASSUME IInv, NEW f \in {"enable", "sudo"}, NEW on \in BOOLEAN, bsp_ccd_set_bool(f, on)
    PROVE  IInv'
<1> DEFINE w == reg["CCD_CONTROL"]
<1>1. /\ f \in CcdFields /\ f \in ControlFields /\ Width(f) = 1
      /\ w \in SUBSET Bits /\ w \subseteq CCD_CONTROL_ALLOWED_MASK
      /\ Mask(f) \subseteq CCD_CONTROL_ALLOWED_MASK
      /\ \A g \in CcdFields : g \in ControlFields /\ RegOf(g) = RegOf(f)
  BY WordFields, Allowed, ControlWords DEF IInv, CcdFiltered
<1>2. CASE on
  <2> DEFINE m == w \union Mask(f)
  <2>1. reg' = [reg EXCEPT !["CCD_CONTROL"] = m] /\ Ask(f, BIT(0))
    BY <1>2 DEF bsp_ccd_set_bool, pl_reg_set_bits, pl_reg_write, pl_reg_read, Bool
  <2>2. /\ Field(m, f) = BIT(0) /\ m \subseteq CCD_CONTROL_ALLOWED_MASK
        /\ \A g \in CcdFields : g # f => Field(m, g) = Field(w, g)
    BY <1>1, SetFields
  <2>3. BIT(0) \in SUBSET Bits
    BY DEF BIT, Bits
  <2> HIDE DEF m
  <2> QED
    BY <1>1, <2>1, <2>2, <2>3, CcdFieldStep
<1>3. CASE ~ on
  <2> DEFINE m == w \intersect Not(Mask(f))
  <2>1. reg' = [reg EXCEPT !["CCD_CONTROL"] = m] /\ Ask(f, {})
    BY <1>3 DEF bsp_ccd_set_bool, pl_reg_clear_bits, pl_reg_write, pl_reg_read, Bool
  <2>2. /\ Field(m, f) = {}
        /\ \A g \in ControlFields : RegOf(f) = RegOf(g) /\ f # g => Field(m, g) = Field(w, g)
    <3>1. w \in SUBSET Bits /\ f \in ControlFields
      BY <1>1
    <3> HIDE DEF w
    <3> QED
      BY <3>1, ClearedFields
  <2>3. m \subseteq CCD_CONTROL_ALLOWED_MASK
    BY <1>1
  <2> HIDE DEF m
  <2> QED
    BY <1>1, <2>1, <2>2, <2>3, CcdFieldStep
<1> QED
  BY <1>2, <1>3

LEMMA CcdSetField ==
    ASSUME IInv, NEW f \in {"ccd1_gain", "ccd2_gain", "mode"}, NEW v \in Args,
           bsp_ccd_set_field(f, v)
    PROVE  IInv'
<1> DEFINE w == reg["CCD_CONTROL"]
           m == (w \intersect Not(Mask(f))) \union
                ((Shl(v, Shift(f)) \intersect Mask(f)) \intersect Mask(f))
<1>1. /\ f \in CcdFields /\ f \in ControlFields
      /\ w \in SUBSET Bits /\ w \subseteq CCD_CONTROL_ALLOWED_MASK
      /\ Mask(f) \subseteq CCD_CONTROL_ALLOWED_MASK
      /\ \A g \in CcdFields : g \in ControlFields /\ RegOf(g) = RegOf(f)
  BY WordFields, Allowed, ControlWords DEF IInv, CcdFiltered, CcdFields
<1>2. v \in SUBSET Bits /\ Fitting(f, v) \in SUBSET Bits
  BY PlRegsAssumption DEF Fitting
<1>3. reg' = [reg EXCEPT !["CCD_CONTROL"] = m] /\ Ask(f, Fitting(f, v))
  BY DEF bsp_ccd_set_field, pl_reg_write_field, pl_reg_update_bits, pl_reg_write, pl_reg_read
<1>4. /\ Field(m, f) = Fitting(f, v) /\ m \subseteq CCD_CONTROL_ALLOWED_MASK
      /\ \A g \in CcdFields : g # f => Field(m, g) = Field(w, g)
  BY <1>1, <1>2, UpdatedFields
<1> HIDE DEF m
<1> QED
  BY <1>1, <1>2, <1>3, <1>4, CcdFieldStep

LEMMA CcdSetTiming ==
    ASSUME IInv, NEW f \in Timings, NEW t \in Times, bsp_ccd_set_timing(f, t)
    PROVE  IInv'
<1>1. /\ reg \in [Regs -> SUBSET Bits] /\ f \in Regs /\ t \in SUBSET Bits
      /\ reg' = [reg EXCEPT ![f] = t] /\ Ask(f, t)
  BY TimeBits DEF bsp_ccd_set_timing, pl_reg_write, IInv, Types, Regs
<1>2. /\ asked' \in [ControlFields \union Timings -> SUBSET Bits]
      /\ asked'[f] = t
      /\ \A g \in ControlFields \union Timings : g # f => asked'[g] = asked[g]
  BY <1>1, AskOne DEF IInv
<1>3. /\ reg'["CCD_CONTROL"] = reg["CCD_CONTROL"] /\ reg'["ADC_CONTROL"] = reg["ADC_CONTROL"]
      /\ \A g \in Timings : reg'[g] = IF g = f THEN t ELSE reg[g]
      /\ reg' \in [Regs -> SUBSET Bits]
  BY <1>1 DEF Regs, Timings
<1>4. \A g \in ControlFields : reg'[RegOf(g)] = reg[RegOf(g)] /\ asked'[g] = asked[g]
  BY <1>2, <1>3, WordFields
<1> QED
  BY <1>2, <1>3, <1>4 DEF IInv, Types, FieldsHeld, TimingsHeld, CcdFiltered

LEMMA AdcSetField ==
    ASSUME IInv, NEW f \in {"adc_mode", "three_channel"}, NEW v \in Args,
           bsp_adc_set_field(f, v)
    PROVE  IInv'
<1> DEFINE w == reg["ADC_CONTROL"]
           m == (w \intersect Not(Mask(f))) \union
                ((Shl(v, Shift(f)) \intersect Mask(f)) \intersect Mask(f))
<1>1. /\ f \in AdcFields /\ f \in ControlFields /\ w \in SUBSET Bits
      /\ \A g \in AdcFields : g \in ControlFields /\ RegOf(g) = RegOf(f)
  BY WordFields, ControlWords DEF AdcFields
<1>2. v \in SUBSET Bits /\ Fitting(f, v) \in SUBSET Bits
  BY PlRegsAssumption DEF Fitting
<1>3. reg' = [reg EXCEPT !["ADC_CONTROL"] = m] /\ Ask(f, Fitting(f, v))
  BY DEF bsp_adc_set_field, pl_reg_write_field, pl_reg_update_bits, pl_reg_write, pl_reg_read
<1>4. /\ m \in SUBSET Bits /\ Field(m, f) = Fitting(f, v)
      /\ \A g \in ControlFields : RegOf(f) = RegOf(g) /\ f # g => Field(m, g) = Field(w, g)
  <2>1. w \in SUBSET Bits /\ f \in ControlFields
    BY <1>1
  <2> HIDE DEF w
  <2> QED
    BY <1>2, <2>1, UpdatedFields
<1> HIDE DEF m
<1> QED
  BY <1>1, <1>2, <1>3, <1>4, AdcFieldStep

LEMMA AdcClearInitErr == ASSUME IInv, bsp_adc_clear_init_err PROVE IInv'
<1> DEFINE f == "init_err_clr"
           w == reg["ADC_CONTROL"]
           m == w \union Mask(f)
<1>1. /\ f \in AdcFields /\ f \in ControlFields /\ Width(f) = 1 /\ w \in SUBSET Bits
      /\ \A g \in AdcFields : g \in ControlFields /\ RegOf(g) = RegOf(f)
  BY WordFields, ControlWords DEF AdcFields
<1>2. reg' = [reg EXCEPT !["ADC_CONTROL"] = m] /\ Ask(f, BIT(0))
  BY DEF bsp_adc_clear_init_err, pl_reg_set_bits, pl_reg_write, pl_reg_read, Bool
<1>3. /\ m \in SUBSET Bits /\ Field(m, f) = BIT(0)
      /\ \A g \in AdcFields : g # f => Field(m, g) = Field(w, g)
  BY <1>1, SetFields
<1>4. BIT(0) \in SUBSET Bits
  BY DEF BIT, Bits
<1> HIDE DEF m, f
<1> QED
  BY <1>1, <1>2, <1>3, <1>4, AdcFieldStep

\* Writing the whole word of the ADC.
LEMMA AdcWhole ==
    ASSUME IInv, NEW c \in Configs(AdcFields), NEW m \in SUBSET Bits,
           reg' = [reg EXCEPT !["ADC_CONTROL"] = m], AskAll(AdcFields, Meant(AdcFields, c)),
           \A f \in AdcFields : Field(m, f) = Meant(AdcFields, c)[f]
    PROVE  IInv'
<1>1. \A f \in AdcFields : Meant(AdcFields, c)[f] \in SUBSET Bits
  BY ArgBits, WordFields
<1>2. /\ asked' \in [ControlFields \union Timings -> SUBSET Bits]
      /\ \A f \in AdcFields : asked'[f] = Meant(AdcFields, c)[f]
      /\ \A f \in (ControlFields \union Timings) \ AdcFields : asked'[f] = asked[f]
  BY <1>1, AskSeveral, WordFields DEF IInv
<1>3. \A f \in CcdFields \union Timings : f \notin AdcFields
  BY DEF AdcFields, CcdFields, Timings
<1> QED
  BY <1>2, <1>3, WordFields, AdcStep

LEMMA AdcInit ==
    ASSUME IInv, NEW c \in Configs(AdcFields), bsp_adc_init(c)
    PROVE  IInv'
<1>1. /\ reg' = [reg EXCEPT !["ADC_CONTROL"] = AdcWord(c)]
      /\ AskAll(AdcFields, Meant(AdcFields, c))
  BY DEF bsp_adc_init, pl_reg_write
<1>2. /\ AdcWord(c) \in SUBSET Bits
      /\ \A f \in AdcFields : Field(AdcWord(c), f) = Meant(AdcFields, c)[f]
  BY ArgBits, WordFields, AdcWordFields
<1> QED
  BY <1>1, <1>2, AdcWhole

LEMMA AdcSetControlReg ==
    ASSUME IInv, NEW c \in Configs(AdcFields), NEW j \in Junk, bsp_adc_set_control_reg(c, j)
    PROVE  IInv'
<1> DEFINE m == RawWord(AdcFields, Meant(AdcFields, c), j)
<1>1. reg' = [reg EXCEPT !["ADC_CONTROL"] = m] /\ AskAll(AdcFields, Meant(AdcFields, c))
  BY DEF bsp_adc_set_control_reg, pl_reg_write
<1>2. m \in SUBSET Bits /\ \A f \in AdcFields : Field(m, f) = Meant(AdcFields, c)[f]
  BY ArgBits, WordFields, RawWordFields, PlRegsAssumption
<1> HIDE DEF m
<1> QED
  BY <1>1, <1>2, AdcWhole

\* The filter of a write block leaves the fields alone.
LEMMA Filtered ==
    ASSUME NEW f \in ControlFields, NEW w, NEW k, Mask(f) \subseteq k
    PROVE  Field(w \intersect k, f) = Field(w, f)
  BY FieldBits DEF Field

LEMMA AdcBlock ==
    ASSUME IInv, NEW c \in Configs(AdcFields), NEW j \in Junk, WriteBlockAdc(c, j)
    PROVE  IInv'
<1> DEFINE w == RawWord(AdcFields, Meant(AdcFields, c), j)
           m == w \intersect ADC_CONTROL_ALLOWED_MASK
<1>1. reg' = [reg EXCEPT !["ADC_CONTROL"] = m] /\ AskAll(AdcFields, Meant(AdcFields, c))
  BY DEF WriteBlockAdc, pl_reg_write
<1>2. m \in SUBSET Bits /\ \A f \in AdcFields : Field(w, f) = Meant(AdcFields, c)[f]
  BY ArgBits, WordFields, RawWordFields, PlRegsAssumption
<1> HIDE DEF w
<1>3. \A f \in AdcFields : Field(m, f) = Meant(AdcFields, c)[f]
  BY <1>2, Filtered, Allowed, WordFields
<1> HIDE DEF m
<1> QED
  BY <1>1, <1>2, <1>3, AdcWhole

LEMMA CcdBlock ==
    ASSUME IInv, NEW c \in Configs(CcdFields), NEW j \in Junk, WriteBlockCcd(c, j)
    PROVE  IInv'
<1> DEFINE d == Meant(CcdFields, c)
           w == RawWord(CcdFields, d, j)
           m == w \intersect CCD_CONTROL_ALLOWED_MASK
<1>1. reg' = [reg EXCEPT !["CCD_CONTROL"] = m] /\ AskAll(CcdFields, d)
  BY DEF WriteBlockCcd, pl_reg_write
<1>2. /\ \A f \in CcdFields : d[f] \subseteq 0 .. Width(f) - 1
      /\ \A f \in CcdFields : d[f] \in SUBSET Bits
  BY ArgBits, WordFields
<1> HIDE DEF d
<1>3. \A f \in CcdFields : Field(w, f) = d[f]
  BY <1>2, RawWordFields, PlRegsAssumption
<1> HIDE DEF w
<1>4. \A f \in CcdFields : Field(m, f) = d[f]
  BY <1>3, Filtered, Allowed, WordFields
<1>5. /\ asked' \in [ControlFields \union Timings -> SUBSET Bits]
      /\ \A f \in CcdFields : asked'[f] = d[f]
      /\ \A f \in (ControlFields \union Timings) \ CcdFields : asked'[f] = asked[f]
  BY <1>1, <1>2, AskSeveral, WordFields DEF IInv
<1>6. \A f \in AdcFields \union Timings : f \notin CcdFields
  BY DEF AdcFields, CcdFields, Timings
<1>7. m \subseteq CCD_CONTROL_ALLOWED_MASK
  OBVIOUS
<1> HIDE DEF m
<1> QED
  BY <1>1, <1>4, <1>5, <1>6, <1>7, WordFields, CcdStep

LEMMA InitIInv == Init => IInv
<1> SUFFICES ASSUME Init PROVE IInv
  OBVIOUS
<1>1. /\ \A r \in Regs : reg[r] = {} /\ reg \in [Regs -> SUBSET Bits]
      /\ \A f \in ControlFields \union Timings : asked[f] = {}
      /\ asked \in [ControlFields \union Timings -> SUBSET Bits]
  BY DEF Init, Regs, Nothing
<1>2. \A f \in ControlFields : RegOf(f) \in Regs
  BY DEF RegOf, Regs
<1>3. \A f \in ControlFields : Field({}, f) = {}
  BY DEF Field
<1> QED
  BY <1>1, <1>2, <1>3 DEF IInv, Types, FieldsHeld, TimingsHeld, CcdFiltered, Regs

\* One lemma per driver function.
LEMMA NextIInv == IInv /\ [Next]_vars => IInv'
<1> SUFFICES ASSUME IInv, [Next]_vars PROVE IInv'
  OBVIOUS
<1>1. CASE CcdDriver
  BY <1>1, CcdInit, CcdDeinit, CcdSetBool, CcdSetField, CcdSetTiming DEF CcdDriver
<1>2. CASE AdcDriver
  BY <1>2, AdcInit, AdcSetField, AdcClearInitErr, AdcSetControlReg DEF AdcDriver
<1>3. CASE WriteBlock
  BY <1>3, CcdBlock, AdcBlock DEF WriteBlock
<1>4. CASE UNCHANGED vars
  BY <1>4 DEF vars, IInv, Types, FieldsHeld, TimingsHeld, CcdFiltered
<1> QED
  BY <1>1, <1>2, <1>3, <1>4 DEF Next

-----------------------------------------------------------------------------
\* Two words that hold the same fields have the same allowed bits.
LEMMA SameWord ==
    ASSUME NEW fs \in SUBSET ControlFields, NEW k \in SUBSET Bits,
           \A x \in k : \E f \in fs : x \in Mask(f),
           NEW w, NEW u, \A f \in fs : Field(w, f) = Field(u, f)
    PROVE  w \intersect k = u \intersect k
<1>1. ASSUME NEW x \in k PROVE x \in w <=> x \in u
  <2>1. PICK f \in fs : x \in Mask(f)
    OBVIOUS
  <2>2. x \in Int
    BY DEF Bits
  <2>3. x - Shift(f) \in 0 .. Width(f) - 1
    BY <2>1, <2>2, MaskBits
  <2>4. (x - Shift(f)) + Shift(f) = x
    BY <2>2, Masks
  <2>5. x \in w <=> x - Shift(f) \in Field(w, f)
    BY <2>3, <2>4 DEF Field
  <2>6. x \in u <=> x - Shift(f) \in Field(u, f)
    BY <2>3, <2>4 DEF Field
  <2> QED
    BY <2>5, <2>6
<1> QED
  BY <1>1

LEMMA IInvHolds == IInv => RegistersHoldFields
<1> SUFFICES ASSUME IInv PROVE RegistersHoldFields
  OBVIOUS
<1>1. /\ reg["CCD_CONTROL"] \in SUBSET Bits /\ reg["ADC_CONTROL"] \in SUBSET Bits
      /\ \A f \in ControlFields : reg[RegOf(f)] \in SUBSET Bits
  BY ControlWords, Masks
<1>2. ASSUME NEW f \in ControlFields
      PROVE  /\ pl_reg_read_field(RegOf(f), Mask(f), Shift(f)) = asked[f]
             /\ asked[f] \subseteq 0 .. Width(f) - 1
             /\ Fitting(f, asked[f]) = asked[f]
  <2>1. Field(reg[RegOf(f)], f) = asked[f]
    BY DEF IInv, FieldsHeld
  <2>2. asked[f] \subseteq 0 .. Width(f) - 1
    BY <2>1 DEF Field
  <2> QED
    BY <1>1, <2>1, <2>2, ReadBack DEF pl_reg_read_field, pl_reg_read, Fitting
<1>3. ASSUME NEW f \in {"enable", "sudo", "adc_mode"}
      PROVE  bsp_get_status(f) <=> asked[f] = BIT(0)
  <2>1. f \in ControlFields /\ 0 .. Width(f) - 1 = {0}
    BY DEF ControlFields, CcdFields, AdcFields, Width
  <2>2. asked[f] \subseteq {0} /\ (bsp_get_status(f) <=> asked[f] # {})
    BY <1>2, <2>1 DEF bsp_get_status
  <2> QED
    BY <2>2 DEF BIT
<1>4. \A f \in ControlFields : asked[f] \in SUBSET Bits
  BY DEF IInv, Types
<1>5. pl_reg_read("CCD_CONTROL") = tcp_cfg_build_ccd_control_word(asked)
  <2>1. \A f \in CcdFields : Field(CcdWord(asked), f) = Field(reg["CCD_CONTROL"], f)
    BY <1>2, <1>4, WordFields, CcdWordFields DEF IInv, FieldsHeld
  <2>2. reg["CCD_CONTROL"] \intersect CCD_CONTROL_ALLOWED_MASK
            = CcdWord(asked) \intersect CCD_CONTROL_ALLOWED_MASK
    BY <2>1, WordFields, Allowed, SameWord
  <2> QED
    BY <2>2 DEF IInv, CcdFiltered, pl_reg_read, tcp_cfg_build_ccd_control_word
<1>6. pl_reg_read("ADC_CONTROL") \intersect ADC_CONTROL_ALLOWED_MASK
          = tcp_cfg_build_adc_control_word(asked)
  <2>1. \A f \in AdcFields : Field(AdcWord(asked), f) = Field(reg["ADC_CONTROL"], f)
    BY <1>2, <1>4, WordFields, AdcWordFields DEF IInv, FieldsHeld
  <2>2. reg["ADC_CONTROL"] \intersect ADC_CONTROL_ALLOWED_MASK
            = AdcWord(asked) \intersect ADC_CONTROL_ALLOWED_MASK
    <3>1. /\ AdcFields \in SUBSET ControlFields
          /\ ADC_CONTROL_ALLOWED_MASK \in SUBSET Bits
          /\ \A x \in ADC_CONTROL_ALLOWED_MASK : \E f \in AdcFields : x \in Mask(f)
      BY WordFields, Allowed
    <3>2. \A f \in AdcFields : Field(reg["ADC_CONTROL"], f) = Field(AdcWord(asked), f)
      BY <2>1
    <3> QED
      BY <3>1, <3>2, SameWord
  <2> QED
    BY <2>2 DEF pl_reg_read, tcp_cfg_build_adc_control_word
<1> QED
  BY <1>2, <1>3, <1>5, <1>6 DEF RegistersHoldFields, IInv, TimingsHeld, pl_reg_read

\* The inductive invariant, for every argument the drivers may be given.
THEOREM IInvAlways == Spec => []IInv
  BY InitIInv, NextIInv, PTL DEF Spec

\* After any sequence of calls of bsp_ccd.c, bsp_adc.c and write blocks, every
\* field reads back as asked for, and the words are those of the state report.
THEOREM FieldsReadBack == Spec => []RegistersHoldFields
  BY IInvHolds, IInvAlways, PTL
=============================================================================
