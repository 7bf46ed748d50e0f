---------------------------- MODULE UnitsProofs ----------------------------
(***************************************************************************)
(* Theorems about the units of a hart, for every configuration of them and *)
(* every size of their tables, and about the arithmetic of exec_step, for  *)
(* every width of a register.                                              *)
(***************************************************************************)
EXTENDS Units, Arith, WellFoundedInduction, TLAPS

-----------------------------------------------------------------------------
(* CSR access                                                              *)

CsrAddrs == 0 .. 4095

\* The addresses whose case makes a check of its own, in either switch.
Checked ==
  VsClintAddrs \cup StimecmpAddrs \cup VstimecmpAddrs \cup IregAddrs
  \cup {STOPEI_ADDR, VSTOPEI_ADDR, SATP_ADDR, VSMPUMASK_ADDR}

\* What one switch does not check the other does not check either, and it
\* handles it as a case of its own or finds it in csr_table.
LEMMA UncheckedByGet ==
  ASSUME NEW a \in GetUnchecked
  PROVE  /\ a \notin Checked
         /\ a \in SetUnchecked \cup Registered \cup TimeAddrs
<1>1. a \notin Checked
  BY DEF GetUnchecked, Checked, TimeAddrs, CycleAddrs, CyclehAddrs, StatusAddrs, MCYCLE_ADDR, MCYCLEH_ADDR,
         MSTATUS_ADDR, HpmAddrs, XipAddrs, XieAddrs, VsClintAddrs, VirtAddrs, DelegAddrs,
         HviprioAddrs, GuestAddrs, DebugAddrs, EnvcfgAddrs, FcsrAddrs, FCSR_ADDR, FFLAGS_ADDR, FRM_ADDR,
         StimecmpAddrs, VstimecmpAddrs, IregAddrs, MiregAddrs, SiregAddrs, VsiregAddrs,
         VSMPUMASK_ADDR, STOPEI_ADDR, VSTOPEI_ADDR, SATP_ADDR
<1>2. \/ a \in TimeAddrs
      \/ a \in {\hC00, \hC80, \hB00, \hB80, \hB02, \hB82, \hEB0}
      \/ a \in SetUnchecked
  BY DEF GetUnchecked, SetUnchecked, XipAddrs, XieAddrs, VsClintAddrs, GuestAddrs, CycleAddrs, CyclehAddrs,
         StatusAddrs, MCYCLE_ADDR, MCYCLEH_ADDR, MSTATUS_ADDR
<1>3. {\hC00, \hC80, \hB00, \hB80, \hB02, \hB82, \hEB0} \subseteq Registered
  BY DEF Registered, CounterAddrs, VirtualAddrs, TimeAddrs
<1> QED BY <1>1, <1>2, <1>3

LEMMA UncheckedBySet ==
  ASSUME NEW a \in SetUnchecked
  PROVE  a \notin Checked /\ a \in GetUnchecked \cup Registered
<1>1. a \notin Checked
  BY DEF SetUnchecked, Checked, HpmAddrs, VsClintAddrs, VirtAddrs, DelegAddrs, SpmpAddrs,
         HviprioAddrs, DebugAddrs, EnvcfgAddrs, FcsrAddrs, FCSR_ADDR, FFLAGS_ADDR, FRM_ADDR,
         StimecmpAddrs, VstimecmpAddrs, IregAddrs, MiregAddrs, SiregAddrs, VsiregAddrs,
         VSMPUMASK_ADDR, STOPEI_ADDR, VSTOPEI_ADDR, SATP_ADDR
<1>2. \/ a \in {\h301, \h305, \h105, \h205, \h341, \h141, \h310, \h600, \h35C, \h602, \h306, \h106, \h320}
      \/ a \in SpmpAddrs
      \/ a \in GetUnchecked
  BY DEF GetUnchecked, SetUnchecked, XipAddrs, XieAddrs, VsClintAddrs, GuestAddrs, CycleAddrs, CyclehAddrs,
         StatusAddrs, MCYCLE_ADDR, MCYCLEH_ADDR, MSTATUS_ADDR
<1>3. /\ {\h301, \h305, \h105, \h205, \h341, \h141, \h310, \h600, \h35C, \h602, \h306, \h106, \h320}
            \subseteq Registered
      /\ SpmpAddrs \subseteq Registered
  BY DEF Registered, MachineAddrs, SupervisorAddrs, HypervisorAddrs, VirtualAddrs
<1> QED BY <1>1, <1>2, <1>3

\* What the two switches check of an address, case by case.
LEMMA GetCases ==
  ASSUME NEW c, NEW a
  PROVE  /\ a \in GetUnchecked => GetCheck(c, a) = ""
         /\ a \in VsClintAddrs => GetCheck(c, a) = VtiCheck(c)
         /\ a = STOPEI_ADDR => GetCheck(c, a) = SeiInjectionCheck(c)
         /\ a = VSTOPEI_ADDR => GetCheck(c, a) = VstopeiCheck(c)
         /\ a = SATP_ADDR => GetCheck(c, a) = IF c.tvm THEN "illegal" ELSE ""
         /\ a \in StimecmpAddrs => GetCheck(c, a) = StimecmpCheck(c)
         /\ a \in VstimecmpAddrs => GetCheck(c, a) = VstimecmpCheck(c)
         /\ a \in IregAddrs => GetCheck(c, a) = GetIregCheck(c, a)
         /\ a = VSMPUMASK_ADDR => GetCheck(c, a) = IF c.vgein = 0 THEN "illegal" ELSE ""
         /\ a \notin GetUnchecked \cup Checked =>
              GetCheck(c, a) = IF a \in Registered THEN "" ELSE "illegal"
<1>1. a \in GetUnchecked => a \notin Checked
  BY UncheckedByGet
<1>2. ASSUME a \in GetUnchecked PROVE GetCheck(c, a) = ""
  <2>1. /\ a \notin VsClintAddrs /\ a # STOPEI_ADDR /\ a # VSTOPEI_ADDR /\ a # SATP_ADDR
        /\ a \notin StimecmpAddrs /\ a \notin VstimecmpAddrs /\ a \notin IregAddrs /\ a # VSMPUMASK_ADDR
    BY <1>1, <1>2 DEF Checked, VsClintAddrs, StimecmpAddrs, VstimecmpAddrs, IregAddrs,
              MiregAddrs, SiregAddrs, VsiregAddrs,
         VSMPUMASK_ADDR, STOPEI_ADDR, VSTOPEI_ADDR, SATP_ADDR
  <2> QED BY <1>2, <2>1, Zenon DEF GetCheck
<1>3. ASSUME a \in VsClintAddrs PROVE GetCheck(c, a) = VtiCheck(c)
  <2>1. /\ a \notin GetUnchecked /\ a # STOPEI_ADDR /\ a # VSTOPEI_ADDR /\ a # SATP_ADDR
        /\ a \notin StimecmpAddrs /\ a \notin VstimecmpAddrs /\ a \notin IregAddrs /\ a # VSMPUMASK_ADDR
    BY <1>1, <1>3 DEF Checked, VsClintAddrs, StimecmpAddrs, VstimecmpAddrs, IregAddrs,
              MiregAddrs, SiregAddrs, VsiregAddrs,
         VSMPUMASK_ADDR, STOPEI_ADDR, VSTOPEI_ADDR, SATP_ADDR
  <2> QED BY <1>3, <2>1, Zenon DEF GetCheck
<1>4. ASSUME a = STOPEI_ADDR PROVE GetCheck(c, a) = SeiInjectionCheck(c)
  <2>1. /\ a \notin GetUnchecked /\ a \notin VsClintAddrs /\ a # VSTOPEI_ADDR /\ a # SATP_ADDR
        /\ a \notin StimecmpAddrs /\ a \notin VstimecmpAddrs /\ a \notin IregAddrs /\ a # VSMPUMASK_ADDR
    BY <1>1, <1>4 DEF Checked, VsClintAddrs, StimecmpAddrs, VstimecmpAddrs, IregAddrs,
              MiregAddrs, SiregAddrs, VsiregAddrs,
         VSMPUMASK_ADDR, STOPEI_ADDR, VSTOPEI_ADDR, SATP_ADDR
  <2> QED BY <1>4, <2>1, Zenon DEF GetCheck
<1>5. ASSUME a = VSTOPEI_ADDR PROVE GetCheck(c, a) = VstopeiCheck(c)
  <2>1. /\ a \notin GetUnchecked /\ a \notin VsClintAddrs /\ a # STOPEI_ADDR /\ a # SATP_ADDR
        /\ a \notin StimecmpAddrs /\ a \notin VstimecmpAddrs /\ a \notin IregAddrs /\ a # VSMPUMASK_ADDR
    BY <1>1, <1>5 DEF Checked, VsClintAddrs, StimecmpAddrs, VstimecmpAddrs, IregAddrs,
              MiregAddrs, SiregAddrs, VsiregAddrs,
         VSMPUMASK_ADDR, STOPEI_ADDR, VSTOPEI_ADDR, SATP_ADDR
  <2> QED BY <1>5, <2>1, Zenon DEF GetCheck
<1>6. ASSUME a = SATP_ADDR PROVE GetCheck(c, a) = IF c.tvm THEN "illegal" ELSE ""
  <2>1. /\ a \notin GetUnchecked /\ a \notin VsClintAddrs /\ a # STOPEI_ADDR /\ a # VSTOPEI_ADDR
        /\ a \notin StimecmpAddrs /\ a \notin VstimecmpAddrs /\ a \notin IregAddrs /\ a # VSMPUMASK_ADDR
    BY <1>1, <1>6 DEF Checked, VsClintAddrs, StimecmpAddrs, VstimecmpAddrs, IregAddrs,
              MiregAddrs, SiregAddrs, VsiregAddrs,
         VSMPUMASK_ADDR, STOPEI_ADDR, VSTOPEI_ADDR, SATP_ADDR
  <2> QED BY <1>6, <2>1, Zenon DEF GetCheck
<1>7. ASSUME a \in StimecmpAddrs PROVE GetCheck(c, a) = StimecmpCheck(c)
  <2>1. /\ a \notin GetUnchecked /\ a \notin VsClintAddrs /\ a # STOPEI_ADDR /\ a # VSTOPEI_ADDR
        /\ a # SATP_ADDR /\ a \notin VstimecmpAddrs /\ a \notin IregAddrs /\ a # VSMPUMASK_ADDR
    BY <1>1, <1>7 DEF Checked, VsClintAddrs, StimecmpAddrs, VstimecmpAddrs, IregAddrs,
              MiregAddrs, SiregAddrs, VsiregAddrs,
         VSMPUMASK_ADDR, STOPEI_ADDR, VSTOPEI_ADDR, SATP_ADDR
  <2> QED BY <1>7, <2>1, Zenon DEF GetCheck
<1>8. ASSUME a \in VstimecmpAddrs PROVE GetCheck(c, a) = VstimecmpCheck(c)
  <2>1. /\ a \notin GetUnchecked /\ a \notin VsClintAddrs /\ a # STOPEI_ADDR /\ a # VSTOPEI_ADDR
        /\ a # SATP_ADDR /\ a \notin StimecmpAddrs /\ a \notin IregAddrs /\ a # VSMPUMASK_ADDR
    BY <1>1, <1>8 DEF Checked, VsClintAddrs, StimecmpAddrs, VstimecmpAddrs, IregAddrs,
              MiregAddrs, SiregAddrs, VsiregAddrs,
         VSMPUMASK_ADDR, STOPEI_ADDR, VSTOPEI_ADDR, SATP_ADDR
  <2> QED BY <1>8, <2>1, Zenon DEF GetCheck
<1>9. ASSUME a \in IregAddrs PROVE GetCheck(c, a) = GetIregCheck(c, a)
  <2>1. /\ a \notin GetUnchecked /\ a \notin VsClintAddrs /\ a # STOPEI_ADDR /\ a # VSTOPEI_ADDR
        /\ a # SATP_ADDR /\ a \notin StimecmpAddrs /\ a \notin VstimecmpAddrs /\ a # VSMPUMASK_ADDR
    BY <1>1, <1>9 DEF Checked, VsClintAddrs, StimecmpAddrs, VstimecmpAddrs, IregAddrs,
              MiregAddrs, SiregAddrs, VsiregAddrs,
         VSMPUMASK_ADDR, STOPEI_ADDR, VSTOPEI_ADDR, SATP_ADDR
  <2> QED BY <1>9, <2>1, Zenon DEF GetCheck
<1>10. ASSUME a = VSMPUMASK_ADDR PROVE GetCheck(c, a) = IF c.vgein = 0 THEN "illegal" ELSE ""
  <2>1. /\ a \notin GetUnchecked /\ a \notin VsClintAddrs /\ a # STOPEI_ADDR /\ a # VSTOPEI_ADDR
        /\ a # SATP_ADDR /\ a \notin StimecmpAddrs /\ a \notin VstimecmpAddrs /\ a \notin IregAddrs
    BY <1>1, <1>10 DEF Checked, VsClintAddrs, StimecmpAddrs, VstimecmpAddrs, IregAddrs,
              MiregAddrs, SiregAddrs, VsiregAddrs,
         VSMPUMASK_ADDR, STOPEI_ADDR, VSTOPEI_ADDR, SATP_ADDR
  <2> QED BY <1>10, <2>1, Zenon DEF GetCheck
<1>11. ASSUME a \notin GetUnchecked \cup Checked
      PROVE  GetCheck(c, a) = IF a \in Registered THEN "" ELSE "illegal"
  <2>1. /\ a \notin GetUnchecked /\ a \notin VsClintAddrs /\ a # STOPEI_ADDR /\ a # VSTOPEI_ADDR /\ a # SATP_ADDR
        /\ a \notin StimecmpAddrs /\ a \notin VstimecmpAddrs /\ a \notin IregAddrs /\ a # VSMPUMASK_ADDR
    BY <1>11 DEF Checked
  <2> QED BY <2>1, Zenon DEF GetCheck
<1> QED BY <1>2, <1>3, <1>4, <1>5, <1>6, <1>7, <1>8, <1>9, <1>10, <1>11, Zenon

LEMMA SetCases ==
  ASSUME NEW c, NEW a
  PROVE  /\ a \in SetUnchecked => SetCheck(c, a) = ""
         /\ a \in VsClintAddrs => SetCheck(c, a) = VtiCheck(c)
         /\ a = STOPEI_ADDR => SetCheck(c, a) = SeiInjectionCheck(c)
         /\ a = VSTOPEI_ADDR => SetCheck(c, a) = VstopeiCheck(c)
         /\ a = SATP_ADDR => SetCheck(c, a) = IF c.tvm THEN "illegal" ELSE ""
         /\ a \in StimecmpAddrs => SetCheck(c, a) = StimecmpCheck(c)
         /\ a \in VstimecmpAddrs => SetCheck(c, a) = VstimecmpCheck(c)
         /\ a \in IregAddrs => SetCheck(c, a) = SetIregCheck(c, a)
         /\ a = VSMPUMASK_ADDR => SetCheck(c, a) = IF c.vgein = 0 THEN "illegal" ELSE ""
         /\ a \notin SetUnchecked \cup Checked =>
              SetCheck(c, a) = IF a \in Registered THEN "" ELSE "illegal"
<1>1. a \in SetUnchecked => a \notin Checked
  BY UncheckedBySet
<1>2. ASSUME a \in SetUnchecked PROVE SetCheck(c, a) = ""
  <2>1. /\ a \notin VsClintAddrs /\ a # STOPEI_ADDR /\ a # VSTOPEI_ADDR /\ a # SATP_ADDR
        /\ a \notin StimecmpAddrs /\ a \notin VstimecmpAddrs /\ a \notin IregAddrs /\ a # VSMPUMASK_ADDR
    BY <1>1, <1>2 DEF Checked, VsClintAddrs, StimecmpAddrs, VstimecmpAddrs, IregAddrs,
              MiregAddrs, SiregAddrs, VsiregAddrs,
         VSMPUMASK_ADDR, STOPEI_ADDR, VSTOPEI_ADDR, SATP_ADDR
  <2> QED BY <1>1, <1>2, <2>1, Zenon DEF SetCheck
<1>3. ASSUME a \in VsClintAddrs PROVE SetCheck(c, a) = VtiCheck(c)
  <2>1. /\ a \notin SetUnchecked /\ a # STOPEI_ADDR /\ a # VSTOPEI_ADDR /\ a # SATP_ADDR
        /\ a \notin StimecmpAddrs /\ a \notin VstimecmpAddrs /\ a \notin IregAddrs /\ a # VSMPUMASK_ADDR
    BY <1>1, <1>3 DEF Checked, VsClintAddrs, StimecmpAddrs, VstimecmpAddrs, IregAddrs,
              MiregAddrs, SiregAddrs, VsiregAddrs,
         VSMPUMASK_ADDR, STOPEI_ADDR, VSTOPEI_ADDR, SATP_ADDR
  <2> QED BY <1>1, <1>3, <2>1, Zenon DEF SetCheck
<1>4. ASSUME a = STOPEI_ADDR PROVE SetCheck(c, a) = SeiInjectionCheck(c)
  <2>1. /\ a \notin SetUnchecked /\ a \notin VsClintAddrs /\ a # VSTOPEI_ADDR /\ a # SATP_ADDR
        /\ a \notin StimecmpAddrs /\ a \notin VstimecmpAddrs /\ a \notin IregAddrs /\ a # VSMPUMASK_ADDR
    BY <1>1, <1>4 DEF Checked, VsClintAddrs, StimecmpAddrs, VstimecmpAddrs, IregAddrs,
              MiregAddrs, SiregAddrs, VsiregAddrs,
         VSMPUMASK_ADDR, STOPEI_ADDR, VSTOPEI_ADDR, SATP_ADDR
  <2> QED BY <1>1, <1>4, <2>1, Zenon DEF SetCheck
<1>5. ASSUME a = VSTOPEI_ADDR PROVE SetCheck(c, a) = VstopeiCheck(c)
  <2>1. /\ a \notin SetUnchecked /\ a \notin VsClintAddrs /\ a # STOPEI_ADDR /\ a # SATP_ADDR
        /\ a \notin StimecmpAddrs /\ a \notin VstimecmpAddrs /\ a \notin IregAddrs /\ a # VSMPUMASK_ADDR
    BY <1>1, <1>5 DEF Checked, VsClintAddrs, StimecmpAddrs, VstimecmpAddrs, IregAddrs,
              MiregAddrs, SiregAddrs, VsiregAddrs,
         VSMPUMASK_ADDR, STOPEI_ADDR, VSTOPEI_ADDR, SATP_ADDR
  <2> QED BY <1>1, <1>5, <2>1, Zenon DEF SetCheck
<1>6. ASSUME a = SATP_ADDR PROVE SetCheck(c, a) = IF c.tvm THEN "illegal" ELSE ""
  <2>1. /\ a \notin SetUnchecked /\ a \notin VsClintAddrs /\ a # STOPEI_ADDR /\ a # VSTOPEI_ADDR
        /\ a \notin StimecmpAddrs /\ a \notin VstimecmpAddrs /\ a \notin IregAddrs /\ a # VSMPUMASK_ADDR
    BY <1>1, <1>6 DEF Checked, VsClintAddrs, StimecmpAddrs, VstimecmpAddrs, IregAddrs,
              MiregAddrs, SiregAddrs, VsiregAddrs,
         VSMPUMASK_ADDR, STOPEI_ADDR, VSTOPEI_ADDR, SATP_ADDR
  <2> QED BY <1>1, <1>6, <2>1, Zenon DEF SetCheck
<1>7. ASSUME a \in StimecmpAddrs PROVE SetCheck(c, a) = StimecmpCheck(c)
  <2>1. /\ a \notin SetUnchecked /\ a \notin VsClintAddrs /\ a # STOPEI_ADDR /\ a # VSTOPEI_ADDR
        /\ a # SATP_ADDR /\ a \notin VstimecmpAddrs /\ a \notin IregAddrs /\ a # VSMPUMASK_ADDR
    BY <1>1, <1>7 DEF Checked, VsClintAddrs, StimecmpAddrs, VstimecmpAddrs, IregAddrs,
              MiregAddrs, SiregAddrs, VsiregAddrs,
         VSMPUMASK_ADDR, STOPEI_ADDR, VSTOPEI_ADDR, SATP_ADDR
  <2> QED BY <1>1, <1>7, <2>1, Zenon DEF SetCheck
<1>8. ASSUME a \in VstimecmpAddrs PROVE SetCheck(c, a) = VstimecmpCheck(c)
  <2>1. /\ a \notin SetUnchecked /\ a \notin VsClintAddrs /\ a # STOPEI_ADDR /\ a # VSTOPEI_ADDR
        /\ a # SATP_ADDR /\ a \notin StimecmpAddrs /\ a \notin IregAddrs /\ a # VSMPUMASK_ADDR
    BY <1>1, <1>8 DEF Checked, VsClintAddrs, StimecmpAddrs, VstimecmpAddrs, IregAddrs,
              MiregAddrs, SiregAddrs, VsiregAddrs,
         VSMPUMASK_ADDR, STOPEI_ADDR, VSTOPEI_ADDR, SATP_ADDR
  <2> QED BY <1>1, <1>8, <2>1, Zenon DEF SetCheck
<1>9. ASSUME a \in IregAddrs PROVE SetCheck(c, a) = SetIregCheck(c, a)
  <2>1. /\ a \notin SetUnchecked /\ a \notin VsClintAddrs /\ a # STOPEI_ADDR /\ a # VSTOPEI_ADDR
        /\ a # SATP_ADDR /\ a \notin StimecmpAddrs /\ a \notin VstimecmpAddrs /\ a # VSMPUMASK_ADDR
    BY <1>1, <1>9 DEF Checked, VsClintAddrs, StimecmpAddrs, VstimecmpAddrs, IregAddrs,
              MiregAddrs, SiregAddrs, VsiregAddrs,
         VSMPUMASK_ADDR, STOPEI_ADDR, VSTOPEI_ADDR, SATP_ADDR
  <2> QED BY <1>1, <1>9, <2>1, Zenon DEF SetCheck
<1>10. ASSUME a = VSMPUMASK_ADDR PROVE SetCheck(c, a) = IF c.vgein = 0 THEN "illegal" ELSE ""
  <2>1. /\ a \notin SetUnchecked /\ a \notin VsClintAddrs /\ a # STOPEI_ADDR /\ a # VSTOPEI_ADDR
        /\ a # SATP_ADDR /\ a \notin StimecmpAddrs /\ a \notin VstimecmpAddrs /\ a \notin IregAddrs
    BY <1>1, <1>10 DEF Checked, VsClintAddrs, StimecmpAddrs, VstimecmpAddrs, IregAddrs,
              MiregAddrs, SiregAddrs, VsiregAddrs,
         VSMPUMASK_ADDR, STOPEI_ADDR, VSTOPEI_ADDR, SATP_ADDR
  <2> QED BY <1>1, <1>10, <2>1, Zenon DEF SetCheck
<1>11. ASSUME a \notin SetUnchecked \cup Checked
      PROVE  SetCheck(c, a) = IF a \in Registered THEN "" ELSE "illegal"
  <2>1. /\ a \notin SetUnchecked /\ a \notin VsClintAddrs /\ a # STOPEI_ADDR /\ a # VSTOPEI_ADDR /\ a # SATP_ADDR
        /\ a \notin StimecmpAddrs /\ a \notin VstimecmpAddrs /\ a \notin IregAddrs /\ a # VSMPUMASK_ADDR
    BY <1>11 DEF Checked
  <2> QED BY <1>1, <2>1, Zenon DEF SetCheck
<1> QED BY <1>2, <1>3, <1>4, <1>5, <1>6, <1>7, <1>8, <1>9, <1>10, <1>11, Zenon

\* Checks that refuse or pass.
LEMMA PlainChecks ==
  ASSUME NEW c
  PROVE  /\ VtiCheck(c) # "assert" /\ SeiInjectionCheck(c) # "assert"
         /\ StimecmpCheck(c) # "assert" /\ VstimecmpCheck(c) # "assert"
         /\ VsAccessException(c) # "assert" => VstopeiCheck(c) # "assert"
<1>1. VtiCheck(c) # "assert"
  BY DEF VtiCheck
<1>2. SeiInjectionCheck(c) # "assert"
  BY DEF SeiInjectionCheck
<1>3. StimecmpCheck(c) # "assert"
  BY DEF StimecmpCheck
<1>4. VstimecmpCheck(c) # "assert"
  BY <1>1, Zenon DEF VstimecmpCheck
<1>5. VsAccessException(c) # "assert" => VstopeiCheck(c) # "assert"
  BY Zenon DEF VstopeiCheck
<1> QED BY <1>1, <1>2, <1>3, <1>4, <1>5

\* The indirect registers of the three levels, read and written.
LEMMA IregCases ==
  ASSUME NEW c, NEW a
  PROVE  LET icsr == c.select + XiregOffset(a)
             g == GetIregCheck(c, a)
             s == SetIregCheck(c, a)
         IN  /\ a \in MiregAddrs => s = g /\ g = IF icsr \in IcsrsM THEN "" ELSE "illegal"
             /\ a \in SiregAddrs =>
                  g = IF icsr \in IcsrsS THEN SIcsrImsicCheck(c, icsr) ELSE "illegal"
             /\ a \in VsiregAddrs => g = VsIcsrCheck(c, icsr)
             /\ a \in SiregAddrs \cup VsiregAddrs =>
                  s = IF g = "" /\ Locked(c, icsr) THEN "illegal" ELSE g
<1> DEFINE icsr == c.select + XiregOffset(a)
<1>1. CASE a \in MiregAddrs
  <2>1. a \notin SiregAddrs /\ a \notin VsiregAddrs
    BY <1>1 DEF MiregAddrs, SiregAddrs, VsiregAddrs
  <2>2. GetIregCheck(c, a) = IF icsr \in IcsrsM THEN "" ELSE "illegal"
    BY <1>1, <2>1, Zenon DEF GetIregCheck
  <2>3. SetIregCheck(c, a) = IF icsr \notin IcsrsM THEN "illegal" ELSE ""
    BY <1>1, <2>1, Zenon DEF SetIregCheck
  <2> QED BY <1>1, <2>1, <2>2, <2>3, Zenon
<1>2. CASE a \in SiregAddrs
  <2>1. a \notin MiregAddrs /\ a \notin VsiregAddrs
    BY <1>2 DEF MiregAddrs, SiregAddrs, VsiregAddrs
  <2> DEFINE check == SIcsrImsicCheck(c, icsr)
  <2>2. GetIregCheck(c, a) = IF icsr \in IcsrsS THEN check ELSE "illegal"
    BY <1>2, <2>1, Zenon DEF GetIregCheck
  <2>3. SetIregCheck(c, a) = IF icsr \notin IcsrsS THEN "illegal"
                             ELSE Then(check, LockedCheck(c, icsr))
    BY <1>2, <2>1, Zenon DEF SetIregCheck
  <2> HIDE DEF icsr, check
  <2>4. SetIregCheck(c, a) = IF GetIregCheck(c, a) = "" /\ Locked(c, icsr)
                             THEN "illegal" ELSE GetIregCheck(c, a)
    BY <2>2, <2>3, Zenon DEF Then, LockedCheck
  <2> QED BY <1>2, <2>1, <2>2, <2>4, Zenon DEF icsr, check
<1>3. CASE a \in VsiregAddrs
  <2>1. a \notin MiregAddrs /\ a \notin SiregAddrs
    BY <1>3 DEF MiregAddrs, SiregAddrs, VsiregAddrs
  <2>2. GetIregCheck(c, a) = VsIcsrCheck(c, icsr)
    BY <1>3, <2>1, Zenon DEF GetIregCheck
  <2>3. SetIregCheck(c, a) = IF VsIcsrCheck(c, icsr) = "" /\ Locked(c, icsr)
                             THEN "illegal" ELSE VsIcsrCheck(c, icsr)
    BY <1>3, <2>1, Zenon DEF SetIregCheck, Then, LockedCheck
  <2> QED BY <1>3, <2>1, <2>2, <2>3, Zenon
<1> QED BY <1>1, <1>2, <1>3, Zenon

\* The two switches differ only for addresses of locked SMPU entries.
LEMMA SetCheckIsGetCheck ==
  ASSUME NEW c, NEW a, a \notin TimeAddrs
  PROVE  \/ SetCheck(c, a) = GetCheck(c, a)
         \/ /\ a \in SiregAddrs \cup VsiregAddrs /\ GetCheck(c, a) = ""
            /\ Locked(c, c.select + XiregOffset(a)) /\ SetCheck(c, a) = "illegal"
<1>1. CASE a \in IregAddrs
  <2>1. GetCheck(c, a) = GetIregCheck(c, a) /\ SetCheck(c, a) = SetIregCheck(c, a)
    BY <1>1, GetCases, SetCases, Zenon
  <2>2. CASE a \in MiregAddrs
    <3>1. SetIregCheck(c, a) = GetIregCheck(c, a)
      BY <2>2, IregCases, Zenon
    <3> QED BY <2>1, <3>1, Zenon
  <2>3. CASE a \in SiregAddrs \cup VsiregAddrs
    <3> DEFINE icsr == c.select + XiregOffset(a)
    <3>1. SetIregCheck(c, a) = IF GetIregCheck(c, a) = "" /\ Locked(c, icsr)
                               THEN "illegal" ELSE GetIregCheck(c, a)
      BY <2>3, IregCases, Zenon
    <3> QED BY <2>1, <2>3, <3>1, Zenon
  <2> QED BY <1>1, <2>2, <2>3 DEF IregAddrs
<1>2. CASE a \in Checked /\ a \notin IregAddrs
  <2>1. \/ a \in VsClintAddrs \/ a \in StimecmpAddrs \/ a \in VstimecmpAddrs
        \/ a = STOPEI_ADDR \/ a = VSTOPEI_ADDR \/ a = SATP_ADDR \/ a = VSMPUMASK_ADDR
    BY <1>2, Zenon DEF Checked
  <2>2. a \in VsClintAddrs \/ a \in StimecmpAddrs \/ a \in VstimecmpAddrs =>
          SetCheck(c, a) = GetCheck(c, a)
    BY GetCases, SetCases, Zenon
  <2>3. a = STOPEI_ADDR \/ a = VSTOPEI_ADDR => SetCheck(c, a) = GetCheck(c, a)
    BY GetCases, SetCases, Zenon
  <2>4. a = SATP_ADDR => SetCheck(c, a) = GetCheck(c, a)
    BY GetCases, SetCases, Zenon
  <2>5. a = VSMPUMASK_ADDR => SetCheck(c, a) = GetCheck(c, a)
    BY GetCases, SetCases, Zenon
  <2> QED BY <2>1, <2>2, <2>3, <2>4, <2>5, Zenon
<1>3. CASE a \notin Checked
  <2>1. /\ a \in GetUnchecked => a \in SetUnchecked \cup Registered
        /\ a \in SetUnchecked => a \in GetUnchecked \cup Registered
    BY UncheckedByGet, UncheckedBySet
  <2>2. /\ GetCheck(c, a) = IF a \in GetUnchecked \cup Registered THEN "" ELSE "illegal"
        /\ SetCheck(c, a) = IF a \in SetUnchecked \cup Registered THEN "" ELSE "illegal"
    BY <1>3, GetCases, SetCases, Zenon
  <2>3. SetCheck(c, a) = GetCheck(c, a)
    BY <2>1, <2>2, Zenon
  <2> QED BY <2>3, Zenon
<1> QED BY <1>1, <1>2, <1>3, Zenon

\* No check fails an assertion in a mode that may access the address at all.
LEMMA IregNoAssertion ==
  ASSUME NEW c, NEW a, a \in IregAddrs, a \in VsiregAddrs => VsAccessException(c) # "assert"
  PROVE  GetIregCheck(c, a) # "assert"
<1> DEFINE icsr == c.select + XiregOffset(a)
<1>1. CASE a \in MiregAddrs
  <2>1. GetIregCheck(c, a) = IF icsr \in IcsrsM THEN "" ELSE "illegal"
    BY <1>1, IregCases, Zenon
  <2> QED BY <2>1
<1>2. CASE a \in SiregAddrs
  <2>1. GetIregCheck(c, a) = IF icsr \in IcsrsS THEN SIcsrImsicCheck(c, icsr) ELSE "illegal"
    BY <1>2, IregCases, Zenon
  <2>2. SeiInjectionCheck(c) # "assert"
    BY PlainChecks
  <2>3. SIcsrImsicCheck(c, icsr) # "assert"
    BY <2>2, Zenon DEF SIcsrImsicCheck
  <2> QED BY <2>1, <2>3, Zenon
<1>3. CASE a \in VsiregAddrs
  <2>1. GetIregCheck(c, a) = VsIcsrCheck(c, icsr)
    BY <1>3, IregCases, Zenon
  <2>2. VsIcsrCheck(c, icsr) # "assert"
    BY <1>3, Zenon DEF VsIcsrCheck
  <2> QED BY <2>1, <2>2, Zenon
<1> QED BY <1>1, <1>2, <1>3 DEF IregAddrs

LEMMA CheckNoAssertion ==
  ASSUME NEW c, NEW a, a = VSTOPEI_ADDR \/ a \in VsiregAddrs => VsAccessException(c) # "assert"
  PROVE  GetCheck(c, a) # "assert"
<1>1. a \in IregAddrs => GetIregCheck(c, a) # "assert"
  BY IregNoAssertion
<1>2. a = VSTOPEI_ADDR => VstopeiCheck(c) # "assert"
  BY PlainChecks
<1>3. /\ VtiCheck(c) # "assert" /\ SeiInjectionCheck(c) # "assert"
      /\ StimecmpCheck(c) # "assert" /\ VstimecmpCheck(c) # "assert"
  BY PlainChecks
<1> QED BY <1>1, <1>2, <1>3, Zenon DEF GetCheck

Readable(c, addr) == ~IsInvalidCsrAccess(c, addr, FALSE)
Writable(c, addr) == ~IsInvalidCsrAccess(c, addr, TRUE)

LEMMA NoAssertion ==
  ASSUME NEW c \in CsrContextType, NEW addr \in CsrAddrs,
         Readable(c, addr)
  PROVE  GetCheck(c, VirtTransform(c, addr)) # "assert"
<1> DEFINE a == VirtTransform(c, addr)
<1>1. c.prv \in Prvs
  BY DEF CsrContextType
<1>2. a = VSTOPEI_ADDR \/ a \in VsiregAddrs => c.prv \in {"M", "S", "VS"}
  <2>1. CASE c.prv = "VS"
    BY <2>1
  <2>2. CASE c.prv # "VS"
    <3>1. a = addr
      BY <2>2 DEF VirtTransform
    <3>2. a = VSTOPEI_ADDR \/ a \in VsiregAddrs => CsrType(addr) = CSR_TYPE_HS_VS
      BY <3>1 DEF CsrType, CSR_TYPE_HS_VS, VsiregAddrs, CsrAddrs, VSTOPEI_ADDR
    <3> QED BY <3>2 DEF Readable, IsInvalidCsrAccess, CSR_TYPE_M, CSR_TYPE_S, CSR_TYPE_HS_VS, CSR_TYPE_U
  <2> QED BY <2>1, <2>2
<1>3. a = VSTOPEI_ADDR \/ a \in VsiregAddrs => VsAccessException(c) # "assert"
  BY <1>2 DEF VsAccessException
<1> HIDE DEF a
<1>4. GetCheck(c, a) # "assert"
  BY <1>3, CheckNoAssertion
<1> QED BY <1>4 DEF a

\* An indirect register is read from the cell it selects.
LEMMA IregCell ==
  ASSUME NEW c, NEW a, a \in SiregAddrs \cup VsiregAddrs
  PROVE  /\ GetCell(c, a).of \in {"s", "vs"}
         /\ GetCell(c, a).at = c.select + XiregOffset(a)
<1>1. /\ a \notin CycleAddrs /\ a \notin CyclehAddrs /\ a \notin StatusAddrs
      /\ a \notin FcsrAddrs
      /\ a \notin HviprioAddrs /\ a \notin MiregAddrs /\ a \notin HardwiredAddrs
  BY DEF SiregAddrs, VsiregAddrs, FcsrAddrs, FCSR_ADDR, FFLAGS_ADDR, FRM_ADDR, HviprioAddrs, MiregAddrs,
         HardwiredAddrs, HpmAddrs, DebugAddrs, CycleAddrs, CyclehAddrs, MCYCLE_ADDR,
         MCYCLEH_ADDR, StatusAddrs, MSTATUS_ADDR
<1> DEFINE icsr == c.select + XiregOffset(a)
<1>2. GetCell(c, a) \in {Cell("s", icsr, 0), Cell("vs", icsr, c.vgein)}
  <2>1. CASE a \in SiregAddrs
    <3>1. a \notin VsiregAddrs
      BY <2>1 DEF SiregAddrs, VsiregAddrs
    <3>2. GetCell(c, a) = Cell("s", icsr, 0)
      BY <1>1, <2>1, <3>1, Zenon DEF GetCell
    <3> QED BY <3>2
  <2>2. CASE a \in VsiregAddrs
    <3>1. a \notin SiregAddrs
      BY <2>2 DEF SiregAddrs, VsiregAddrs
    <3>2. GetCell(c, a) = Cell("vs", icsr, c.vgein)
      BY <1>1, <2>2, <3>1, Zenon DEF GetCell
    <3> QED BY <3>2
  <2> QED BY <2>1, <2>2
<1> QED BY <1>2 DEF Cell

\* A write goes to the cell the read came from, by the other switch.
LEMMA CellsAgree ==
  ASSUME NEW c, NEW a, a \notin {MISA_ADDR, HGEIP_ADDR}
  PROVE  SetCell(c, a) = GetCell(c, a)
<1>1. CASE a \in HardwiredAddrs
  <2>1. /\ a \notin CycleAddrs /\ a \notin CyclehAddrs /\ a \notin StatusAddrs
        /\ a \notin HviprioAddrs /\ a \notin FcsrAddrs /\ a \notin MiregAddrs
        /\ a \notin SiregAddrs /\ a \notin VsiregAddrs
    BY <1>1 DEF HardwiredAddrs, IgnoredAddrs, HpmAddrs, DebugAddrs, CycleAddrs, CyclehAddrs,
           MCYCLE_ADDR, MCYCLEH_ADDR, StatusAddrs,
           MSTATUS_ADDR, HviprioAddrs, FcsrAddrs, FCSR_ADDR, FFLAGS_ADDR, FRM_ADDR, MiregAddrs,
           SiregAddrs, VsiregAddrs, MISA_ADDR, HGEIP_ADDR
  <2>2. a \in IgnoredAddrs
    BY <1>1 DEF IgnoredAddrs
  <2>3. GetCell(c, a) = NoCell
    BY <1>1, <2>1, Zenon DEF GetCell
  <2>4. SetCell(c, a) = NoCell
    BY <2>1, <2>2, Zenon DEF SetCell
  <2> QED BY <2>3, <2>4, Zenon
<1>2. CASE a \in StatusAddrs
  <2>1. /\ a \notin CycleAddrs /\ a \notin CyclehAddrs /\ a \notin HardwiredAddrs
        /\ a \notin HviprioAddrs /\ a \notin FcsrAddrs /\ a \notin MiregAddrs
        /\ a \notin SiregAddrs /\ a \notin VsiregAddrs /\ a \notin IgnoredAddrs
    BY <1>2 DEF HardwiredAddrs, IgnoredAddrs, HpmAddrs, DebugAddrs, CycleAddrs, CyclehAddrs,
           MCYCLE_ADDR, MCYCLEH_ADDR, StatusAddrs,
           MSTATUS_ADDR, HviprioAddrs, FcsrAddrs, FCSR_ADDR, FFLAGS_ADDR, FRM_ADDR, MiregAddrs,
           SiregAddrs, VsiregAddrs, MISA_ADDR, HGEIP_ADDR
  <2>2. GetCell(c, a) = Cell("csr", MSTATUS_ADDR, 0)
    BY <1>2, <2>1, Zenon DEF GetCell
  <2>3. SetCell(c, a) = Cell("csr", MSTATUS_ADDR, 0)
    BY <1>2, <2>1, Zenon DEF SetCell
  <2> QED BY <2>2, <2>3, Zenon
<1>3. CASE a \in HviprioAddrs
  <2>1. /\ a \notin CycleAddrs /\ a \notin CyclehAddrs /\ a \notin HardwiredAddrs
        /\ a \notin StatusAddrs /\ a \notin FcsrAddrs /\ a \notin MiregAddrs
        /\ a \notin SiregAddrs /\ a \notin VsiregAddrs /\ a \notin IgnoredAddrs
    BY <1>3 DEF HardwiredAddrs, IgnoredAddrs, HpmAddrs, DebugAddrs, CycleAddrs, CyclehAddrs,
           MCYCLE_ADDR, MCYCLEH_ADDR, StatusAddrs,
           MSTATUS_ADDR, HviprioAddrs, FcsrAddrs, FCSR_ADDR, FFLAGS_ADDR, FRM_ADDR, MiregAddrs,
           SiregAddrs, VsiregAddrs, MISA_ADDR, HGEIP_ADDR
  <2>2. GetCell(c, a) = Cell("iprio", a, c.vgein)
    BY <1>3, <2>1, Zenon DEF GetCell
  <2>3. SetCell(c, a) = Cell("iprio", a, c.vgein)
    BY <1>3, <2>1, Zenon DEF SetCell
  <2> QED BY <2>2, <2>3, Zenon
<1>4. CASE a \in FcsrAddrs
  <2>1. /\ a \notin CycleAddrs /\ a \notin CyclehAddrs /\ a \notin HardwiredAddrs
        /\ a \notin StatusAddrs /\ a \notin HviprioAddrs /\ a \notin MiregAddrs
        /\ a \notin SiregAddrs /\ a \notin VsiregAddrs /\ a \notin IgnoredAddrs
    BY <1>4 DEF HardwiredAddrs, IgnoredAddrs, HpmAddrs, DebugAddrs, CycleAddrs, CyclehAddrs,
           MCYCLE_ADDR, MCYCLEH_ADDR, StatusAddrs,
           MSTATUS_ADDR, HviprioAddrs, FcsrAddrs, FCSR_ADDR, FFLAGS_ADDR, FRM_ADDR, MiregAddrs,
           SiregAddrs, VsiregAddrs, MISA_ADDR, HGEIP_ADDR
  <2>2. GetCell(c, a) = Cell("csr", FCSR_ADDR, 0)
    BY <1>4, <2>1, Zenon DEF GetCell
  <2>3. SetCell(c, a) = Cell("csr", FCSR_ADDR, 0)
    BY <1>4, <2>1, Zenon DEF SetCell
  <2> QED BY <2>2, <2>3, Zenon
<1>5. CASE a \in MiregAddrs
  <2>1. /\ a \notin CycleAddrs /\ a \notin CyclehAddrs /\ a \notin HardwiredAddrs
        /\ a \notin StatusAddrs /\ a \notin HviprioAddrs /\ a \notin FcsrAddrs
        /\ a \notin SiregAddrs /\ a \notin VsiregAddrs /\ a \notin IgnoredAddrs
    BY <1>5 DEF HardwiredAddrs, IgnoredAddrs, HpmAddrs, DebugAddrs, CycleAddrs, CyclehAddrs,
           MCYCLE_ADDR, MCYCLEH_ADDR, StatusAddrs,
           MSTATUS_ADDR, HviprioAddrs, FcsrAddrs, FCSR_ADDR, FFLAGS_ADDR, FRM_ADDR, MiregAddrs,
           SiregAddrs, VsiregAddrs, MISA_ADDR, HGEIP_ADDR
  <2>2. GetCell(c, a) = Cell("m", c.select + XiregOffset(a), 0)
    BY <1>5, <2>1, Zenon DEF GetCell
  <2>3. SetCell(c, a) = Cell("m", c.select + XiregOffset(a), 0)
    BY <1>5, <2>1, Zenon DEF SetCell
  <2> QED BY <2>2, <2>3, Zenon
<1>6. CASE a \in SiregAddrs
  <2>1. /\ a \notin CycleAddrs /\ a \notin CyclehAddrs /\ a \notin HardwiredAddrs
        /\ a \notin StatusAddrs /\ a \notin HviprioAddrs /\ a \notin FcsrAddrs
        /\ a \notin MiregAddrs /\ a \notin VsiregAddrs /\ a \notin IgnoredAddrs
    BY <1>6 DEF HardwiredAddrs, IgnoredAddrs, HpmAddrs, DebugAddrs, CycleAddrs, CyclehAddrs,
           MCYCLE_ADDR, MCYCLEH_ADDR, StatusAddrs,
           MSTATUS_ADDR, HviprioAddrs, FcsrAddrs, FCSR_ADDR, FFLAGS_ADDR, FRM_ADDR, MiregAddrs,
           SiregAddrs, VsiregAddrs, MISA_ADDR, HGEIP_ADDR
  <2>2. GetCell(c, a) = Cell("s", c.select + XiregOffset(a), 0)
    BY <1>6, <2>1, Zenon DEF GetCell
  <2>3. SetCell(c, a) = Cell("s", c.select + XiregOffset(a), 0)
    BY <1>6, <2>1, Zenon DEF SetCell
  <2> QED BY <2>2, <2>3, Zenon
<1>7. CASE a \in VsiregAddrs
  <2>1. /\ a \notin CycleAddrs /\ a \notin CyclehAddrs /\ a \notin HardwiredAddrs
        /\ a \notin StatusAddrs /\ a \notin HviprioAddrs /\ a \notin FcsrAddrs
        /\ a \notin MiregAddrs /\ a \notin SiregAddrs /\ a \notin IgnoredAddrs
    BY <1>7 DEF HardwiredAddrs, IgnoredAddrs, HpmAddrs, DebugAddrs, CycleAddrs, CyclehAddrs,
           MCYCLE_ADDR, MCYCLEH_ADDR, StatusAddrs,
           MSTATUS_ADDR, HviprioAddrs, FcsrAddrs, FCSR_ADDR, FFLAGS_ADDR, FRM_ADDR, MiregAddrs,
           SiregAddrs, VsiregAddrs, MISA_ADDR, HGEIP_ADDR
  <2>2. GetCell(c, a) = Cell("vs", c.select + XiregOffset(a), c.vgein)
    BY <1>7, <2>1, Zenon DEF GetCell
  <2>3. SetCell(c, a) = Cell("vs", c.select + XiregOffset(a), c.vgein)
    BY <1>7, <2>1, Zenon DEF SetCell
  <2> QED BY <2>2, <2>3, Zenon
<1>8. CASE a \in CycleAddrs
  <2>1. /\ a \notin CyclehAddrs /\ a \notin HardwiredAddrs /\ a \notin StatusAddrs
        /\ a \notin HviprioAddrs /\ a \notin FcsrAddrs /\ a \notin MiregAddrs
        /\ a \notin SiregAddrs /\ a \notin VsiregAddrs /\ a \notin IgnoredAddrs
    BY <1>8 DEF HardwiredAddrs, IgnoredAddrs, HpmAddrs, DebugAddrs, CycleAddrs, CyclehAddrs,
           MCYCLE_ADDR, MCYCLEH_ADDR, StatusAddrs,
           MSTATUS_ADDR, HviprioAddrs, FcsrAddrs, FCSR_ADDR, FFLAGS_ADDR, FRM_ADDR, MiregAddrs,
           SiregAddrs, VsiregAddrs, MISA_ADDR, HGEIP_ADDR
  <2>2. GetCell(c, a) = Cell("csr", MCYCLE_ADDR, 0)
    BY <1>8, <2>1, Zenon DEF GetCell
  <2>3. SetCell(c, a) = Cell("csr", RegisterMapping(a), 0)
    BY <2>1, Zenon DEF SetCell
  <2>4. RegisterMapping(a) = MCYCLE_ADDR
    BY <1>8 DEF RegisterMapping, CycleAddrs, CyclehAddrs, MCYCLE_ADDR, MCYCLEH_ADDR
  <2> QED BY <2>2, <2>3, <2>4, Zenon
<1>9. CASE a \in CyclehAddrs
  <2>1. /\ a \notin CycleAddrs /\ a \notin HardwiredAddrs /\ a \notin StatusAddrs
        /\ a \notin HviprioAddrs /\ a \notin FcsrAddrs /\ a \notin MiregAddrs
        /\ a \notin SiregAddrs /\ a \notin VsiregAddrs /\ a \notin IgnoredAddrs
    BY <1>9 DEF HardwiredAddrs, IgnoredAddrs, HpmAddrs, DebugAddrs, CycleAddrs, CyclehAddrs,
           MCYCLE_ADDR, MCYCLEH_ADDR, StatusAddrs,
           MSTATUS_ADDR, HviprioAddrs, FcsrAddrs, FCSR_ADDR, FFLAGS_ADDR, FRM_ADDR, MiregAddrs,
           SiregAddrs, VsiregAddrs, MISA_ADDR, HGEIP_ADDR
  <2>2. GetCell(c, a) = Cell("csr", MCYCLEH_ADDR, 0)
    BY <1>9, <2>1, Zenon DEF GetCell
  <2>3. SetCell(c, a) = Cell("csr", RegisterMapping(a), 0)
    BY <2>1, Zenon DEF SetCell
  <2>4. RegisterMapping(a) = MCYCLEH_ADDR
    BY <1>9 DEF RegisterMapping, CycleAddrs, CyclehAddrs, MCYCLE_ADDR, MCYCLEH_ADDR
  <2> QED BY <2>2, <2>3, <2>4, Zenon
<1>10. CASE /\ a \notin CycleAddrs /\ a \notin CyclehAddrs /\ a \notin HardwiredAddrs
           /\ a \notin StatusAddrs /\ a \notin HviprioAddrs /\ a \notin FcsrAddrs
           /\ a \notin MiregAddrs /\ a \notin SiregAddrs /\ a \notin VsiregAddrs
  <2>1. a \notin IgnoredAddrs
    BY <1>10 DEF IgnoredAddrs
  <2>2. GetCell(c, a) = Cell("csr", RegisterMapping(a), 0)
    BY <1>10, Zenon DEF GetCell
  <2>3. SetCell(c, a) = Cell("csr", RegisterMapping(a), 0)
    BY <1>10, <2>1, Zenon DEF SetCell
  <2> QED BY <2>2, <2>3, Zenon
<1> QED BY <1>1, <1>2, <1>3, <1>4, <1>5, <1>6, <1>7, <1>8, <1>9, <1>10

\* In VS mode an address moves to the virtual supervisor's, of the same kind.
LEMMA TransformKeeps ==
  ASSUME NEW c, NEW addr \in CsrAddrs, ~CsrReadOnly(addr)
  PROVE  /\ VirtTransform(c, addr) \notin TimeAddrs /\ VirtTransform(c, addr) # HGEIP_ADDR
         /\ VirtTransform(c, addr) = MISA_ADDR => addr = MISA_ADDR
BY DEF VirtTransform, CsrReadOnly, CsrType, CSR_TYPE_S, CsrAddrs, MISA_ADDR, HGEIP_ADDR, TimeAddrs

LEMMA CounterCheckReads ==
  ASSUME NEW c, NEW addr \in CsrAddrs
  PROVE  /\ CounterCheck(c, addr) \in {"", "illegal"}
         /\ ~CsrReadOnly(addr) => CounterCheck(c, addr) = ""
<1>1. ~CsrReadOnly(addr) => addr \notin (\hC00 .. \hC1F) \cup (\hC80 .. \hC9F)
  BY DEF CsrReadOnly, CsrAddrs
<1>2. CounterCheck(c, addr) \in {"", "illegal"}
  BY DEF CounterCheck
<1>3. ~CsrReadOnly(addr) => CounterCheck(c, addr) = ""
  BY <1>1 DEF CounterCheck
<1> QED BY <1>2, <1>3, Zenon

\* What a read and a write of an address come to.
LEMMA ReadOutcome ==
  ASSUME NEW c, NEW addr
  PROVE  LET a == VirtTransform(c, addr)
             r == ReadCsr(c, addr)
         IN  /\ ~Readable(c, addr) => r.trap = "illegal" /\ r.cell = NoCell
             /\ Readable(c, addr) /\ CounterCheck(c, addr) # "" => r.trap = CounterCheck(c, addr)
             /\ Readable(c, addr) /\ CounterCheck(c, addr) = "" => r.trap = GetCheck(c, a)
             /\ Readable(c, addr) =>
                  r.cell = IF r.trap = "" THEN GetCell(c, a) ELSE NoCell
<1>1. ~Readable(c, addr) => ReadCsr(c, addr).trap = "illegal" /\ ReadCsr(c, addr).cell = NoCell
  BY DEF ReadCsr, Readable
<1>2. Readable(c, addr) => ReadCsr(c, addr) = GetCsrValue(c, addr)
  BY DEF ReadCsr, Readable
<1> DEFINE g == GetCsrValue(c, addr)
<1>3. /\ CounterCheck(c, addr) # "" => g.trap = CounterCheck(c, addr)
      /\ CounterCheck(c, addr) = "" => g.trap = GetCheck(c, VirtTransform(c, addr))
      /\ g.cell = IF g.trap = "" THEN GetCell(c, VirtTransform(c, addr)) ELSE NoCell
  BY Zenon DEF GetCsrValue
<1> HIDE DEF g
<1> QED BY <1>1, <1>2, <1>3, Zenon DEF g

LEMMA WriteOutcome ==
  ASSUME NEW c, NEW addr
  PROVE  LET a == VirtTransform(c, addr)
             w == WriteCsr(c, addr)
         IN  /\ Writable(c, addr) <=> Readable(c, addr) /\ ~CsrReadOnly(addr)
             /\ ~Writable(c, addr) => w.trap = "illegal" /\ w.cell = NoCell
             /\ Writable(c, addr) => /\ w.trap = SetCheck(c, a)
                                     /\ w.cell = IF w.trap = "" THEN SetCell(c, a) ELSE NoCell
<1>1. ~Writable(c, addr) => WriteCsr(c, addr).trap = "illegal" /\ WriteCsr(c, addr).cell = NoCell
  BY DEF WriteCsr, Writable
<1>2. Writable(c, addr) => WriteCsr(c, addr) = SetCsrValue(c, addr)
  BY DEF WriteCsr, Writable
<1> DEFINE s == SetCsrValue(c, addr)
<1>3. /\ s.trap = SetCheck(c, VirtTransform(c, addr))
      /\ s.cell = IF s.trap = "" THEN SetCell(c, VirtTransform(c, addr)) ELSE NoCell
  BY Zenon DEF SetCsrValue
<1> HIDE DEF s
<1>4. Writable(c, addr) <=> Readable(c, addr) /\ ~CsrReadOnly(addr)
  BY DEF Writable, Readable, IsInvalidCsrAccess
<1> QED BY <1>1, <1>2, <1>3, <1>4, Zenon DEF s

\* Read and write of any address in any context.
LEMMA CsrAgreesAlways ==
  ASSUME NEW c \in CsrContextType, NEW addr \in CsrAddrs
  PROVE  CsrAgrees(c, addr)
<1> DEFINE a == VirtTransform(c, addr)
           r == ReadCsr(c, addr)
           w == WriteCsr(c, addr)
<1>1. CounterCheck(c, addr) \in {"", "illegal"} /\ (~CsrReadOnly(addr) => CounterCheck(c, addr) = "")
  BY CounterCheckReads
<1>2. CASE ~Readable(c, addr)
  <2>1. r.trap = "illegal" /\ w.trap = "illegal"
    BY <1>2, ReadOutcome, WriteOutcome, Zenon
  <2>2. r.cell = NoCell /\ w.cell = NoCell
    BY <1>2, ReadOutcome, WriteOutcome, Zenon
  <2>3. r.trap # "assert" /\ w.trap # "assert"
    BY <2>1
  <2> QED BY <2>1, <2>2, <2>3, Zenon DEF CsrAgrees
<1>3. CASE Readable(c, addr) /\ CsrReadOnly(addr)
  <2>1. GetCheck(c, a) # "assert"
    BY <1>3, NoAssertion, Zenon
  <2>2. r.trap # "assert"
    BY <1>1, <1>3, <2>1, ReadOutcome, Zenon
  <2>3. w.trap = "illegal"
    BY <1>3, WriteOutcome, Zenon
  <2> QED BY <1>3, <2>2, <2>3, Zenon DEF CsrAgrees
<1>4. CASE Readable(c, addr) /\ ~CsrReadOnly(addr)
  <2>1. GetCheck(c, a) # "assert"
    BY <1>4, NoAssertion, Zenon
  <2>2. r.trap = GetCheck(c, a) /\ r.cell = IF r.trap = "" THEN GetCell(c, a) ELSE NoCell
    BY <1>1, <1>4, ReadOutcome, Zenon
  <2>3. w.trap = SetCheck(c, a) /\ w.cell = IF w.trap = "" THEN SetCell(c, a) ELSE NoCell
    BY <1>4, WriteOutcome, Zenon
  <2>4. a \notin TimeAddrs /\ a # HGEIP_ADDR /\ (a = MISA_ADDR => addr = MISA_ADDR)
    <3>1. ~CsrReadOnly(addr)
      BY <1>4
    <3> QED BY <3>1, TransformKeeps
  <2>5. CASE SetCheck(c, a) = GetCheck(c, a)
    <3>1. addr = MISA_ADDR \/ SetCell(c, a) = GetCell(c, a)
      BY <2>4, CellsAgree
    <3>2. w.trap = r.trap /\ (w.cell = r.cell \/ addr = MISA_ADDR)
      BY <2>2, <2>3, <2>5, <3>1, Zenon
    <3>3. r.trap # "assert" /\ w.trap # "assert"
      BY <2>1, <2>2, <3>2, Zenon
    <3> QED BY <1>4, <3>2, <3>3, Zenon DEF CsrAgrees
  <2>6. CASE SetCheck(c, a) # GetCheck(c, a)
    <3>1. /\ a \in SiregAddrs \cup VsiregAddrs /\ GetCheck(c, a) = ""
          /\ Locked(c, c.select + XiregOffset(a)) /\ SetCheck(c, a) = "illegal"
      BY <2>4, <2>6, SetCheckIsGetCheck, Zenon
    <3>2. /\ GetCell(c, a).of \in {"s", "vs"}
          /\ GetCell(c, a).at = c.select + XiregOffset(a)
      BY <3>1, IregCell
    <3>3. r.trap = "" /\ r.cell.of \in {"s", "vs"} /\ Locked(c, r.cell.at) /\ w.trap = "illegal"
      BY <2>2, <2>3, <3>1, <3>2, Zenon
    <3>4. r.trap # "assert" /\ w.trap # "assert"
      BY <3>3
    <3> QED BY <1>4, <3>3, <3>4, Zenon DEF CsrAgrees
  <2> QED BY <2>5, <2>6
<1> QED BY <1>2, <1>3, <1>4

\* The checks of reads and writes agree at every address in every context
\* (get_csr_value, set_csr_value).
THEOREM UnitsCsrChecksAgree == UnitsSpec => []CsrChecksAgree
<1> DEFINE Inv == part = "csr" => hart \in CsrContextType /\ row \in 0 .. 3
<1>1. UnitsInit => Inv
  BY CsrAssumption DEF UnitsInit
<1>2. Inv /\ [UnitsNext]_unitVars => Inv'
  BY DEF UnitsNext, MemoryStep, FpStep, FpSoftware, unitVars
<1>3. Inv => CsrChecksAgree
  <2> SUFFICES ASSUME Inv, part = "csr", NEW addr \in 1024 * row .. 1024 * row + 1023
               PROVE  CsrAgrees(hart, addr)
    BY DEF CsrChecksAgree
  <2>1. hart \in CsrContextType /\ addr \in CsrAddrs
    BY DEF CsrAddrs
  <2> QED BY <2>1, CsrAgreesAlways
<1> QED BY <1>1, <1>2, <1>3, PTL DEF UnitsSpec

-----------------------------------------------------------------------------
(* SPMP                                                                    *)

LEMMA LeastExists ==
  ASSUME NEW X, X \subseteq Nat, X # {}
  PROVE  \E x \in X : \A y \in X : x <= y
<1>1. PICK x \in X : \A y \in X : ~ (<<y, x>> \in OpToRel(<, Nat))
  BY NatLessThanWellFounded, WFMin
<1>2. ASSUME NEW y \in X PROVE x <= y
  <2>1. y \in Nat /\ x \in Nat
    OBVIOUS
  <2>2. ~ (y < x)
    BY <1>1, <2>1 DEF OpToRel
  <2> QED BY <2>1, <2>2
<1> QED BY <1>2

\* Every address has a zero below its bit WORD_BITS, so NAPOT names a size.
LEMMA LeastZeroExists ==
  ASSUME NEW v \in 0 .. 2^WORD_BITS - 1
  PROVE  LeastZero(v) \in 0 .. WORD_BITS
<1> DEFINE Zero(j) == (v \div 2^j) % 2 = 0
           Zeros == {j \in 0 .. WORD_BITS : Zero(j)}
<1>1. WORD_BITS \in Nat /\ \A j \in 0 .. WORD_BITS : 2^j \in Int /\ 2^j > 0
  BY SpmpAssumption, SpmpPowers
<1>2. WORD_BITS \in Zeros
  <2>1. 2^WORD_BITS \in Int /\ 2^WORD_BITS > 0
    BY <1>1
  <2>2. v \div 2^WORD_BITS = 0
    BY <2>1
  <2> QED BY <1>1, <2>2
<1>3. PICK j \in Zeros : \A k \in Zeros : j <= k
  <2>1. Zeros \subseteq Nat /\ Zeros # {}
    BY <1>1, <1>2
  <2> HIDE DEF Zeros
  <2> QED BY <2>1, LeastExists
<1>4. ASSUME NEW k \in 0 .. j - 1 PROVE (v \div 2^k) % 2 = 1
  <2>1. k \in 0 .. WORD_BITS /\ ~(j <= k)
    BY <1>1
  <2>2. ~Zero(k)
    BY <1>3, <2>1
  <2>3. v \div 2^k \in Int
    BY <1>1, <2>1
  <2> QED BY <2>2, <2>3
<1>5. j \in 0 .. WORD_BITS /\ Zero(j)
  OBVIOUS
<1> QED BY <1>4, <1>5 DEF LeastZero

LEMMA RegionBounds ==
  ASSUME NEW p, p.entries \in Seq(SpmpEntryType),
         NEW i \in DOMAIN p.entries, p.entries[i].a # "OFF"
  PROVE  \E lo, hi \in Int : Region(p, i) = <<lo, hi>>
<1> DEFINE e == p.entries[i]
<1>1. e \in SpmpEntryType /\ i \in Nat
  OBVIOUS
<1>2. e.addr \in 0 .. 2^WORD_BITS - 1 /\ e.a \in {"TOR", "NA4", "NAPOT"}
  BY <1>1 DEF SpmpEntryType
<1>3. 2^WORD_BITS \in Int /\ 2^WORD_BITS > 0
  BY SpmpAssumption, SpmpPowers
<1>4. CASE e.a = "TOR"
  <2>1. i # 1 => p.entries[i - 1].addr \in Int
    <3> SUFFICES ASSUME i # 1 PROVE p.entries[i - 1].addr \in Int
      OBVIOUS
    <3>1. p.entries[i - 1] \in SpmpEntryType
      OBVIOUS
    <3> QED BY <3>1, <1>3 DEF SpmpEntryType
  <2> DEFINE lo == IF i = 1 THEN 0 ELSE p.entries[i - 1].addr % 2^WORD_BITS
             hi == e.addr % 2^WORD_BITS
  <2>2. lo \in Int /\ hi \in Int
    BY <2>1, <1>2, <1>3
  <2>3. Region(p, i) = <<lo, hi>>
    BY <1>4 DEF Region
  <2> QED BY <2>2, <2>3
<1>5. CASE e.a = "NAPOT"
  <2> DEFINE size == 2^(LeastZero(e.addr) + 1)
             lo == e.addr - (e.addr % size)
             hi == lo + size
  <2>1. LeastZero(e.addr) + 1 \in 0 .. WORD_BITS + 1
    BY <1>2, LeastZeroExists, SpmpAssumption
  <2>2. size \in Int /\ size > 0
    BY <2>1, SpmpPowers
  <2>3. Region(p, i) = <<lo, hi>>
    BY <1>5 DEF Region
  <2> HIDE DEF size
  <2>4. lo \in Int /\ hi \in Int
    BY <2>2, <1>2, <1>3
  <2> QED BY <2>3, <2>4
<1>6. CASE e.a = "NA4"
  <2>1. Region(p, i) = <<e.addr % 2^WORD_BITS, (e.addr % 2^WORD_BITS) + 1>>
    BY <1>6 DEF Region
  <2> QED BY <2>1, <1>2, <1>3
<1> QED BY <1>2, <1>4, <1>5, <1>6

\* An access matches a region when an end of it lies in the region.
LEMMA MatchingEnds ==
  ASSUME NEW first \in Int, NEW last \in Int, NEW lo \in Int, NEW hi \in Int
  PROVE  /\ first >= lo /\ last < hi => Matching(first, last, lo, hi) = "yes"
         /\ Matching(first, last, lo, hi) # "no" =>
              \/ first >= lo /\ last < hi
              \/ \E e \in {first, last} : e >= lo /\ e < hi
BY DEF Matching

\* The entry found is a live one that matches.
LEMMA FindEntryLive ==
  ASSUME NEW p, p.entries \in Seq(SpmpEntryType), NEW first, NEW last,
         FindEntry(p, first, last) # <<>>
  PROVE  FindEntry(p, first, last)[2] \in Live(p)
<1> DEFINE hit == {i \in Live(p) : Matching(first, last, Region(p, i)[1], Region(p, i)[2]) # "no"}
           i == CHOOSE i \in hit : \A j \in hit : i <= j
<1>1. hit # {} /\ FindEntry(p, first, last) = <<Matching(first, last, Region(p, i)[1], Region(p, i)[2]), i>>
  BY DEF FindEntry
<1>2. hit \subseteq Nat
  BY DEF Live
<1>3. i \in hit
  <2> HIDE DEF hit
  <2>1. \E x \in hit : \A y \in hit : x <= y
    BY <1>1, <1>2, LeastExists
  <2> QED BY <2>1
<1> HIDE DEF i
<1> QED BY <1>1, <1>3

\* Among disjoint regions the one that holds an access decides.
LEMMA DisjointDecides ==
  ASSUME NEW p, p.entries \in Seq(SpmpEntryType), Disjoint(p),
         NEW first \in Int, NEW last \in Int, first <= last,
         NEW i \in Live(p), first >= Region(p, i)[1], last < Region(p, i)[2]
  PROVE  FindEntry(p, first, last) = <<"yes", i>>
<1> DEFINE hit == {j \in Live(p) : Matching(first, last, Region(p, j)[1], Region(p, j)[2]) # "no"}
<1>1. ASSUME NEW j \in Live(p)
      PROVE  Region(p, j)[1] \in Int /\ Region(p, j)[2] \in Int
  <2>1. j \in DOMAIN p.entries /\ p.entries[j].a # "OFF"
    BY DEF Live
  <2>2. PICK lo, hi \in Int : Region(p, j) = <<lo, hi>>
    BY <2>1, RegionBounds
  <2> QED BY <2>2
<1>2. Matching(first, last, Region(p, i)[1], Region(p, i)[2]) = "yes"
  BY <1>1, MatchingEnds
<1>3. ASSUME NEW j \in hit PROVE j = i
  <2>1. SUFFICES ASSUME j # i PROVE FALSE
    OBVIOUS
  <2>2. Region(p, j)[2] <= Region(p, i)[1] \/ Region(p, i)[2] <= Region(p, j)[1]
    BY <2>1 DEF Disjoint
  <2>3. \/ first >= Region(p, j)[1] /\ last < Region(p, j)[2]
        \/ \E e \in {first, last} : e >= Region(p, j)[1] /\ e < Region(p, j)[2]
    BY <1>1, MatchingEnds
  <2> QED BY <1>1, <2>2, <2>3
<1>4. i \in hit
  BY <1>2
<1>5. hit = {i}
  BY <1>3, <1>4
<1> DEFINE k == CHOOSE k \in hit : \A j \in hit : k <= j
<1>6. FindEntry(p, first, last) =
        <<Matching(first, last, Region(p, k)[1], Region(p, k)[2]), k>>
  BY <1>4 DEF FindEntry
<1>7. k = i
  <2>1. i \in Nat
    BY DEF Live
  <2> HIDE DEF hit
  <2> QED BY <1>5, <2>1
<1> HIDE DEF k
<1> QED BY <1>2, <1>6, <1>7

\* What decides about an access is the entries, SUM and the mode.
LEMMA SameVerdict ==
  ASSUME NEW p, NEW q, q.entries = p.entries
  PROVE  /\ Live(q) = Live(p)
         /\ \A i : Region(q, i) = Region(p, i)
         /\ Disjoint(q) = Disjoint(p)
         /\ \A first, last : FindEntry(q, first, last) = FindEntry(p, first, last)
         /\ q.prv = p.prv /\ q.sum = p.sum =>
              \A mode, first, last, type :
                 Verdict(q, mode, first, last, type) = Verdict(p, mode, first, last, type)
<1>1. \A i : Region(q, i) = Region(p, i)
  BY Zenon DEF Region
<1>2. Live(q) = Live(p)
  <2>1. ASSUME NEW i PROVE i \in Live(q) <=> i \in Live(p)
    BY <1>1, Zenon DEF Live
  <2> QED BY <2>1
<1>3. Disjoint(q) = Disjoint(p)
  BY <1>1, <1>2, Zenon DEF Disjoint
<1>4. ASSUME NEW first, NEW last PROVE FindEntry(q, first, last) = FindEntry(p, first, last)
  <2> DEFINE hit(c) == {i \in Live(c) : Matching(first, last, Region(c, i)[1], Region(c, i)[2]) # "no"}
             min(X) == CHOOSE i \in X : \A j \in X : i <= j
             entry(c, X) == IF X = {} THEN <<>>
                            ELSE <<Matching(first, last, Region(c, min(X))[1], Region(c, min(X))[2]), min(X)>>
  <2>1. ASSUME NEW i PROVE i \in hit(q) <=> i \in hit(p)
    BY <1>1, <1>2, Zenon
  <2>2. hit(q) = hit(p)
    <3> HIDE DEF hit
    <3> QED BY <2>1
  <2>3. FindEntry(q, first, last) = entry(q, hit(q)) /\ FindEntry(p, first, last) = entry(p, hit(p))
    BY DEF FindEntry
  <2> HIDE DEF hit, min
  <2>4. entry(q, hit(q)) = entry(p, hit(p))
    BY <1>1, <2>2, Zenon
  <2> QED BY <2>3, <2>4
<1>5. ASSUME q.prv = p.prv, q.sum = p.sum, NEW mode, NEW first, NEW last, NEW type
      PROVE  Verdict(q, mode, first, last, type) = Verdict(p, mode, first, last, type)
  <2>1. ASSUME NEW perm PROVE SpmpAllowed(q, perm, type) = SpmpAllowed(p, perm, type)
    BY <1>5 DEF SpmpAllowed
  <2> QED BY <1>4, <2>1, Zenon DEF Verdict
<1> QED BY <1>1, <1>2, <1>3, <1>4, <1>5

\* A table of modes and kinds of access.
Grid(f) == f = [m \in SpmpModes |-> [t \in AccessTypes |-> f[m][t]]]

Updated(f, mode, type, v) == [f EXCEPT ![mode][type] = v]

LEMMA GridUpdate ==
  ASSUME NEW f, Grid(f), NEW mode \in SpmpModes, NEW type \in AccessTypes, NEW v,
         NEW g, g = Updated(f, mode, type, v)
  PROVE  /\ Grid(g)
         /\ \A m \in SpmpModes, t \in AccessTypes :
              g[m][t] = IF m = mode /\ t = type THEN v ELSE f[m][t]
<1> DEFINE h == [f[mode] EXCEPT ![type] = v]
<1>1. DOMAIN f = SpmpModes /\ f = [m \in DOMAIN f |-> f[m]]
  BY DEF Grid
<1>2. \A m \in SpmpModes : f[m] = [t \in AccessTypes |-> f[m][t]]
  BY DEF Grid
<1>3. h = [t \in AccessTypes |-> IF t = type THEN v ELSE f[mode][t]]
  BY <1>2
<1>4. g = [m \in SpmpModes |-> IF m = mode THEN h ELSE f[m]]
  BY <1>1 DEF Updated
<1> HIDE DEF h
<1>5. ASSUME NEW m \in SpmpModes
      PROVE  /\ g[m] = [t \in AccessTypes |-> g[m][t]]
             /\ \A t \in AccessTypes : g[m][t] = IF m = mode /\ t = type THEN v ELSE f[m][t]
  <2>1. CASE m = mode
    <3>1. g[m] = h
      BY <1>4, <2>1
    <3>2. /\ h = [t \in AccessTypes |-> h[t]]
          /\ \A t \in AccessTypes : h[t] = IF t = type THEN v ELSE f[mode][t]
      BY <1>3
    <3> QED BY <2>1, <3>1, <3>2
  <2>2. CASE m # mode
    <3>1. g[m] = f[m]
      BY <1>4, <2>2
    <3> QED BY <1>2, <2>2, <3>1
  <2> QED BY <2>1, <2>2
<1>6. DOMAIN g = SpmpModes /\ g = [m \in SpmpModes |-> g[m]]
  BY <1>4
<1>7. Grid(g)
  BY <1>5, <1>6 DEF Grid
<1> QED BY <1>5, <1>7

LEMMA GridCells ==
  ASSUME NEW f, Grid(f), NEW mode \in SpmpModes, NEW type \in AccessTypes, NEW v,
         NEW m \in SpmpModes, NEW t \in AccessTypes
  PROVE  Updated(f, mode, type, v)[m][t] = IF m = mode /\ t = type THEN v ELSE f[m][t]
BY GridUpdate

SpmpTyped(p) ==
  /\ p = [entries |-> p.entries, sum |-> p.sum, prv |-> p.prv, mprv |-> p.mprv, mpp |-> p.mpp,
          cache |-> p.cache, granted |-> p.granted, last |-> p.last, changes |-> p.changes,
          under |-> p.under]
  /\ p.entries \in Seq(SpmpEntryType)
  /\ p.prv \in SpmpModes /\ p.mpp \in SpmpModes
  /\ Grid(p.cache) /\ Grid(p.under)

LEMMA TypedSpmp ==
  ASSUME NEW q, NEW entries \in Seq(SpmpEntryType), NEW sum, NEW prv \in SpmpModes, NEW mprv,
         NEW mpp \in SpmpModes, NEW cache, Grid(cache), NEW granted, NEW last, NEW changes,
         NEW under, Grid(under),
         q = [entries |-> entries, sum |-> sum, prv |-> prv, mprv |-> mprv, mpp |-> mpp,
              cache |-> cache, granted |-> granted, last |-> last, changes |-> changes,
              under |-> under]
  PROVE  SpmpTyped(q)
<1>1. /\ q.entries = entries /\ q.sum = sum /\ q.prv = prv /\ q.mprv = mprv /\ q.mpp = mpp
      /\ q.cache = cache /\ q.granted = granted /\ q.last = last /\ q.changes = changes
      /\ q.under = under
  OBVIOUS
<1> QED BY <1>1 DEF SpmpTyped

\* A region that is cached is a live one that allows the kind of access to a hart
\* in the mode and with the SUM it was granted under.
Cacheable(p, u, type, region) ==
  \E i \in Live(p) : /\ region = Region(p, i)
                     /\ SpmpAllowed([prv |-> u[1], sum |-> u[2]], p.entries[i].perm, type)

CacheSound(p) ==
  \A mode \in SpmpModes, type \in AccessTypes :
    p.cache[mode][type] # NoRegion => Cacheable(p, p.under[mode][type], type, p.cache[mode][type])

SpmpInv(p) ==
  /\ SpmpTyped(p)
  /\ CacheSound(p)
  /\ Disjoint(p) => CacheTransparent(p)

\* Whether an entry allows an access depends on the mode of the hart and SUM.
LEMMA AllowedUnder ==
  ASSUME NEW p, NEW perm, NEW type
  PROVE  SpmpAllowed(p, perm, type) = SpmpAllowed([prv |-> p.prv, sum |-> p.sum], perm, type)
<1>1. ASSUME NEW q, q = [prv |-> p.prv, sum |-> p.sum]
      PROVE  SpmpAllowed(p, perm, type) = SpmpAllowed(q, perm, type)
  <2>1. q.prv = p.prv /\ q.sum = p.sum
    BY <1>1
  <2> QED BY <2>1 DEF SpmpAllowed
<1> QED BY <1>1

\* What may be cached depends on the entries.
LEMMA SameCacheable ==
  ASSUME NEW p, NEW q, q.entries = p.entries,
         NEW u, NEW type, NEW region, Cacheable(p, u, type, region)
  PROVE  Cacheable(q, u, type, region)
BY SameVerdict DEF Cacheable

\* A hit in the cache says what the entries say.
LEMMA HitIsVerdict ==
  ASSUME NEW p, SpmpTyped(p), CacheSound(p), Disjoint(p), NEW mode \in SpmpModes,
         NEW type \in AccessTypes, NEW first \in Int, NEW last \in Int, first <= last,
         CacheHit(p, mode, first, last, type), p.under[mode][type] = <<p.prv, p.sum>>
  PROVE  Verdict(p, mode, first, last, type)
<1> DEFINE r == p.cache[mode][type]
<1>1. r # NoRegion /\ first >= r[1] /\ last < r[2]
  BY DEF CacheHit
<1>2. PICK i \in Live(p) :
        /\ r = Region(p, i)
        /\ SpmpAllowed([prv |-> p.prv, sum |-> p.sum], p.entries[i].perm, type)
  <2>1. Cacheable(p, <<p.prv, p.sum>>, type, r)
    BY <1>1 DEF CacheSound
  <2> QED BY <2>1 DEF Cacheable
<1>3. FindEntry(p, first, last) = <<"yes", i>>
  BY <1>1, <1>2, DisjointDecides DEF SpmpTyped
<1>4. SpmpAllowed(p, p.entries[i].perm, type)
  BY <1>2, AllowedUnder
<1>5. <<"yes", i>> # <<>> /\ <<"yes", i>>[1] # "partial" /\ <<"yes", i>>[2] = i
  OBVIOUS
<1> QED BY <1>3, <1>4, <1>5, Zenon DEF Verdict

\* A granted access is cached with the region that granted it.
LEMMA GrantIsCacheable ==
  ASSUME NEW p, SpmpTyped(p), NEW mode, NEW type, NEW first, NEW last,
         Verdict(p, mode, first, last, type), FindEntry(p, first, last) # <<>>
  PROVE  Cacheable(p, <<p.prv, p.sum>>, type, Region(p, FindEntry(p, first, last)[2]))
<1> DEFINE e == FindEntry(p, first, last)
<1>1. e[2] \in Live(p)
  BY FindEntryLive DEF SpmpTyped
<1>2. SpmpAllowed(p, p.entries[e[2]].perm, type)
  <2> HIDE DEF e
  <2> QED BY Zenon DEF Verdict, e
<1>3. SpmpAllowed([prv |-> p.prv, sum |-> p.sum], p.entries[e[2]].perm, type)
  BY <1>2, AllowedUnder
<1> QED BY <1>1, <1>3 DEF Cacheable

LEMMA SpmpAccessKeeps ==
  ASSUME NEW p, SpmpInv(p), NEW q \in SpmpAccess(p)
  PROVE  SpmpInv(q)
<1>1. PICK a \in SpmpAccesses, type \in AccessTypes :
        q = SpmpAccessed(p, GetMemMode(p, type), a[1], a[2], type)
  BY DEF SpmpAccess
<1> DEFINE first == a[1]  last == a[2]
           mode == GetMemMode(p, type)
           e == FindEntry(p, first, last)
           done == DoSpmpCheck(p, mode, first, last, type)
           hit == CacheHit(p, mode, first, last, type)
           verdict == Verdict(p, mode, first, last, type)
           filled == mode # "M" /\ ~hit /\ verdict /\ e # <<>>
           now == <<p.prv, p.sum>>
           cache == Updated(p.cache, mode, type, Region(p, e[2]))
<1>2. first \in Int /\ last \in Int /\ first <= last
  BY SpmpAssumption
<1>3. SpmpTyped(p)
  BY DEF SpmpInv
<1>4. mode \in SpmpModes
  BY <1>3 DEF GetMemMode, SpmpTyped
<1>5. q = [done EXCEPT !.last = <<mode, first, last, type>>,
                       !.under[mode][type] = IF done.cache = p.cache THEN @ ELSE now]
  BY <1>1 DEF SpmpAccessed
<1> HIDE DEF first, last, mode
<1>6. /\ mode = "M" \/ hit => done = [p EXCEPT !.granted = TRUE]
      /\ filled => done = [p EXCEPT !.granted = TRUE, !.cache[mode][type] = Region(p, e[2])]
      /\ ~(mode = "M" \/ hit) /\ ~(verdict /\ e # <<>>) => done = [p EXCEPT !.granted = verdict]
  BY Zenon DEF DoSpmpCheck
<1> HIDE DEF e, done, hit, verdict, now
<1> DEFINE same == done.cache = p.cache
           under == Updated(p.under, mode, type, now)
<1>7. /\ SpmpTyped(q) /\ q.entries = p.entries /\ q.sum = p.sum /\ q.prv = p.prv
      /\ q.last = <<mode, first, last, type>>
      /\ q.granted = IF mode = "M" \/ hit \/ filled THEN TRUE ELSE verdict
      /\ \/ q.cache = p.cache /\ q.under = p.under
         \/ filled /\ q.cache = cache /\ q.under = under
  <2> DEFINE answer(granted, to, u) ==
               [entries |-> p.entries, sum |-> p.sum, prv |-> p.prv, mprv |-> p.mprv, mpp |-> p.mpp,
                cache |-> to, granted |-> granted, last |-> <<mode, first, last, type>>,
                changes |-> p.changes, under |-> u]
  <2>0. [p.under EXCEPT ![mode][type] = @] = p.under
    BY <1>3, <1>4 DEF SpmpTyped, Grid
  <2>1. ASSUME NEW granted, NEW to, NEW u, Grid(to), Grid(u), q = answer(granted, to, u)
        PROVE  /\ SpmpTyped(q) /\ q.entries = p.entries /\ q.sum = p.sum /\ q.prv = p.prv
               /\ q.last = <<mode, first, last, type>>
               /\ q.granted = granted /\ q.cache = to /\ q.under = u
    <3>1. SpmpTyped(q)
      BY <1>3, <2>1, TypedSpmp DEF SpmpTyped
    <3> QED BY <2>1, <3>1
  <2>2. Grid(p.cache) /\ Grid(p.under) /\ Grid(cache) /\ Grid(under)
    <3>1. Grid(p.cache) /\ Grid(p.under)
      BY <1>3 DEF SpmpTyped
    <3> QED BY <1>4, <3>1, GridUpdate
  <2>3. CASE mode = "M" \/ hit
    <3>1. q = answer(TRUE, p.cache, [p.under EXCEPT ![mode][type] = @])
      BY <1>3, <1>5, <1>6, <2>3 DEF SpmpTyped
    <3>2. q = answer(TRUE, p.cache, p.under)
      BY <2>0, <3>1
    <3> HIDE DEF answer, filled, cache, under
    <3> QED BY <2>1, <2>2, <2>3, <3>2
  <2>4. CASE ~(mode = "M" \/ hit) /\ ~(verdict /\ e # <<>>)
    <3>1. q = answer(verdict, p.cache, [p.under EXCEPT ![mode][type] = @])
      BY <1>3, <1>5, <1>6, <2>4 DEF SpmpTyped
    <3>2. q = answer(verdict, p.cache, p.under)
      BY <2>0, <3>1
    <3>3. ~filled
      BY <2>4
    <3> HIDE DEF answer, filled, cache, under
    <3>4. /\ SpmpTyped(q) /\ q.entries = p.entries /\ q.sum = p.sum /\ q.prv = p.prv
          /\ q.last = <<mode, first, last, type>>
          /\ q.granted = verdict /\ q.cache = p.cache /\ q.under = p.under
      BY <2>1, <2>2, <3>2
    <3>5. q.granted = IF mode = "M" \/ hit \/ filled THEN TRUE ELSE verdict
      BY <2>4, <3>3, <3>4, Zenon
    <3> QED BY <3>4, <3>5
  <2>5. CASE filled
    <3>1. done = [p EXCEPT !.granted = TRUE, !.cache[mode][type] = Region(p, e[2])]
      BY <1>6, <2>5
    <3>2. done = [entries |-> p.entries, sum |-> p.sum, prv |-> p.prv, mprv |-> p.mprv, mpp |-> p.mpp,
                  cache |-> cache, granted |-> TRUE, last |-> p.last, changes |-> p.changes,
                  under |-> p.under]
      BY <1>3, <3>1 DEF SpmpTyped, Updated
    <3> HIDE DEF cache
    <3>3. q = answer(TRUE, cache, [p.under EXCEPT ![mode][type] = IF cache = p.cache THEN @ ELSE now])
      BY <1>5, <3>2
    <3>4. q = answer(TRUE, cache, IF cache = p.cache THEN p.under ELSE under)
      BY <2>0, <3>3 DEF Updated
    <3> HIDE DEF answer, under, filled
    <3>5. CASE cache = p.cache
      <4>1. q = answer(TRUE, p.cache, p.under)
        BY <3>4, <3>5
      <4> QED BY <2>1, <2>2, <2>5, <4>1
    <3>6. CASE cache # p.cache
      <4>1. q = answer(TRUE, cache, under)
        BY <3>4, <3>6
      <4> QED BY <2>1, <2>2, <2>5, <4>1
    <3> QED BY <3>5, <3>6
  <2> QED BY <2>3, <2>4, <2>5
<1>8. CacheSound(q)
  <2> SUFFICES ASSUME NEW m \in SpmpModes, NEW t \in AccessTypes, q.cache[m][t] # NoRegion
               PROVE  Cacheable(q, q.under[m][t], t, q.cache[m][t])
    BY DEF CacheSound
  <2>1. Cacheable(p, q.under[m][t], t, q.cache[m][t])
    <3>1. CASE q.cache[m][t] = p.cache[m][t] /\ q.under[m][t] = p.under[m][t]
      BY <3>1 DEF SpmpInv, CacheSound
    <3>2. CASE filled /\ m = mode /\ t = type /\ q.cache[m][t] = Region(p, e[2]) /\ q.under[m][t] = now
      BY <1>3, <3>2, GrantIsCacheable DEF e, verdict, now
    <3>3. CASE filled /\ q.cache = cache /\ q.under = under
      <4>0. Grid(p.cache) /\ Grid(p.under)
        BY <1>3 DEF SpmpTyped
      <4>1. /\ cache[m][t] = IF m = mode /\ t = type THEN Region(p, e[2]) ELSE p.cache[m][t]
            /\ under[m][t] = IF m = mode /\ t = type THEN now ELSE p.under[m][t]
        BY <1>4, <4>0, GridCells
      <4> HIDE DEF cache, under, filled
      <4> QED BY <3>1, <3>2, <3>3, <4>1
    <3> HIDE DEF filled, cache, under
    <3> QED BY <1>7, <3>1, <3>3
  <2> QED BY <1>7, <2>1, SameCacheable
<1>9. Disjoint(q) => CacheTransparent(q)
  <2>0. q.last[1] = mode /\ q.last[2] = first /\ q.last[3] = last /\ q.last[4] = type
    BY <1>7
  <2> SUFFICES ASSUME Disjoint(q), ~StaleHit(q)
               PROVE  q.granted = (mode = "M" \/ Verdict(q, mode, first, last, type))
    BY <2>0, Zenon DEF CacheTransparent
  <2>1. Disjoint(p)
    BY <1>7, SameVerdict
  <2>2. Verdict(q, mode, first, last, type) = verdict
    BY <1>7, SameVerdict DEF verdict
  <2>3. verdict \in BOOLEAN
    BY Zenon DEF verdict, Verdict, SpmpAllowed, Rwx
  <2>4. ASSUME hit, mode # "M" PROVE verdict
    <3>1. q.cache = p.cache /\ q.under = p.under
      BY <1>7, <2>4
    <3>2. CacheHit(q, mode, first, last, type)
      BY <2>4, <3>1 DEF CacheHit, hit
    <3>3. q.under[mode][type] = <<q.prv, q.sum>>
      BY <2>0, <3>2, Zenon DEF StaleHit
    <3>4. p.under[mode][type] = <<p.prv, p.sum>>
      BY <1>7, <3>1, <3>3
    <3> QED BY <1>2, <1>3, <1>4, <2>1, <2>4, <3>4, HitIsVerdict DEF SpmpInv, hit, verdict
  <2> QED BY <1>7, <2>2, <2>3, <2>4
<1> QED BY <1>7, <1>8, <1>9 DEF SpmpInv

LEMMA SpmpChangeKeeps ==
  ASSUME NEW p, SpmpInv(p), NEW q \in SpmpChange(p)
  PROVE  SpmpInv(q)
<1>1. SpmpTyped(p)
  BY DEF SpmpInv
<1>2. CASE \E i \in DOMAIN p.entries, e \in SpmpEntries : q = SpmpWritten(p, i, e)
  <2>1. PICK i \in DOMAIN p.entries, e \in SpmpEntries : q = SpmpWritten(p, i, e)
    BY <1>2
  <2>2. /\ q = [entries |-> [p.entries EXCEPT ![i] = e], sum |-> p.sum, prv |-> p.prv,
                mprv |-> p.mprv, mpp |-> p.mpp, cache |-> EmptyCache, granted |-> p.granted,
                last |-> <<>>, changes |-> p.changes + 1, under |-> p.under]
    BY <1>1, <2>1 DEF SpmpTyped, SpmpWritten, WriteSpmp, ClearSpmpCache
  <2>3. [p.entries EXCEPT ![i] = e] \in Seq(SpmpEntryType)
    BY <1>1, SpmpAssumption DEF SpmpTyped
  <2>4. SpmpTyped(q)
    BY <1>1, <2>2, <2>3 DEF SpmpTyped, Grid, EmptyCache, AccessTypes
  <2>5. CacheSound(q)
    BY <2>2 DEF CacheSound, EmptyCache, AccessTypes
  <2>6. CacheTransparent(q)
    BY <2>2 DEF CacheTransparent
  <2> QED BY <2>4, <2>5, <2>6 DEF SpmpInv
<1>3. CASE q = SumToggled(p) \/ \E c \in SpmpContexts : q = ModeSwitched(p, c)
  <2>1. /\ SpmpTyped(q) /\ q.last = <<>> /\ q.entries = p.entries
        /\ q.cache = p.cache /\ q.under = p.under
    <3>1. CASE q = SumToggled(p)
      BY <1>1, <3>1 DEF SpmpTyped, SumToggled
    <3>2. ASSUME NEW c \in SpmpContexts, q = ModeSwitched(p, c)
          PROVE  /\ SpmpTyped(q) /\ q.last = <<>> /\ q.entries = p.entries
                 /\ q.cache = p.cache /\ q.under = p.under
      <4>1. c.prv \in SpmpModes /\ c.mpp \in SpmpModes
        BY DEF SpmpContexts, SpmpModes
      <4> QED BY <1>1, <3>2, <4>1 DEF SpmpTyped, ModeSwitched
    <3> QED BY <1>3, <3>1, <3>2
  <2>2. CacheSound(q)
    BY <2>1, SameCacheable DEF CacheSound, SpmpInv
  <2> QED BY <2>1, <2>2 DEF SpmpInv, CacheTransparent
<1> QED BY <1>2, <1>3 DEF SpmpChange

LEMMA SpmpStarts ==
  ASSUME NEW p \in SpmpCores
  PROVE  SpmpInv(p)
<1>1. PICK table \in SpmpTables, sum \in BOOLEAN, c \in SpmpContexts :
        p = [entries |-> table, sum |-> sum, prv |-> c.prv, mprv |-> c.mprv, mpp |-> c.mpp,
             cache |-> EmptyCache, granted |-> FALSE, last |-> <<>>, changes |-> 0,
             under |-> [m \in SpmpModes |-> [t \in AccessTypes |-> <<c.prv, sum>>]]]
  BY DEF SpmpCores
<1>2. c.prv \in SpmpModes /\ c.mpp \in SpmpModes
  BY DEF SpmpContexts, SpmpModes
<1>3. p.last = <<>> /\ p.cache = EmptyCache /\ SpmpTyped(p)
  BY <1>1, <1>2, SpmpAssumption DEF SpmpTyped, Grid, EmptyCache, AccessTypes
<1>4. CacheSound(p)
  BY <1>3 DEF CacheSound, EmptyCache, AccessTypes
<1> QED BY <1>3, <1>4 DEF SpmpInv, CacheTransparent

-----------------------------------------------------------------------------
(* Address translation                                                     *)

\* What the tables and the status bits say is at hand.
MmuTyped(m) ==
  /\ m = [mem |-> m.mem, ptbase |-> m.ptbase, bare |-> m.bare, sum |-> m.sum, mxr |-> m.mxr,
          tlb |-> m.tlb, result |-> m.result, last |-> m.last, fence |-> m.fence,
          accesses |-> m.accesses, changes |-> m.changes]
  /\ m.mem \in [PteAddresses -> PteType]
  /\ \A at \in PteAddresses : SoundPte(m.mem[at])
  /\ m.ptbase \in TablePages
  /\ m.tlb \in [MmuModes -> [AccessTypes -> [0 .. TLB_ENTRIES - 1 -> [vpn : Int, ppn : Int]]]]

LEMMA TypedRecord ==
  ASSUME NEW mem \in [PteAddresses -> PteType], \A at \in PteAddresses : SoundPte(mem[at]),
         NEW ptbase \in TablePages, NEW bare, NEW sum, NEW mxr,
         NEW tlb \in [MmuModes -> [AccessTypes -> [0 .. TLB_ENTRIES - 1 -> [vpn : Int, ppn : Int]]]],
         NEW result, NEW last, NEW fence, NEW accesses, NEW changes, NEW n,
         n = [mem |-> mem, ptbase |-> ptbase, bare |-> bare, sum |-> sum, mxr |-> mxr, tlb |-> tlb,
              result |-> result, last |-> last, fence |-> fence, accesses |-> accesses,
              changes |-> changes]
  PROVE  MmuTyped(n)
BY DEF MmuTyped

LEMMA VpnsAreNatural == ASSUME NEW vpn \in Vpns PROVE vpn \in Nat
<1>1. VPN_BITS + EXT_BITS \in Nat
  BY MmuAssumption DEF VPN_BITS
<1> DEFINE n == VPN_BITS + EXT_BITS
<1>2. 2^n \in Int
  BY <1>1
<1> QED BY <1>2 DEF Vpns

LEMMA VpnFieldRange ==
  ASSUME NEW vpn \in Nat, NEW i \in 0 .. LEVELS - 1
  PROVE  /\ VpnField(vpn, i) \in 0 .. 2^IDXBITS - 1
         /\ vpn % 2^(i * IDXBITS) \in Nat
<1> DEFINE size == 2^(i * IDXBITS)
           entries == 2^IDXBITS
<1>1. i * IDXBITS \in Nat
  BY MmuAssumption
<1>2. size \in Int /\ size > 0
  BY <1>1, MmuPowers
<1>3. entries \in Int /\ entries > 0
  BY MmuAssumption, MmuPowers
<1> HIDE DEF size, entries
<1>4. vpn \div size \in Int /\ vpn % size \in Nat
  BY <1>2
<1>5. (vpn \div size) % entries \in 0 .. entries - 1
  BY <1>3, <1>4
<1> QED BY <1>4, <1>5 DEF VpnField, size, entries

LEMMA EntrySound ==
  ASSUME NEW m, MmuTyped(m), NEW vpn \in Nat, NEW i \in 0 .. LEVELS - 1, NEW base \in TablePages
  PROVE  /\ <<base, VpnField(vpn, i)>> \in PteAddresses
         /\ SoundPte(m.mem[<<base, VpnField(vpn, i)>>])
<1>1. <<base, VpnField(vpn, i)>> \in PteAddresses
  BY VpnFieldRange DEF PteAddresses
<1> QED BY <1>1 DEF MmuTyped

\* The walk's tests of a leaf are the architecture's.
LEMMA LeafTests ==
  ASSUME NEW m, NEW f \in SUBSET PteFlags, NEW type \in AccessTypes, NEW mode \in MmuModes
  PROVE  /\ Grants(m, f, type, mode) =>
              /\ "V" \in f /\ ~("W" \in f /\ "R" \notin f) /\ ~("R" \notin f /\ "X" \notin f)
              /\ PermitsType(m, f, type) /\ PermitsMode(m, f, type, mode)
         /\ /\ "V" \in f /\ ~("W" \in f /\ "R" \notin f)
            /\ PermitsType(m, f, type) /\ PermitsMode(m, f, type, mode)
            => Grants(m, f, type, mode)
BY DEF Grants, PermitsType, PermitsMode, AccessTypes, MmuModes

\* A leaf of level i, reached from table base of level n.
MapsFrom(m, vpn, type, mode, n, base, i, path) ==
  /\ i <= n
  /\ path[n] = base
  /\ \A j \in i + 1 .. n :
       IsPointer(Entry(m, vpn, path, j)) /\ Entry(m, vpn, path, j).ppn = path[j - 1]
  /\ Grants(m, Entry(m, vpn, path, i).flags, type, mode)
  /\ Entry(m, vpn, path, i).ppn % 2^(i * IDXBITS) = 0

\* The hart after a leaf is used.
Marked(m, at, i, vpn, type) ==
  [m EXCEPT !.mem[at].flags = @ \cup Touched(type), !.result = m.mem[at].ppn + (vpn % 2^(i * IDXBITS))]

\* The outcome of the walk from a table: the fault of an unmapped page, or the
\* use of the leaf that maps it.
WalkRight(m, vpn, type, mode, n, base, w) ==
  \/ /\ w = Fault(m)
     /\ ~ \E i \in 0 .. LEVELS - 1, path \in Paths : MapsFrom(m, vpn, type, mode, n, base, i, path)
  \/ \E i \in 0 .. LEVELS - 1, path \in Paths :
       /\ MapsFrom(m, vpn, type, mode, n, base, i, path)
       /\ w = Marked(m, <<path[i], VpnField(vpn, i)>>, i, vpn, type)

\* The walk from table base of level i, given the walks of the level below.
LevelStep(m, vpn, type, mode, below, i, base) ==
  LET at == <<base, VpnField(vpn, i)>>
      f == m.mem[at].flags
  IN IF "V" \notin f \/ ("W" \in f /\ "R" \notin f) THEN Fault(m)
     ELSE IF "R" \notin f /\ "X" \notin f
     THEN IF i = 0 THEN Fault(m) ELSE below[m.mem[at].ppn]
     ELSE Leaf(m, at, i, vpn, type, mode)

\* One level of the walk, right when the level below is.
LEMMA LevelStepRight ==
  ASSUME NEW m, MmuTyped(m), NEW vpn \in Nat, NEW type \in AccessTypes, NEW mode \in MmuModes,
         NEW n \in 0 .. LEVELS - 1, NEW base \in TablePages, NEW below,
         n # 0 => \A b \in TablePages : WalkRight(m, vpn, type, mode, n - 1, b, below[b])
  PROVE  WalkRight(m, vpn, type, mode, n, base, LevelStep(m, vpn, type, mode, below, n, base))
<1> DEFINE at == <<base, VpnField(vpn, n)>>
           pte == m.mem[at]
           f == pte.flags
           w == LevelStep(m, vpn, type, mode, below, n, base)
<1>1. LEVELS \in Nat \ {0} /\ n \in Nat
  BY MmuAssumption
<1>2. at \in PteAddresses /\ SoundPte(pte)
  BY EntrySound
<1>3. f \in SUBSET PteFlags /\ pte.ppn \in Nat
  BY <1>2 DEF SoundPte, PteType
<1> HIDE DEF at
<1> HIDE DEF pte, w
<1>4. ASSUME NEW i \in 0 .. LEVELS - 1, NEW path \in Paths,
             MapsFrom(m, vpn, type, mode, n, base, i, path)
      PROVE  /\ Entry(m, vpn, path, n) = pte
             /\ i = n => Grants(m, f, type, mode) /\ pte.ppn % 2^(n * IDXBITS) = 0
             /\ i # n => /\ IsPointer(pte) /\ n # 0 /\ pte.ppn = path[n - 1]
                         /\ MapsFrom(m, vpn, type, mode, n - 1, path[n - 1], i, path)
  <2>1. Entry(m, vpn, path, n) = pte
    BY <1>4 DEF MapsFrom, Entry, pte, at
  <2>2. i = n => Grants(m, f, type, mode) /\ pte.ppn % 2^(n * IDXBITS) = 0
    BY <1>4, <2>1 DEF MapsFrom
  <2>3. ASSUME i # n
        PROVE  /\ IsPointer(pte) /\ n # 0 /\ pte.ppn = path[n - 1]
               /\ MapsFrom(m, vpn, type, mode, n - 1, path[n - 1], i, path)
    <3>1. i <= n - 1 /\ n # 0 /\ n \in i + 1 .. n /\ \A j \in i + 1 .. n - 1 : j \in i + 1 .. n
      BY <1>1, <1>4, <2>3 DEF MapsFrom
    <3>2. IsPointer(pte) /\ pte.ppn = path[n - 1]
      BY <1>4, <2>1, <3>1 DEF MapsFrom
    <3> QED BY <1>4, <3>1, <3>2 DEF MapsFrom
  <2> QED BY <2>1, <2>2, <2>3
<1>5. CASE "V" \notin f \/ ("W" \in f /\ "R" \notin f)
  <2>1. w = Fault(m)
    BY <1>5 DEF w, LevelStep, pte, at
  <2>2. ASSUME NEW i \in 0 .. LEVELS - 1, NEW path \in Paths
        PROVE  ~MapsFrom(m, vpn, type, mode, n, base, i, path)
    BY <1>3, <1>4, <1>5, LeafTests DEF IsPointer
  <2> QED BY <2>1, <2>2 DEF WalkRight, w
<1>6. CASE /\ ~("V" \notin f \/ ("W" \in f /\ "R" \notin f))
           /\ "R" \notin f /\ "X" \notin f
  <2>1. ~Grants(m, f, type, mode)
    BY <1>3, <1>6, LeafTests
  <2>2. CASE n = 0
    <3>1. w = Fault(m)
      BY <1>6, <2>2 DEF w, LevelStep, pte, at
    <3>2. ASSUME NEW i \in 0 .. LEVELS - 1, NEW path \in Paths
          PROVE  ~MapsFrom(m, vpn, type, mode, n, base, i, path)
      BY <1>4, <2>1, <2>2
    <3> QED BY <3>1, <3>2 DEF WalkRight, w
  <2>3. CASE n # 0
    <3> DEFINE child == pte.ppn
    <3>1. IsPointer(pte)
      BY <1>3, <1>6 DEF IsPointer
    <3>2. child \in TablePages /\ w = below[child]
      BY <1>2, <1>6, <2>3, <3>1 DEF SoundPte, w, LevelStep, pte, at
    <3> HIDE DEF child
    <3>3. WalkRight(m, vpn, type, mode, n - 1, child, w)
      BY <2>3, <3>2
    <3>4. CASE /\ w = Fault(m)
               /\ ~ \E i \in 0 .. LEVELS - 1, path \in Paths :
                      MapsFrom(m, vpn, type, mode, n - 1, child, i, path)
      <4>1. ASSUME NEW i \in 0 .. LEVELS - 1, NEW path \in Paths
            PROVE  ~MapsFrom(m, vpn, type, mode, n, base, i, path)
        BY <1>4, <2>1, <3>4 DEF child
      <4> QED BY <3>4, <4>1 DEF WalkRight, w
    <3>5. CASE \E i \in 0 .. LEVELS - 1, path \in Paths :
                 /\ MapsFrom(m, vpn, type, mode, n - 1, child, i, path)
                 /\ w = Marked(m, <<path[i], VpnField(vpn, i)>>, i, vpn, type)
      <4>1. PICK i \in 0 .. LEVELS - 1, path \in Paths :
              /\ MapsFrom(m, vpn, type, mode, n - 1, child, i, path)
              /\ w = Marked(m, <<path[i], VpnField(vpn, i)>>, i, vpn, type)
        BY <3>5
      <4> DEFINE longer == [path EXCEPT ![n] = base]
      <4>2. i <= n - 1 /\ i \in Nat
        BY <4>1 DEF MapsFrom
      <4>3. /\ longer \in Paths /\ longer[n] = base
            /\ \A j \in 0 .. n - 1 : longer[j] = path[j]
        BY <1>1, <4>1 DEF Paths
      <4> HIDE DEF longer
      <4>4. \A j \in 0 .. n - 1 : Entry(m, vpn, longer, j) = Entry(m, vpn, path, j)
        BY <4>3 DEF Entry
      <4>5. Entry(m, vpn, longer, n) = pte
        BY <4>3 DEF Entry, pte, at
      <4>6. ASSUME NEW j \in i + 1 .. n
            PROVE  IsPointer(Entry(m, vpn, longer, j)) /\ Entry(m, vpn, longer, j).ppn = longer[j - 1]
        <5>1. CASE j = n
          <6>1. longer[n - 1] = child
            BY <1>1, <2>3, <4>1, <4>3 DEF MapsFrom
          <6> QED BY <3>1, <4>5, <5>1, <6>1 DEF child
        <5>2. CASE j # n
          <6>1. j \in i + 1 .. n - 1 /\ j \in 0 .. n - 1 /\ j - 1 \in 0 .. n - 1
            BY <4>2, <5>2
          <6>2. IsPointer(Entry(m, vpn, path, j)) /\ Entry(m, vpn, path, j).ppn = path[j - 1]
            BY <4>1, <6>1 DEF MapsFrom
          <6> QED BY <4>3, <4>4, <6>1, <6>2
        <5> QED BY <5>1, <5>2
      <4>7. i \in 0 .. n - 1 /\ i <= n
        BY <1>1, <4>2
      <4>8. MapsFrom(m, vpn, type, mode, n, base, i, longer)
        BY <4>1, <4>3, <4>4, <4>6, <4>7 DEF MapsFrom
      <4>9. w = Marked(m, <<longer[i], VpnField(vpn, i)>>, i, vpn, type)
        BY <4>1, <4>3, <4>7
      <4> QED BY <4>3, <4>8, <4>9 DEF WalkRight, w
    <3> QED BY <3>3, <3>4, <3>5 DEF WalkRight
  <2> QED BY <2>2, <2>3
<1>7. CASE /\ ~("V" \notin f \/ ("W" \in f /\ "R" \notin f))
           /\ ~("R" \notin f /\ "X" \notin f)
  <2> DEFINE passes == /\ PermitsType(m, f, type) /\ PermitsMode(m, f, type, mode)
                       /\ SuperpageAligned(pte.ppn, n)
  <2>1. w = IF passes THEN Marked(m, at, n, vpn, type) ELSE Fault(m)
    BY <1>7, Zenon DEF w, LevelStep, Leaf, pte, at, Marked
  <2>2. passes <=> Grants(m, f, type, mode) /\ pte.ppn % 2^(n * IDXBITS) = 0
    BY <1>3, <1>7, LeafTests DEF SuperpageAligned
  <2> HIDE DEF passes
  <2>3. CASE passes
    <3> DEFINE path == [j \in 0 .. LEVELS - 1 |-> base]
    <3>1. path \in Paths /\ path[n] = base
      BY DEF Paths
    <3> HIDE DEF path
    <3>2. Entry(m, vpn, path, n) = pte
      BY <3>1 DEF Entry, pte, at
    <3>3. MapsFrom(m, vpn, type, mode, n, base, n, path)
      BY <1>1, <2>2, <2>3, <3>1, <3>2 DEF MapsFrom
    <3>4. w = Marked(m, <<path[n], VpnField(vpn, n)>>, n, vpn, type)
      BY <2>1, <2>3, <3>1 DEF at
    <3> QED BY <3>1, <3>3, <3>4 DEF WalkRight, w
  <2>4. CASE ~passes
    <3>1. ASSUME NEW i \in 0 .. LEVELS - 1, NEW path \in Paths
          PROVE  ~MapsFrom(m, vpn, type, mode, n, base, i, path)
      BY <1>4, <1>7, <2>2, <2>4 DEF IsPointer
    <3> QED BY <2>1, <2>4, <3>1 DEF WalkRight, w
  <2> QED BY <2>3, <2>4
<1> QED BY <1>5, <1>6, <1>7

\* f is the walk from every table of the levels up to n.
WalkLoop(f, n, m, vpn, type, mode) ==
  f = [i \in 0 .. n |-> [base \in TablePages |-> LevelStep(m, vpn, type, mode, f[i - 1], i, base)]]

LEMMA WalkLoopExists ==
  ASSUME NEW m, NEW vpn, NEW type, NEW mode, NEW z \in Nat
  PROVE  \E f : WalkLoop(f, z, m, vpn, type, mode)
<1> DEFINE Turn(below, i) == [base \in TablePages |-> LevelStep(m, vpn, type, mode, below, i, base)]
           Failing == {n \in Nat : ~ \E f : f = [i \in 0 .. n |-> Turn(f[i - 1], i)]}
<1>0. SUFFICES \E f : f = [i \in 0 .. z |-> Turn(f[i - 1], i)]
  BY DEF WalkLoop
<1> DEFINE Empty == [i \in {} |-> 0]
<1>a. ASSUME NEW g, NEW i, i = 0 PROVE Turn(g, i) = Turn(Empty, i)
  BY <1>a, Zenon DEF LevelStep
<1> HIDE DEF Turn, Empty
<1>1. SUFFICES ASSUME Failing # {} PROVE FALSE
  OBVIOUS
<1>2. PICK n \in Failing : \A y \in Failing : n <= y
  BY <1>1, LeastExists
<1>3. n # 0
  <2> DEFINE g == [i \in 0 .. 0 |-> Turn(Empty, i)]
  <2>1. g = [i \in 0 .. 0 |-> Turn(g[i - 1], i)]
    <3>1. ASSUME NEW i \in 0 .. 0 PROVE Turn(Empty, i) = Turn(g[i - 1], i)
      BY <1>a
    <3> HIDE DEF g
    <3>2. g = [i \in 0 .. 0 |-> Turn(Empty, i)]
      BY DEF g
    <3> QED BY <3>1, <3>2
  <2> QED BY <2>1
<1>4. n \in Nat /\ n - 1 \in Nat /\ ~ (n <= n - 1)
  BY <1>3
<1>5. PICK f : f = [i \in 0 .. n - 1 |-> Turn(f[i - 1], i)]
  BY <1>2, <1>4
<1> DEFINE g == [i \in 0 .. n |-> IF i = n THEN Turn(f[n - 1], n) ELSE f[i]]
<1>6. ASSUME NEW i \in 0 .. n
      PROVE  g[i] = Turn(g[i - 1], i)
  <2>1. CASE i = n
    BY <1>3, <1>4, <2>1
  <2>2. CASE i = 0
    <3>1. g[0] = f[0] /\ f[0] = Turn(f[0 - 1], 0)
      BY <1>3, <1>4, <1>5
    <3>2. Turn(f[0 - 1], 0) = Turn(Empty, 0) /\ Turn(g[0 - 1], 0) = Turn(Empty, 0)
      BY <1>a
    <3> QED BY <2>2, <3>1, <3>2
  <2>3. CASE i # n /\ i # 0
    <3>1. i \in 0 .. n - 1 /\ i - 1 \in 0 .. n /\ i - 1 # n
      BY <1>4, <2>3
    <3>2. f[i] = Turn(f[i - 1], i)
      BY <1>5, <3>1
    <3>3. g[i] = f[i] /\ g[i - 1] = f[i - 1]
      BY <2>3, <3>1
    <3> QED BY <3>2, <3>3
  <2> QED BY <2>1, <2>2, <2>3
<1>7. g = [i \in 0 .. n |-> Turn(g[i - 1], i)]
  <2>1. g = [i \in 0 .. n |-> g[i]]
    OBVIOUS
  <2> HIDE DEF g
  <2> QED BY <1>6, <2>1
<1> QED BY <1>2, <1>7

LEMMA WalkLoopRight ==
  ASSUME NEW m, MmuTyped(m), NEW vpn \in Nat, NEW type \in AccessTypes, NEW mode \in MmuModes,
         NEW z \in 0 .. LEVELS - 1, NEW f, WalkLoop(f, z, m, vpn, type, mode)
  PROVE  \A base \in TablePages : WalkRight(m, vpn, type, mode, z, base, f[z][base])
<1> DEFINE Right(n) == \A base \in TablePages : WalkRight(m, vpn, type, mode, n, base, f[n][base])
           Failing == {n \in 0 .. z : ~Right(n)}
<1>1. SUFFICES ASSUME Failing # {} PROVE FALSE
  OBVIOUS
<1>2. PICK n \in Failing : \A y \in Failing : n <= y
  <2>1. Failing \subseteq Nat
    OBVIOUS
  <2> HIDE DEF Failing
  <2> QED BY <1>1, <2>1, LeastExists
<1>3. n \in 0 .. LEVELS - 1 /\ ~(n <= n - 1)
  BY MmuAssumption
<1>4. ASSUME NEW base \in TablePages
      PROVE  f[n][base] = LevelStep(m, vpn, type, mode, f[n - 1], n, base)
  BY DEF WalkLoop
<1>5. n # 0 => Right(n - 1)
  BY <1>2, <1>3
<1> HIDE DEF Failing
<1>6. Right(n)
  BY <1>3, <1>4, <1>5, LevelStepRight
<1> QED BY <1>2, <1>6 DEF Failing

\* The whole walk.
LEMMA WalkIsRight ==
  ASSUME NEW m, MmuTyped(m), NEW vpn \in Nat, NEW type \in AccessTypes, NEW mode \in MmuModes
  PROVE  \/ Walk(m, vpn, type, mode) = Fault(m) /\ ~CheckVaddrExtension(vpn)
         \/ /\ CheckVaddrExtension(vpn)
            /\ WalkRight(m, vpn, type, mode, LEVELS - 1, m.ptbase, Walk(m, vpn, type, mode))
<1> DEFINE level == CHOOSE f : WalkLoop(f, LEVELS - 1, m, vpn, type, mode)
<1>1. Walk(m, vpn, type, mode) =
        IF CheckVaddrExtension(vpn) THEN level[LEVELS - 1][m.ptbase] ELSE Fault(m)
  BY DEF Walk, WalkLoop, LevelStep
<1>2. LEVELS - 1 \in Nat /\ LEVELS - 1 \in 0 .. LEVELS - 1
  BY MmuAssumption
<1>3. WalkLoop(level, LEVELS - 1, m, vpn, type, mode)
  BY <1>2, WalkLoopExists
<1> HIDE DEF level
<1>4. WalkRight(m, vpn, type, mode, LEVELS - 1, m.ptbase, level[LEVELS - 1][m.ptbase])
  BY <1>2, <1>3, WalkLoopRight DEF MmuTyped
<1> QED BY <1>1, <1>4

\* n has the tables of m but for accessed and dirty flags it has in addition.
Marks(m, n) ==
  /\ n.ptbase = m.ptbase /\ n.sum = m.sum /\ n.mxr = m.mxr
  /\ \A at \in PteAddresses : /\ n.mem[at].ppn = m.mem[at].ppn
                              /\ m.mem[at].flags \subseteq n.mem[at].flags
                              /\ n.mem[at].flags \subseteq m.mem[at].flags \cup {"A", "D"}

\* Accessed and dirty flags change nothing of what is mapped, and stay.
LEMMA MarksKeepMaps ==
  ASSUME NEW m, MmuTyped(m), NEW n, MmuTyped(n), Marks(m, n),
         NEW vpn \in Nat, NEW type \in AccessTypes, NEW mode \in MmuModes
  PROVE  /\ \A i \in 0 .. LEVELS - 1, path \in Paths :
              Maps(n, vpn, type, mode, i, path) <=> Maps(m, vpn, type, mode, i, path)
         /\ \A ppn : MapsTo(m, vpn, type, mode, ppn) => MapsTo(n, vpn, type, mode, ppn)
<1>1. ASSUME NEW path \in Paths, NEW j \in 0 .. LEVELS - 1
      PROVE  /\ Entry(n, vpn, path, j).ppn = Entry(m, vpn, path, j).ppn
             /\ Entry(m, vpn, path, j).flags \subseteq Entry(n, vpn, path, j).flags
             /\ Entry(n, vpn, path, j).flags \subseteq Entry(m, vpn, path, j).flags \cup {"A", "D"}
  <2>1. path[j] \in TablePages
    BY DEF Paths
  <2>2. <<path[j], VpnField(vpn, j)>> \in PteAddresses
    BY <2>1, EntrySound
  <2> QED BY <2>2 DEF Marks, Entry
<1>2. ASSUME NEW path \in Paths, NEW j \in 0 .. LEVELS - 1
      PROVE  /\ IsPointer(Entry(n, vpn, path, j)) <=> IsPointer(Entry(m, vpn, path, j))
             /\ Grants(n, Entry(n, vpn, path, j).flags, type, mode)
                  <=> Grants(m, Entry(m, vpn, path, j).flags, type, mode)
  <2> DEFINE e == Entry(m, vpn, path, j)
             d == Entry(n, vpn, path, j)
  <2>1. e.flags \subseteq d.flags /\ d.flags \subseteq e.flags \cup {"A", "D"}
    BY <1>1
  <2> HIDE DEF e, d
  <2>2. IsPointer(d) <=> IsPointer(e)
    BY <2>1 DEF IsPointer
  <2>3. \A f \in {"V", "R", "W", "X", "U"} : f \in d.flags <=> f \in e.flags
    BY <2>1
  <2>4. Grants(n, d.flags, type, mode) <=> Grants(m, e.flags, type, mode)
    <3>1. n.sum = m.sum /\ n.mxr = m.mxr
      BY DEF Marks
    <3> QED BY <2>3, <3>1 DEF Grants, AccessTypes, MmuModes
  <2> QED BY <2>2, <2>4 DEF e, d
<1>3. ASSUME NEW i \in 0 .. LEVELS - 1, NEW path \in Paths
      PROVE  Maps(n, vpn, type, mode, i, path) <=> Maps(m, vpn, type, mode, i, path)
  <2>1. n.ptbase = m.ptbase
    BY DEF Marks
  <2>2. \A j \in i + 1 .. LEVELS - 1 : j \in 0 .. LEVELS - 1
    BY MmuAssumption
  <2>3. (\A j \in i + 1 .. LEVELS - 1 :
           IsPointer(Entry(n, vpn, path, j)) /\ Entry(n, vpn, path, j).ppn = path[j - 1])
        <=> (\A j \in i + 1 .. LEVELS - 1 :
               IsPointer(Entry(m, vpn, path, j)) /\ Entry(m, vpn, path, j).ppn = path[j - 1])
    BY <1>1, <1>2, <2>2
  <2>4. Entry(n, vpn, path, i).ppn = Entry(m, vpn, path, i).ppn
    BY <1>1
  <2>5. Grants(n, Entry(n, vpn, path, i).flags, type, mode)
          <=> Grants(m, Entry(m, vpn, path, i).flags, type, mode)
    BY <1>2
  <2> QED BY <2>1, <2>3, <2>4, <2>5, Zenon DEF Maps
<1>4. ASSUME NEW ppn, MapsTo(m, vpn, type, mode, ppn) PROVE MapsTo(n, vpn, type, mode, ppn)
  <2>1. PICK i \in 0 .. LEVELS - 1, path \in Paths :
          /\ Maps(m, vpn, type, mode, i, path)
          /\ Touched(type) \subseteq Entry(m, vpn, path, i).flags
          /\ ppn = Entry(m, vpn, path, i).ppn + (vpn % 2^(i * IDXBITS))
    BY <1>4 DEF MapsTo
  <2>2. /\ Maps(n, vpn, type, mode, i, path)
        /\ Touched(type) \subseteq Entry(n, vpn, path, i).flags
        /\ ppn = Entry(n, vpn, path, i).ppn + (vpn % 2^(i * IDXBITS))
    BY <1>1, <1>3, <2>1
  <2> QED BY <2>2 DEF MapsTo
<1> QED BY <1>3, <1>4

LEMMA TouchedFlags == ASSUME NEW type PROVE Touched(type) \subseteq {"A", "D"}
BY DEF Touched

LEMMA FlagsUpdated ==
  ASSUME NEW e \in PteType, NEW flags
  PROVE  [e EXCEPT !.flags = flags] = [flags |-> flags, ppn |-> e.ppn]
BY DEF PteType

\* Using a leaf adds flags to it.
LEMMA MarkedMarks ==
  ASSUME NEW m, MmuTyped(m), NEW vpn \in Nat, NEW type, NEW i \in 0 .. LEVELS - 1,
         NEW base \in TablePages, NEW at, at = <<base, VpnField(vpn, i)>>,
         NEW n, n = Marked(m, at, i, vpn, type)
  PROVE  /\ MmuTyped(n) /\ Marks(m, n)
         /\ n.mem[at].ppn = m.mem[at].ppn /\ Touched(type) \subseteq n.mem[at].flags
         /\ n.result = m.mem[at].ppn + (vpn % 2^(i * IDXBITS)) /\ n.result \in Nat
         /\ n.tlb = m.tlb /\ n.bare = m.bare /\ n.fence = m.fence
<1> DEFINE pte == [flags |-> m.mem[at].flags \cup Touched(type), ppn |-> m.mem[at].ppn]
           mem == [m.mem EXCEPT ![at] = pte]
           result == m.mem[at].ppn + (vpn % 2^(i * IDXBITS))
<1>1. at \in PteAddresses /\ SoundPte(m.mem[at])
  BY EntrySound
<1>2. m.mem[at] \in PteType
  BY <1>1 DEF SoundPte
<1>3. m.mem[at] = [flags |-> m.mem[at].flags, ppn |-> m.mem[at].ppn]
  BY <1>2 DEF PteType
<1>4. n = [mem |-> mem, ptbase |-> m.ptbase, bare |-> m.bare, sum |-> m.sum, mxr |-> m.mxr,
           tlb |-> m.tlb, result |-> result, last |-> m.last, fence |-> m.fence,
           accesses |-> m.accesses, changes |-> m.changes]
  <2>1. [m.mem[at] EXCEPT !.flags = m.mem[at].flags \cup Touched(type)] = pte
    BY <1>2, FlagsUpdated
  <2> HIDE DEF pte
  <2>2. n = [m EXCEPT !.mem = mem, !.result = result]
    BY <2>1 DEF Marked
  <2> HIDE DEF mem, result
  <2> QED BY <2>2 DEF MmuTyped
<1>5. pte \in PteType /\ SoundPte(pte)
  <2>1. pte \in PteType
    BY <1>2, TouchedFlags DEF PteType, PteFlags
  <2>2. IsPointer(pte) <=> IsPointer(m.mem[at])
    BY TouchedFlags DEF IsPointer
  <2> QED BY <1>1, <2>1, <2>2 DEF SoundPte
<1>6. /\ mem[at] = pte
      /\ \A b \in PteAddresses : b # at => mem[b] = m.mem[b]
      /\ mem \in [PteAddresses -> PteType]
  <2> HIDE DEF pte
  <2> QED BY <1>1, <1>5 DEF MmuTyped
<1>7. result \in Nat
  BY <1>2, VpnFieldRange DEF PteType
<1> HIDE DEF mem, result
<1>8. MmuTyped(n)
  <2>1. \A b \in PteAddresses : SoundPte(mem[b])
    BY <1>5, <1>6 DEF MmuTyped
  <2>2. /\ m.ptbase \in TablePages
        /\ m.tlb \in [MmuModes -> [AccessTypes -> [0 .. TLB_ENTRIES - 1 -> [vpn : Int, ppn : Int]]]]
    BY DEF MmuTyped
  <2>3. mem \in [PteAddresses -> PteType]
    BY <1>6
  <2> QED BY <1>4, <2>1, <2>2, <2>3, TypedRecord
<1>9. Marks(m, n)
  <2> SUFFICES ASSUME NEW b \in PteAddresses
               PROVE  /\ mem[b].ppn = m.mem[b].ppn
                      /\ m.mem[b].flags \subseteq mem[b].flags
                      /\ mem[b].flags \subseteq m.mem[b].flags \cup {"A", "D"}
    BY <1>4 DEF Marks
  <2> QED BY <1>6, TouchedFlags
<1> QED BY <1>4, <1>6, <1>7, <1>8, <1>9 DEF result

\* Nothing but entries that the tables give is in the TLB.
TlbSound(m) ==
  \A mode \in MmuModes, type \in AccessTypes, k \in 0 .. TLB_ENTRIES - 1 :
    LET e == m.tlb[mode][type][k]
    IN e.vpn \in Nat => CheckVaddrExtension(e.vpn) /\ MapsTo(m, e.vpn, type, mode, e.ppn)

\* The last translation is right.
Translated(m) ==
  LET a == m.last
  IN IF m.bare THEN m.result = a.vpn
     ELSE IF m.result = FAULT
     THEN CheckVaddrExtension(a.vpn) => ~Mapped(m, a.vpn, a.type, a.mode)
     ELSE CheckVaddrExtension(a.vpn) /\ MapsTo(m, a.vpn, a.type, a.mode, m.result)

MmuInv(m) ==
  /\ MmuTyped(m)
  /\ ~m.fence => TlbSound(m)
  /\ m.last # NoAccess => Translated(m)

\* What is said of m holds of n, which has its tables, TLB and result.
LEMMA MarksKeepTlb ==
  ASSUME NEW m, MmuTyped(m), TlbSound(m), NEW n, MmuTyped(n), Marks(m, n), n.tlb = m.tlb
  PROVE  TlbSound(n)
<1> SUFFICES ASSUME NEW mode \in MmuModes, NEW type \in AccessTypes, NEW k \in 0 .. TLB_ENTRIES - 1,
                    m.tlb[mode][type][k].vpn \in Nat
             PROVE  LET e == m.tlb[mode][type][k]
                    IN CheckVaddrExtension(e.vpn) /\ MapsTo(n, e.vpn, type, mode, e.ppn)
  BY DEF TlbSound
<1> DEFINE e == m.tlb[mode][type][k]
<1>1. CheckVaddrExtension(e.vpn) /\ MapsTo(m, e.vpn, type, mode, e.ppn)
  BY DEF TlbSound
<1>2. e.vpn \in Nat
  OBVIOUS
<1> HIDE DEF e
<1>3. MapsTo(n, e.vpn, type, mode, e.ppn)
  BY <1>1, <1>2, MarksKeepMaps
<1> QED BY <1>1, <1>3 DEF e

LEMMA MarksKeepMapped ==
  ASSUME NEW m, MmuTyped(m), NEW n, MmuTyped(n), Marks(m, n),
         NEW vpn \in Nat, NEW type \in AccessTypes, NEW mode \in MmuModes
  PROVE  Mapped(n, vpn, type, mode) <=> Mapped(m, vpn, type, mode)
BY MarksKeepMaps DEF Mapped

\* What a walk that ends at the top says of the tables.
LEMMA MapsFromTop ==
  ASSUME NEW m, NEW vpn, NEW type, NEW mode, NEW i \in 0 .. LEVELS - 1, NEW path
  PROVE  MapsFrom(m, vpn, type, mode, LEVELS - 1, m.ptbase, i, path) <=> Maps(m, vpn, type, mode, i, path)
<1>1. i <= LEVELS - 1
  BY MmuAssumption
<1> QED BY <1>1, Zenon DEF MapsFrom, Maps

\* The walk finds what the tables give and marks the leaf.
LEMMA WalkTranslates ==
  ASSUME NEW m, MmuTyped(m), NEW vpn \in Nat, NEW type \in AccessTypes, NEW mode \in MmuModes,
         NEW w, w = Walk(m, vpn, type, mode)
  PROVE  \/ w = Fault(m) /\ (CheckVaddrExtension(vpn) => ~Mapped(m, vpn, type, mode))
         \/ /\ MmuTyped(w) /\ Marks(m, w) /\ w.result \in Nat
            /\ w.tlb = m.tlb /\ w.bare = m.bare /\ w.fence = m.fence
            /\ CheckVaddrExtension(vpn) /\ MapsTo(w, vpn, type, mode, w.result)
<1>1. CASE w = Fault(m) /\ ~CheckVaddrExtension(vpn)
  BY <1>1
<1>2. CASE CheckVaddrExtension(vpn) /\ WalkRight(m, vpn, type, mode, LEVELS - 1, m.ptbase, w)
  <2>1. CASE /\ w = Fault(m)
             /\ ~ \E i \in 0 .. LEVELS - 1, path \in Paths :
                    MapsFrom(m, vpn, type, mode, LEVELS - 1, m.ptbase, i, path)
    BY <2>1, MapsFromTop DEF Mapped
  <2>2. CASE \E i \in 0 .. LEVELS - 1, path \in Paths :
               /\ MapsFrom(m, vpn, type, mode, LEVELS - 1, m.ptbase, i, path)
               /\ w = Marked(m, <<path[i], VpnField(vpn, i)>>, i, vpn, type)
    <3>1. PICK i \in 0 .. LEVELS - 1, path \in Paths :
            /\ MapsFrom(m, vpn, type, mode, LEVELS - 1, m.ptbase, i, path)
            /\ w = Marked(m, <<path[i], VpnField(vpn, i)>>, i, vpn, type)
      BY <2>2
    <3> DEFINE at == <<path[i], VpnField(vpn, i)>>
    <3>a. at = <<path[i], VpnField(vpn, i)>> /\ w = Marked(m, at, i, vpn, type)
      BY <3>1
    <3> HIDE DEF at
    <3>2. path[i] \in TablePages
      BY DEF Paths
    <3>3. /\ MmuTyped(w) /\ Marks(m, w)
          /\ w.mem[at].ppn = m.mem[at].ppn /\ Touched(type) \subseteq w.mem[at].flags
          /\ w.result = m.mem[at].ppn + (vpn % 2^(i * IDXBITS)) /\ w.result \in Nat
          /\ w.tlb = m.tlb /\ w.bare = m.bare /\ w.fence = m.fence
      BY <3>a, <3>2, MarkedMarks
    <3>4. Maps(w, vpn, type, mode, i, path)
      BY <3>1, <3>3, MapsFromTop, MarksKeepMaps
    <3>5. Entry(w, vpn, path, i) = w.mem[at]
      BY DEF Entry, at
    <3>6. MapsTo(w, vpn, type, mode, w.result)
      BY <3>3, <3>4, <3>5 DEF MapsTo
    <3> QED BY <1>2, <3>3, <3>6
  <2> QED BY <1>2, <2>1, <2>2 DEF WalkRight
<1> QED BY <1>1, <1>2, WalkIsRight

LEMMA Update3 ==
  ASSUME NEW A, NEW B, NEW C, NEW D, NEW f \in [A -> [B -> [C -> D]]],
         NEW a \in A, NEW b \in B, NEW c \in C, NEW v \in D, NEW g, g = [f EXCEPT ![a][b][c] = v]
  PROVE  /\ g \in [A -> [B -> [C -> D]]]
         /\ \A x \in A, y \in B, z \in C :
              g[x][y][z] = IF x = a /\ y = b /\ z = c THEN v ELSE f[x][y][z]
OBVIOUS

\* A translation, from the TLB or by the walk.
LEMMA TranslateRight ==
  ASSUME NEW m, MmuTyped(m), TlbSound(m),
         NEW vpn \in Nat, NEW type \in AccessTypes, NEW mode \in MmuModes,
         NEW n, n = Translate(m, vpn, type, mode)
  PROVE  /\ MmuTyped(n) /\ TlbSound(n) /\ n.fence = m.fence
         /\ IF n.bare THEN n.result = vpn
            ELSE IF n.result = FAULT
            THEN CheckVaddrExtension(vpn) => ~Mapped(n, vpn, type, mode)
            ELSE CheckVaddrExtension(vpn) /\ MapsTo(n, vpn, type, mode, n.result)
<1> DEFINE k == TlbIdx(vpn)
           e == m.tlb[mode][type][k]
<1>1. k \in 0 .. TLB_ENTRIES - 1
  BY MmuAssumption DEF TlbIdx
<1> HIDE DEF k
<1>2. m.tlb \in [MmuModes -> [AccessTypes -> [0 .. TLB_ENTRIES - 1 -> [vpn : Int, ppn : Int]]]]
  BY DEF MmuTyped
<1>3. mode # "M"
  BY DEF MmuModes
<1>4. ASSUME NEW r, n = [m EXCEPT !.result = r]
      PROVE  /\ MmuTyped(n) /\ TlbSound(n) /\ n.fence = m.fence /\ n.bare = m.bare /\ n.result = r
             /\ Marks(m, n)
  <2>1. MmuTyped(n) /\ n.fence = m.fence /\ n.bare = m.bare /\ n.result = r /\ n.tlb = m.tlb
    BY <1>4 DEF MmuTyped
  <2>2. Marks(m, n)
    BY <1>4 DEF MmuTyped, Marks
  <2> QED BY <2>1, <2>2, MarksKeepTlb
<1>5. CASE m.bare
  <2>1. n = [m EXCEPT !.result = vpn]
    BY <1>5, Zenon DEF Translate
  <2> QED BY <1>4, <1>5, <2>1
<1>6. CASE ~m.bare /\ TlbHit(m, vpn, type, mode)
  <2>1. n = [m EXCEPT !.result = e.ppn]
    BY <1>3, <1>6, Zenon DEF Translate, e, k
  <2>2. e.vpn = vpn
    BY <1>6 DEF TlbHit, k
  <2>3. CheckVaddrExtension(vpn) /\ MapsTo(m, vpn, type, mode, e.ppn)
    BY <1>1, <2>2 DEF TlbSound
  <2> HIDE DEF e
  <2>4. MapsTo(n, vpn, type, mode, n.result)
    BY <1>4, <2>1, <2>3, MarksKeepMaps
  <2>5. e.ppn # FAULT
    <3>1. PICK i \in 0 .. LEVELS - 1, path \in Paths :
            e.ppn = Entry(m, vpn, path, i).ppn + (vpn % 2^(i * IDXBITS))
      BY <2>3 DEF MapsTo
    <3>2. path[i] \in TablePages
      BY DEF Paths
    <3>3. Entry(m, vpn, path, i).ppn \in Nat
      BY <3>2, EntrySound DEF Entry, SoundPte, PteType
    <3> QED BY <3>1, <3>3, VpnFieldRange DEF FAULT
  <2> QED BY <1>4, <1>6, <2>1, <2>3, <2>4, <2>5
<1>7. CASE ~m.bare /\ ~TlbHit(m, vpn, type, mode)
  <2> DEFINE w == Walk(m, vpn, type, mode)
             filled == [m.tlb EXCEPT ![mode][type][k] = [vpn |-> vpn, ppn |-> w.result]]
  <2>1. n = IF w.result = FAULT THEN w ELSE [w EXCEPT !.tlb[mode][type][k] = [vpn |-> vpn, ppn |-> w.result]]
    BY <1>3, <1>7, Zenon DEF Translate, k
  <2>2. \/ w = Fault(m) /\ (CheckVaddrExtension(vpn) => ~Mapped(m, vpn, type, mode))
        \/ /\ MmuTyped(w) /\ Marks(m, w) /\ w.result \in Nat
           /\ w.tlb = m.tlb /\ w.bare = m.bare /\ w.fence = m.fence
           /\ CheckVaddrExtension(vpn) /\ MapsTo(w, vpn, type, mode, w.result)
    BY WalkTranslates
  <2> HIDE DEF w
  <2>3. CASE w = Fault(m) /\ (CheckVaddrExtension(vpn) => ~Mapped(m, vpn, type, mode))
    <3>1. w.result = FAULT
      BY <2>3 DEF Fault, MmuTyped
    <3>2. n = [m EXCEPT !.result = FAULT]
      BY <2>1, <2>3, <3>1, Zenon DEF Fault
    <3>3. CheckVaddrExtension(vpn) => ~Mapped(n, vpn, type, mode)
      BY <1>4, <2>3, <3>2, MarksKeepMapped
    <3> QED BY <1>4, <1>7, <3>2, <3>3
  <2>4. CASE /\ MmuTyped(w) /\ Marks(m, w) /\ w.result \in Nat
             /\ w.tlb = m.tlb /\ w.bare = m.bare /\ w.fence = m.fence
             /\ CheckVaddrExtension(vpn) /\ MapsTo(w, vpn, type, mode, w.result)
    <3>1. w.result # FAULT
      BY <2>4 DEF FAULT
    <3>2. n = [w EXCEPT !.tlb = filled]
      BY <2>1, <2>4, <3>1
    <3>3. [vpn |-> vpn, ppn |-> w.result] \in [vpn : Int, ppn : Int]
      BY <2>4
    <3> HIDE DEF filled
    <3>4. /\ filled \in [MmuModes -> [AccessTypes -> [0 .. TLB_ENTRIES - 1 -> [vpn : Int, ppn : Int]]]]
          /\ \A o \in MmuModes, t \in AccessTypes, j \in 0 .. TLB_ENTRIES - 1 :
               filled[o][t][j] = IF o = mode /\ t = type /\ j = k THEN [vpn |-> vpn, ppn |-> w.result]
                                 ELSE m.tlb[o][t][j]
      <4> DEFINE v == [vpn |-> vpn, ppn |-> w.result]
                 tlb == m.tlb
                 Slots == 0 .. TLB_ENTRIES - 1
                 Entries == [vpn : Int, ppn : Int]
      <4>1. filled = [tlb EXCEPT ![mode][type][k] = v]
        BY DEF filled
      <4>2. v \in Entries /\ k \in Slots /\ tlb \in [MmuModes -> [AccessTypes -> [Slots -> Entries]]]
        BY <1>1, <1>2, <3>3
      <4> HIDE DEF v, tlb, Slots, Entries
      <4>3. /\ filled \in [MmuModes -> [AccessTypes -> [Slots -> Entries]]]
            /\ \A o \in MmuModes, t \in AccessTypes, j \in Slots :
                 filled[o][t][j] = IF o = mode /\ t = type /\ j = k THEN v ELSE tlb[o][t][j]
        BY <4>1, <4>2, Update3
      <4> QED BY <4>3 DEF v, tlb, Slots, Entries
    <3>5. MmuTyped(n) /\ n.fence = w.fence /\ n.bare = w.bare /\ n.result = w.result /\ n.tlb = filled
      BY <2>4, <3>2, <3>4 DEF MmuTyped
    <3>6. Marks(w, n)
      BY <2>4, <3>2 DEF MmuTyped, Marks
    <3>7. TlbSound(w)
      BY <2>4, MarksKeepTlb
    <3>8. MapsTo(n, vpn, type, mode, w.result)
      BY <2>4, <3>5, <3>6, MarksKeepMaps
    <3>9. TlbSound(n)
      <4> SUFFICES ASSUME NEW o \in MmuModes, NEW t \in AccessTypes, NEW j \in 0 .. TLB_ENTRIES - 1,
                          filled[o][t][j].vpn \in Nat
                   PROVE  /\ CheckVaddrExtension(filled[o][t][j].vpn)
                          /\ MapsTo(n, filled[o][t][j].vpn, t, o, filled[o][t][j].ppn)
        BY <3>5 DEF TlbSound
      <4>1. CASE o = mode /\ t = type /\ j = k
        <5>1. filled[o][t][j].vpn = vpn /\ filled[o][t][j].ppn = w.result
          BY <3>4, <4>1
        <5> QED BY <2>4, <3>8, <4>1, <5>1
      <4>2. CASE ~(o = mode /\ t = type /\ j = k)
        <5> DEFINE d == m.tlb[o][t][j]
        <5>1. filled[o][t][j] = d /\ d.vpn \in Nat
          BY <3>4, <4>2
        <5>2. CheckVaddrExtension(d.vpn) /\ MapsTo(w, d.vpn, t, o, d.ppn)
          BY <2>4, <3>7, <5>1 DEF TlbSound
        <5> HIDE DEF d
        <5>3. MapsTo(n, d.vpn, t, o, d.ppn)
          BY <2>4, <3>5, <3>6, <5>1, <5>2, MarksKeepMaps
        <5> QED BY <5>1, <5>2, <5>3
      <4> QED BY <4>1, <4>2
    <3> QED BY <1>7, <2>4, <3>1, <3>5, <3>8, <3>9
  <2> QED BY <2>2, <2>3, <2>4
<1> QED BY <1>5, <1>6, <1>7

LEMMA MmuAccessKeeps ==
  ASSUME NEW m, MmuInv(m), NEW q \in MmuAccess(m)
  PROVE  MmuInv(q)
<1>1. PICK vpn \in Vpns, type \in AccessTypes, mode \in MmuModes :
        ~m.fence /\ q = Accessed(m, vpn, type, mode)
  BY DEF MmuAccess
<1> DEFINE n == Translate(m, vpn, type, mode)
           a == [vpn |-> vpn, type |-> type, mode |-> mode]
<1>2. vpn \in Nat
  BY VpnsAreNatural
<1>3. /\ MmuTyped(n) /\ TlbSound(n) /\ n.fence = m.fence
      /\ IF n.bare THEN n.result = vpn
         ELSE IF n.result = FAULT
         THEN CheckVaddrExtension(vpn) => ~Mapped(n, vpn, type, mode)
         ELSE CheckVaddrExtension(vpn) /\ MapsTo(n, vpn, type, mode, n.result)
  BY <1>1, <1>2, TranslateRight DEF MmuInv
<1>4. q = [n EXCEPT !.last = a, !.accesses = @ + 1]
  BY <1>1 DEF Accessed
<1> HIDE DEF n
<1>5. MmuTyped(q) /\ q.last = a /\ q.bare = n.bare /\ q.result = n.result /\ q.tlb = n.tlb
  BY <1>3, <1>4 DEF MmuTyped
<1>6. Marks(n, q)
  BY <1>3, <1>4 DEF MmuTyped, Marks
<1>7. TlbSound(q)
  BY <1>3, <1>5, <1>6, MarksKeepTlb
<1>8. IF q.bare THEN q.result = vpn
      ELSE IF q.result = FAULT
      THEN CheckVaddrExtension(vpn) => ~Mapped(q, vpn, type, mode)
      ELSE CheckVaddrExtension(vpn) /\ MapsTo(q, vpn, type, mode, q.result)
  <2>1. Mapped(q, vpn, type, mode) <=> Mapped(n, vpn, type, mode)
    BY <1>2, <1>3, <1>5, <1>6, MarksKeepMapped
  <2>2. MapsTo(n, vpn, type, mode, n.result) => MapsTo(q, vpn, type, mode, n.result)
    BY <1>2, <1>3, <1>5, <1>6, MarksKeepMaps
  <2> QED BY <1>3, <1>5, <2>1, <2>2
<1>9. Translated(q)
  BY <1>5, <1>8 DEF Translated
<1> QED BY <1>5, <1>7, <1>9 DEF MmuInv

LEMMA ChangeTyped ==
  ASSUME NEW m, MmuTyped(m), NEW n, n = Change(m)
  PROVE  MmuTyped(n) /\ n.fence = TRUE /\ n.last = NoAccess
BY DEF MmuTyped, Change

LEMMA MmuChangeKeeps ==
  ASSUME NEW m, MmuInv(m), NEW q \in MmuChange(m)
  PROVE  MmuInv(q)
<1> DEFINE n == Change(m)
<1>1. MmuTyped(n) /\ n.fence = TRUE /\ n.last = NoAccess
  BY ChangeTyped DEF MmuInv
<1> HIDE DEF n
<1>2. ASSUME MmuTyped(q), q.fence = TRUE, q.last = NoAccess PROVE MmuInv(q)
  BY <1>2 DEF MmuInv
<1>3. CASE \E at \in PteAddrs, pte \in Ptes : q = PteWritten(m, at, pte)
  <2>1. PICK at \in PteAddrs, pte \in Ptes : q = [n EXCEPT !.mem[at] = pte]
    BY <1>3 DEF PteWritten, n
  <2>2. at \in PteAddresses /\ SoundPte(pte) /\ pte \in PteType
    BY MmuAssumption DEF SoundPte
  <2> DEFINE mem == [n.mem EXCEPT ![at] = pte]
  <2>3. mem \in [PteAddresses -> PteType] /\ \A b \in PteAddresses : SoundPte(mem[b])
    BY <1>1, <2>2 DEF MmuTyped
  <2>4. q = [n EXCEPT !.mem = mem]
    BY <2>1
  <2> HIDE DEF mem
  <2>5. MmuTyped(q) /\ q.fence = TRUE /\ q.last = NoAccess
    BY <1>1, <2>3, <2>4 DEF MmuTyped
  <2> QED BY <1>2, <2>5
<1>4. CASE q = [n EXCEPT !.sum = ~@]
  BY <1>1, <1>2, <1>4 DEF MmuTyped
<1>5. CASE q = [n EXCEPT !.mxr = ~@]
  BY <1>1, <1>2, <1>5 DEF MmuTyped
<1>6. CASE q = [n EXCEPT !.bare = ~@]
  BY <1>1, <1>2, <1>6 DEF MmuTyped
<1> QED BY <1>3, <1>4, <1>5, <1>6 DEF MmuChange, n

LEMMA MmuFenceKeeps ==
  ASSUME NEW m, MmuInv(m), NEW q \in MmuFence(m)
  PROVE  MmuInv(q)
<1>1. q = Fenced(m)
  BY DEF MmuFence
<1>2. FlushedTlb \in [MmuModes -> [AccessTypes -> [0 .. TLB_ENTRIES - 1 -> [vpn : Int, ppn : Int]]]]
  BY DEF FlushedTlb, NoEntry
<1>3. q.tlb = FlushedTlb /\ q.last = NoAccess /\ MmuTyped(q)
  BY <1>1, <1>2 DEF MmuInv, MmuTyped, Fenced, FlushTlb
<1>4. TlbSound(q)
  BY <1>3 DEF TlbSound, FlushedTlb, NoEntry
<1> QED BY <1>3, <1>4 DEF MmuInv

LEMMA MmuStarts ==
  ASSUME NEW m \in MmuHarts
  PROVE  MmuInv(m)
<1>1. FlushedTlb \in [MmuModes -> [AccessTypes -> [0 .. TLB_ENTRIES - 1 -> [vpn : Int, ppn : Int]]]]
  BY DEF FlushedTlb, NoEntry
<1>2. PICK mem \in PageTables :
        m = [mem |-> mem, ptbase |-> 0, bare |-> FALSE, sum |-> FALSE, mxr |-> FALSE,
             tlb |-> FlushedTlb, result |-> FAULT, last |-> NoAccess, fence |-> FALSE,
             accesses |-> 0, changes |-> 0]
  BY DEF MmuHarts
<1>3. mem \in [PteAddresses -> PteType] /\ \A at \in PteAddresses : SoundPte(mem[at])
  BY MmuAssumption DEF SoundPte
<1>4. MmuTyped(m)
  BY <1>1, <1>2, <1>3, MmuAssumption DEF MmuTyped
<1>5. TlbSound(m)
  BY <1>2 DEF TlbSound, FlushedTlb, NoEntry
<1> QED BY <1>2, <1>4, <1>5 DEF MmuInv

\* Whatever was translated before, a translation is one the page tables give and
\* a fault means that they give none: the TLB keeps nothing that the tables do
\* not say, and the walk of translate_virtual_to_physical_addr (mmu.h) finds
\* exactly the leaves of the tables.
THEOREM UnitsTranslationExact == UnitsSpec => []TranslationExact
<1> DEFINE Inv == part = "mmu" => MmuInv(hart)
<1>1. UnitsInit => Inv
  BY MmuStarts DEF UnitsInit
<1>2. Inv /\ [UnitsNext]_unitVars => Inv'
  <2> SUFFICES ASSUME Inv, [UnitsNext]_unitVars, part' = "mmu" PROVE MmuInv(hart')
    OBVIOUS
  <2>1. CASE UNCHANGED unitVars
    BY <2>1 DEF unitVars
  <2>2. CASE MemoryStep
    BY <2>2, MmuAccessKeeps, MmuChangeKeeps, MmuFenceKeeps DEF MemoryStep
  <2>3. CASE FpStep \/ FpSoftware
    BY <2>3 DEF FpStep, FpSoftware
  <2> QED BY <2>1, <2>2, <2>3 DEF UnitsNext
<1>3. Inv => TranslationExact
  BY DEF MmuInv, Translated, TranslationExact
<1> QED BY <1>1, <1>2, <1>3, PTL DEF UnitsSpec

-----------------------------------------------------------------------------
(* Floating point                                                          *)

FpRecord(f) ==
  f = [fr |-> f.fr, x |-> f.x, fs |-> f.fs, frm |-> f.frm, fflags |-> f.fflags, sf |-> f.sf,
       trap |-> f.trap]

\* g has no flag of SoftFloat's left, and is dirty unless it has the registers
\* and the flags of f.
Tracks(f, g) ==
  /\ FpRecord(g) /\ g.sf = {}
  /\ \/ g.fs = "dirty"
     \/ g.fs = f.fs /\ g.fr = f.fr /\ g.fflags = f.fflags

LEMMA FpWrites ==
  ASSUME NEW f, FpRecord(f), NEW rd, NEW v, NEW p, NEW g, g = WriteFp(f, rd, v, p)
  PROVE  FpRecord(g) /\ g.sf = f.sf /\ g.fs = f.fs /\ g.fflags = f.fflags
<1> DEFINE fr == [f.fr EXCEPT ![rd] = [k |-> p, v |-> v]]
<1>1. g = [f EXCEPT !.fr = fr]
  BY DEF WriteFp
<1> HIDE DEF fr
<1> QED BY <1>1 DEF FpRecord

LEMMA FpParts ==
  ASSUME NEW f, FpRecord(f)
  PROVE  /\ \A rd, v, p : FpRecord(WriteFp(f, rd, v, p)) /\ WriteFp(f, rd, v, p).sf = f.sf
                          /\ WriteFp(f, rd, v, p).fs = f.fs /\ WriteFp(f, rd, v, p).fflags = f.fflags
         /\ \A raised : FpRecord(Soft(f, raised)) /\ Soft(f, raised).fs = f.fs
                        /\ Soft(f, raised).fr = f.fr /\ Soft(f, raised).fflags = f.fflags
         /\ \A v : FpRecord([f EXCEPT !.x = v]) /\ [f EXCEPT !.x = v].sf = f.sf
                   /\ [f EXCEPT !.x = v].fs = f.fs /\ [f EXCEPT !.x = v].fr = f.fr
                   /\ [f EXCEPT !.x = v].fflags = f.fflags
         /\ FpRecord(SetDirty(f)) /\ SetDirty(f).fs = "dirty" /\ SetDirty(f).sf = f.sf
         /\ FpRecord(Illegal(f)) /\ Illegal(f).sf = f.sf /\ Illegal(f).fs = f.fs
         /\ Illegal(f).fr = f.fr /\ Illegal(f).fflags = f.fflags
<1>1. ASSUME NEW rd, NEW v, NEW p, NEW g, g = WriteFp(f, rd, v, p)
      PROVE  FpRecord(g) /\ g.sf = f.sf /\ g.fs = f.fs /\ g.fflags = f.fflags
  BY <1>1, FpWrites
<1>2. ASSUME NEW raised, NEW g, g = Soft(f, raised)
      PROVE  FpRecord(g) /\ g.fs = f.fs /\ g.fr = f.fr /\ g.fflags = f.fflags
  BY <1>2 DEF FpRecord, Soft
<1>3. ASSUME NEW v, NEW g, g = [f EXCEPT !.x = v]
      PROVE  FpRecord(g) /\ g.sf = f.sf /\ g.fs = f.fs /\ g.fr = f.fr /\ g.fflags = f.fflags
  BY <1>3 DEF FpRecord
<1>4. ASSUME NEW g, g = SetDirty(f)
      PROVE  FpRecord(g) /\ g.fs = "dirty" /\ g.sf = f.sf
  BY <1>4 DEF FpRecord, SetDirty
<1>5. ASSUME NEW g, g = Illegal(f)
      PROVE  FpRecord(g) /\ g.sf = f.sf /\ g.fs = f.fs /\ g.fr = f.fr /\ g.fflags = f.fflags
  BY <1>5 DEF FpRecord, Illegal
<1> QED BY <1>1, <1>2, <1>3, <1>4, <1>5

LEMMA UpdateFlagsTracks ==
  ASSUME NEW h, FpRecord(h)
  PROVE  /\ FpRecord(UpdateFlags(h)) /\ UpdateFlags(h).sf = {}
         /\ \/ UpdateFlags(h).fs = "dirty"
            \/ UpdateFlags(h).fs = h.fs /\ UpdateFlags(h).fr = h.fr /\ UpdateFlags(h).fflags = h.fflags
<1>1. CASE h.sf = {}
  BY <1>1 DEF UpdateFlags
<1>2. CASE h.sf # {}
  <2> DEFINE g == UpdateFlags(h)
             d == SetDirty(h)
  <2>1. g = [d EXCEPT !.fflags = h.fflags \cup h.sf, !.sf = {}]
    BY <1>2 DEF UpdateFlags
  <2>2. FpRecord(d) /\ d.fs = "dirty"
    BY FpParts
  <2> HIDE DEF g, d
  <2>3. FpRecord(g) /\ g.sf = {} /\ g.fs = "dirty"
    BY <2>1, <2>2 DEF FpRecord
  <2> QED BY <2>3 DEF g
<1> QED BY <1>1, <1>2

LEMMA FinishTracks ==
  ASSUME NEW f, NEW h, FpRecord(h)
  PROVE  Tracks(f, Finish(h))
<1> DEFINE d == SetDirty(h)
<1>1. FpRecord(d) /\ d.fs = "dirty"
  BY FpParts
<1> HIDE DEF d
<1>2. FpRecord(UpdateFlags(d)) /\ UpdateFlags(d).sf = {} /\ UpdateFlags(d).fs = "dirty"
  BY <1>1, UpdateFlagsTracks
<1> QED BY <1>2 DEF Tracks, Finish, d

\* What follows the checks of FS and of the rounding mode is done or refused.
LEMMA ChecksTrack ==
  ASSUME NEW f, FpRecord(f), f.sf = {}, NEW h, Tracks(f, h)
  PROVE  Tracks(f, Prepare(f, h)) /\ \A rm : Tracks(f, SetupRm(f, rm, h))
<1>1. Tracks(f, Illegal(f))
  BY FpParts DEF Tracks
<1> QED BY <1>1, Zenon DEF Prepare, SetupRm

\* Every group of instructions but the loads.
LEMMA GroupsTrack ==
  ASSUME NEW f, FpRecord(f), f.sf = {}, NEW i, NEW p, NEW v, NEW raised
  PROVE  /\ Tracks(f, FpArithmetic(f, i, p, v, raised)) /\ Tracks(f, FpMinMax(f, i, p, raised))
         /\ Tracks(f, FpFused(f, i, p, raised)) /\ Tracks(f, FpConvert(f, i, p, v, raised))
         /\ Tracks(f, FpSign(f, i, p)) /\ Tracks(f, FpMove(f, i, p, v))
         /\ Tracks(f, FpCompare(f, i, p, raised)) /\ Tracks(f, Illegal(f))
<1>1. FpRecord(Soft(f, raised))
  BY FpParts
<1>2. ASSUME NEW w PROVE Tracks(f, Finish(WriteFp(Soft(f, raised), i.rd, w, p)))
  BY <1>1, FpParts, FinishTracks
<1>3. ASSUME NEW w PROVE Tracks(f, SetDirty(WriteFp(f, i.rd, w, p)))
  <2> DEFINE h == WriteFp(f, i.rd, w, p)
  <2>1. FpRecord(h) /\ h.sf = f.sf
    BY FpWrites
  <2> HIDE DEF h
  <2>2. FpRecord(SetDirty(h)) /\ SetDirty(h).sf = {} /\ SetDirty(h).fs = "dirty"
    BY <2>1, FpParts
  <2> QED BY <2>2 DEF Tracks, h
<1>4. Tracks(f, FpArithmetic(f, i, p, v, raised))
  BY <1>2, ChecksTrack DEF FpArithmetic
<1>5. Tracks(f, FpMinMax(f, i, p, raised))
  BY <1>2, ChecksTrack DEF FpMinMax
<1>6. Tracks(f, FpFused(f, i, p, raised))
  BY <1>2, ChecksTrack DEF FpFused
<1>7. Tracks(f, FpConvert(f, i, p, v, raised))
  <2>1. Tracks(f, Finish([Soft(f, raised) EXCEPT !.x = v]))
    BY <1>1, FpParts, FinishTracks
  <2>2. Tracks(f, Finish(IF i.name = "TO_INT" THEN [Soft(f, raised) EXCEPT !.x = v]
                         ELSE WriteFp(Soft(f, raised), i.rd, v, p)))
    BY <1>2, <2>1
  <2> QED BY <2>2, ChecksTrack DEF FpConvert
<1>8. Tracks(f, FpSign(f, i, p))
  BY <1>3, ChecksTrack DEF FpSign
<1>9. Tracks(f, FpMove(f, i, p, v))
  <2>1. Tracks(f, [f EXCEPT !.x = v])
    BY FpParts DEF Tracks
  <2> QED BY <1>3, <2>1, ChecksTrack DEF FpMove
<1>10. Tracks(f, FpCompare(f, i, p, raised))
  <2>1. ASSUME NEW w PROVE Tracks(f, UpdateFlags([Soft(f, raised) EXCEPT !.x = w]))
    <3> DEFINE s == Soft(f, raised)
               h == [s EXCEPT !.x = w]
    <3>1. FpRecord(s) /\ s.fs = f.fs /\ s.fr = f.fr /\ s.fflags = f.fflags
      BY FpParts
    <3> HIDE DEF s
    <3>2. FpRecord(h) /\ h.fs = s.fs /\ h.fr = s.fr /\ h.fflags = s.fflags
      BY <3>1, FpParts, Zenon
    <3> HIDE DEF h
    <3>3. Tracks(f, UpdateFlags(h))
      BY <3>1, <3>2, UpdateFlagsTracks DEF Tracks
    <3> QED BY <3>3 DEF s, h
  <2> QED BY <2>1, ChecksTrack DEF FpCompare
<1>11. Tracks(f, Illegal(f))
  BY FpParts DEF Tracks
<1> QED BY <1>4, <1>5, <1>6, <1>7, <1>8, <1>9, <1>10, <1>11

\* The load of a value: the registers change, and nothing else.
Loads(f, g) == FpRecord(g) /\ g.sf = {} /\ g.fs = f.fs /\ g.fflags = f.fflags

LEMMA FpLoadLoads ==
  ASSUME NEW f, FpRecord(f), f.sf = {}, NEW i, NEW p, NEW v
  PROVE  Loads(f, FpLoad(f, i, p, v))
<1> DEFINE g == FpLoad(f, i, p, v)
<1>1. g = WriteFp(f, i.rd, v, p)
  BY DEF FpLoad
<1> HIDE DEF g
<1>2. FpRecord(g) /\ g.sf = f.sf /\ g.fs = f.fs /\ g.fflags = f.fflags
  BY <1>1, FpWrites
<1> QED BY <1>2 DEF Loads, g

\* The switches of both cores, for each precision.
LEMMA SwitchesTrack ==
  ASSUME NEW f, FpRecord(f), f.sf = {}, NEW i, i.group \in FpGroupNames, i.group # "load",
         NEW v, NEW raised
  PROVE  /\ i.group # "between" => Tracks(f, FpSingle32(f, i, v, raised))
         /\ i.group # "between" => Tracks(f, FpSingle64(f, i, v, raised))
         /\ Tracks(f, FpDouble32(f, i, v, raised)) /\ Tracks(f, FpDouble64(f, i, v, raised))
<1>1. ASSUME i.group # "between" PROVE Tracks(f, FpSingle32(f, i, v, raised))
  BY <1>1, GroupsTrack DEF FpSingle32, FpGroupNames
<1>2. ASSUME i.group # "between" PROVE Tracks(f, FpSingle64(f, i, v, raised))
  BY <1>2, GroupsTrack DEF FpSingle64, FpCompute64, FpGroupNames
<1>3. Tracks(f, FpDouble32(f, i, v, raised))
  BY GroupsTrack DEF FpDouble32, FpGroupNames, FpArithmeticD, FpMinMaxD, FpFusedD, FpSignD,
     FpCompareD, FpConvertD, FpBetween
<1>4. Tracks(f, FpDouble64(f, i, v, raised))
  BY GroupsTrack DEF FpDouble64, FpComputeD64, FpCompute64, FpGroupNames
<1> QED BY <1>1, <1>2, <1>3, <1>4

LEMMA SwitchesLoad ==
  ASSUME NEW f, FpRecord(f), f.sf = {}, NEW i, i.group = "load", NEW v, NEW raised
  PROVE  /\ Loads(f, FpSingle32(f, i, v, raised)) /\ Loads(f, FpSingle64(f, i, v, raised))
         /\ Loads(f, FpDouble32(f, i, v, raised)) /\ Loads(f, FpDouble64(f, i, v, raised))
BY FpLoadLoads DEF FpSingle32, FpSingle64, FpDouble32, FpDouble64, FpComputeD64, FpCompute64, FpLoadD

LEMMA ExecFpTracks ==
  ASSUME NEW f, FpRecord(f), f.sf = {}, NEW cpu \in {"RV32", "RV64"}, NEW o \in FpOperations,
         NEW g, g = ExecFp(cpu, f, o.i, o.v, o.raised)
  PROVE  IF o.i.group = "load" THEN Loads(f, g) ELSE Tracks(f, g)
<1> DEFINE i == o.i
           h == [f EXCEPT !.trap = FALSE]
<1>1. i.group \in FpGroupNames /\ i.p \in {"s", "d"} /\ (i.group = "between" => i.p = "d")
  BY FpAssumption
<1>2. FpRecord(h) /\ h.sf = f.sf /\ h.fs = f.fs /\ h.fr = f.fr /\ h.fflags = f.fflags
  <2>1. ASSUME NEW e, e = h
        PROVE  FpRecord(e) /\ e.sf = f.sf /\ e.fs = f.fs /\ e.fr = f.fr /\ e.fflags = f.fflags
    BY <2>1 DEF FpRecord
  <2> HIDE DEF h
  <2> QED BY <2>1
<1>3. /\ cpu = "RV32" /\ i.p = "s" => g = FpSingle32(h, i, o.v, o.raised)
      /\ cpu = "RV32" /\ i.p = "d" => g = FpDouble32(h, i, o.v, o.raised)
      /\ cpu = "RV64" /\ i.p = "s" => g = FpSingle64(h, i, o.v, o.raised)
      /\ cpu = "RV64" /\ i.p = "d" => g = FpDouble64(h, i, o.v, o.raised)
  BY DEF ExecFp
<1> HIDE DEF h, i
<1>4. CASE i.group = "load"
  <2>1. Loads(h, g)
    BY <1>1, <1>2, <1>3, <1>4, SwitchesLoad
  <2> QED BY <1>2, <1>4, <2>1 DEF Loads, i
<1>5. CASE i.group # "load"
  <2>1. Tracks(h, g)
    BY <1>1, <1>2, <1>3, <1>5, SwitchesTrack
  <2> QED BY <1>2, <1>5, <2>1 DEF Tracks, i
<1> QED BY <1>4, <1>5

\* No floating-point instruction of either core leaves a flag of SoftFloat's
\* behind, and none but FLW and FLD changes registers or flags without marking
\* mstatus.FS dirty (fp_finish_instr and fp_update_exception_flags, iss.cpp).
THEOREM UnitsFpTracked == UnitsSpec => []FpTracked
<1> DEFINE Inv == part = "fp" => /\ FpRecord(hart) /\ hart.sf = {} /\ arch \in {"RV32", "RV64"}
                                 /\ before.changed => hart.fs = "dirty"
<1>1. UnitsInit => Inv
  <2> SUFFICES ASSUME UnitsInit, part = "fp"
               PROVE  /\ FpRecord(hart) /\ hart.sf = {} /\ arch \in {"RV32", "RV64"}
                      /\ before.changed => hart.fs = "dirty"
    OBVIOUS
  <2>1. hart \in FpHarts /\ arch \in {"RV32", "RV64"} /\ before = [changed |-> FALSE]
    BY DEF UnitsInit
  <2>2. FpRecord(hart) /\ hart.sf = {}
    BY <2>1 DEF FpHarts, FpRecord
  <2>3. before.changed = FALSE
    BY <2>1
  <2> QED BY <2>1, <2>2, <2>3
<1>2. Inv /\ [UnitsNext]_unitVars => Inv'
  <2> SUFFICES ASSUME Inv, [UnitsNext]_unitVars, part' = "fp"
               PROVE  /\ FpRecord(hart') /\ hart'.sf = {} /\ arch' \in {"RV32", "RV64"}
                      /\ before'.changed => hart'.fs = "dirty"
    BY DEF FpRecord
  <2>1. CASE UNCHANGED unitVars
    BY <2>1 DEF unitVars
  <2>2. CASE MemoryStep
    BY <2>2 DEF MemoryStep
  <2>3. CASE FpStep
    <3>1. PICK o \in FpOperations :
            /\ hart' = ExecFp(arch, hart, o.i, o.v, o.raised)
            /\ before' = [changed |-> \/ before.changed
                                      \/ hart'.fflags # hart.fflags
                                      \/ hart'.fr # hart.fr /\ o.i.group # "load"]
      BY <2>3 DEF FpStep
    <3>2. part = "fp" /\ arch' = arch
      BY <2>3 DEF FpStep
    <3>3. IF o.i.group = "load" THEN Loads(hart, hart') ELSE Tracks(hart, hart')
      BY <3>1, <3>2, ExecFpTracks
    <3>4. before'.changed => \/ before.changed
                             \/ hart'.fflags # hart.fflags
                             \/ hart'.fr # hart.fr /\ o.i.group # "load"
      BY <3>1
    <3>5. FpRecord(hart') /\ hart'.sf = {}
      BY <3>3 DEF Loads, Tracks
    <3>6. before'.changed => hart'.fs = "dirty"
      BY <3>2, <3>3, <3>4 DEF Loads, Tracks
    <3> QED BY <3>2, <3>5, <3>6
  <2>4. CASE FpSoftware
    <3>1. PICK fs \in {"off", "clean"}, frm \in FpModes :
            hart' = [hart EXCEPT !.fs = fs, !.frm = frm, !.fflags = {}]
      BY <2>4 DEF FpSoftware
    <3>2. part = "fp" /\ arch' = arch /\ before' = [changed |-> FALSE]
      BY <2>4 DEF FpSoftware
    <3>3. FpRecord(hart') /\ hart'.sf = hart.sf
      BY <3>1, <3>2 DEF FpRecord
    <3>4. before'.changed = FALSE
      BY <3>2
    <3> QED BY <3>2, <3>3, <3>4
  <2> QED BY <2>1, <2>2, <2>3, <2>4 DEF UnitsNext
<1>3. Inv => FpTracked
  BY DEF FpTracked
<1> QED BY <1>1, <1>2, <1>3, PTL DEF UnitsSpec

-----------------------------------------------------------------------------
(* SMPU                                                                    *)

LEMMA DivMod ==
  ASSUME NEW a \in Int, NEW k \in Int, k > 0
  PROVE  a \div k \in Int /\ a % k \in 0 .. k - 1 /\ a = k * (a \div k) + (a % k)
OBVIOUS

LEMMA DivUnique ==
  ASSUME NEW k \in Int, k > 0, NEW q \in Int, NEW r \in 0 .. k - 1,
         NEW p \in Int, NEW s \in 0 .. k - 1, k * q + r = k * p + s
  PROVE  q = p /\ r = s
<1>1. k * (q - p) = s - r /\ k * (p - q) = r - s
  OBVIOUS
<1>2. ~(q - p >= 1)
  <2>1. SUFFICES ASSUME q - p >= 1 PROVE FALSE
    OBVIOUS
  <2>2. k * (q - p) >= k
    BY <2>1
  <2> QED BY <1>1, <2>2
<1>3. ~(p - q >= 1)
  <2>1. SUFFICES ASSUME p - q >= 1 PROVE FALSE
    OBVIOUS
  <2>2. k * (p - q) >= k
    BY <2>1
  <2> QED BY <1>1, <2>2
<1> QED BY <1>2, <1>3

LEMMA DivOfSum ==
  ASSUME NEW k \in Int, k > 0, NEW q \in Int, NEW r \in 0 .. k - 1
  PROVE  (k * q + r) \div k = q /\ (k * q + r) % k = r
<1> DEFINE a == k * q + r
<1>1. a \in Int
  OBVIOUS
<1>2. a \div k \in Int /\ a % k \in 0 .. k - 1 /\ a = k * (a \div k) + (a % k)
  BY <1>1, DivMod
<1> QED BY <1>2, DivUnique

\* A block that starts below the end of the last one ends there or before.
LEMMA BlockFits ==
  ASSUME NEW k \in Int, k > 0, NEW q \in Int, NEW m \in Int, k * q < k * m
  PROVE  k * q + k <= k * m
<1>1. q < m
  <2>1. SUFFICES ASSUME q >= m PROVE FALSE
    OBVIOUS
  <2>2. k * (q - m) >= 0
    BY <2>1
  <2> QED BY <2>2
<1>2. k * (m - q - 1) >= 0
  BY <1>1
<1> QED BY <1>2

AddressSpace == 2^ADDR_BITS

LEMMA SmpuBlocks ==
  ASSUME NEW n \in 0 .. ADDR_BITS
  PROVE  /\ 2^n \in Int /\ 2^n > 0 /\ AddressSpace \in Int /\ AddressSpace > 0
         /\ \E m \in Int : AddressSpace = 2^n * m
<1>1. n \in Nat /\ ADDR_BITS \in Nat /\ ADDR_BITS - n \in Nat /\ ADDR_BITS \in 0 .. ADDR_BITS
  BY SmpuAssumption
<1>2. 2^n \in Int /\ 2^ADDR_BITS \in Int /\ 2^(ADDR_BITS - n) \in Int
  BY <1>1
<1> QED BY <1>1, <1>2, SmpuPowers DEF AddressSpace

LEMMA AlignDownFacts ==
  ASSUME NEW a \in Nat, NEW n \in 0 .. ADDR_BITS
  PROVE  AlignDown(a, n) = 2^n * (a \div 2^n) /\ AlignDown(a, n) \in 0 .. a /\ a \div 2^n \in Int
<1> DEFINE k == 2^n
<1>1. k \in Int /\ k > 0
  BY SmpuBlocks
<1> HIDE DEF k
<1>2. a \div k \in Int /\ a % k \in 0 .. k - 1 /\ a = k * (a \div k) + (a % k)
  BY <1>1, DivMod
<1>3. a \div k >= 0
  BY <1>1
<1>4. k * (a \div k) >= 0
  BY <1>1, <1>2, <1>3
<1>5. AlignDown(a, n) = a - (a % k)
  BY DEF AlignDown, k
<1>6. k * (a \div k) \in Int
  BY <1>1, <1>2
<1> QED BY <1>2, <1>4, <1>5, <1>6 DEF k

\* What software can write to a region.
RegionOk(r) ==
  /\ r.addr.n \in 0 .. ADDR_BITS
  /\ r.addr.base \in 0 .. AddressSpace - 1
  /\ r.addr.n # 0 => \E q \in Int : r.addr.base = 2^r.addr.n * q
  /\ r.conf.attr \subseteq SmpuAttributes
  /\ r.conf.paddr \in 0 .. AddressSpace - 1
  /\ GetSize(r.conf) \in Int

LEMMA RegionTyped == ASSUME NEW r \in SmpuRegionType PROVE RegionOk(r)
<1>1. PICK base \in 0 .. 2^ADDR_BITS - 1, n \in 0 .. ADDR_BITS, attr \in SUBSET SmpuAttributes,
           size \in 0 .. 2^(ADDR_BITS - SMPU_ALIGN) - 1, paddr \in 0 .. 2^ADDR_BITS - 1 :
        r = [addr |-> SmpuAddr(base, n), conf |-> SmpuConf(attr, size, paddr)]
  BY DEF SmpuRegionType
<1>2. r.addr = SmpuAddr(base, n) /\ r.conf = SmpuConf(attr, size, paddr)
  BY <1>1
<1>3. ADDR_BITS \in Nat /\ SMPU_ALIGN \in 0 .. ADDR_BITS /\ SMPU_NAPOT_MIN \in 0 .. ADDR_BITS
  BY SmpuAssumption
<1>4. AddressSpace \in Int /\ base \in Nat /\ base < AddressSpace /\ paddr \in Nat /\ paddr < AddressSpace
  BY <1>3, SmpuBlocks DEF AddressSpace
<1> DEFINE k == r.addr.n
           align == IF k = 0 THEN SMPU_ALIGN ELSE k
<1>5. k \in 0 .. ADDR_BITS /\ r.addr.base = AlignDown(base, align)
  <2> DEFINE s == CASE n = 0 -> 0
                    [] n \in 1 .. SMPU_NAPOT_MIN - 1 -> SMPU_NAPOT_MIN
                    [] n > SMPU_NAPOT_MAX -> SMPU_NAPOT_MAX
                    [] OTHER -> n
  <2>1. s \in 0 .. ADDR_BITS
    BY SmpuAssumption
  <2>2. r.addr = [n |-> s, base |-> AlignDown(base, IF s = 0 THEN SMPU_ALIGN ELSE s)]
    BY <1>2, Zenon DEF SmpuAddr
  <2> HIDE DEF s
  <2> QED BY <2>1, <2>2
<1> HIDE DEF k
<1>6. align \in 0 .. ADDR_BITS
  BY <1>3, <1>5
<1>7. /\ AlignDown(base, align) = 2^align * (base \div 2^align)
      /\ AlignDown(base, align) \in 0 .. base /\ base \div 2^align \in Int
  BY <1>4, <1>6, AlignDownFacts
<1>8. AlignDown(paddr, SMPU_NAPOT_MIN) \in 0 .. paddr
  BY <1>3, <1>4, AlignDownFacts
<1>9. r.conf.attr = attr /\ r.conf.size = size /\ r.conf.paddr = AlignDown(paddr, SMPU_NAPOT_MIN)
  BY <1>2 DEF SmpuConf
<1>10. GetSize(r.conf) \in Int
  <2>1. 2^SMPU_ALIGN \in Int
    BY <1>3
  <2>2. size \in Int
    <3>1. ADDR_BITS - SMPU_ALIGN \in Nat
      BY <1>3
    <3>2. 2^(ADDR_BITS - SMPU_ALIGN) \in Int
      BY <3>1
    <3> QED BY <3>2
  <2> QED BY <1>9, <2>1, <2>2 DEF GetSize
<1>11. k # 0 => \E q \in Int : r.addr.base = 2^k * q
  BY <1>5, <1>7
<1>12. r.addr.base \in 0 .. AddressSpace - 1 /\ r.conf.paddr \in 0 .. AddressSpace - 1
  BY <1>4, <1>5, <1>7, <1>8, <1>9
<1> QED BY <1>5, <1>9, <1>10, <1>11, <1>12 DEF RegionOk, k

\* An access that does not wrap around.
AccessOk(acc) ==
  /\ acc = [addr |-> acc.addr, sz |-> acc.sz, type |-> acc.type, hlvx |-> acc.hlvx]
  /\ acc.addr \in Nat /\ acc.sz \in Nat \ {0} /\ acc.addr + acc.sz <= AddressSpace

LastByte(acc) == acc.addr + acc.sz - 1

LEMMA AccessBytes ==
  ASSUME NEW acc, AccessOk(acc)
  PROVE  /\ (acc.addr + acc.sz - 1) % 2^ADDR_BITS = LastByte(acc)
         /\ Bytes(acc) = acc.addr .. LastByte(acc)
         /\ LastByte(acc) \in Int /\ acc.addr <= LastByte(acc) /\ LastByte(acc) < AddressSpace
<1> DEFINE a == acc.addr  z == acc.sz
<1>1. a \in Nat /\ z \in Nat /\ z > 0 /\ a + z <= AddressSpace
  BY DEF AccessOk
<1>2. AddressSpace \in Int /\ AddressSpace > 0 /\ ADDR_BITS \in 0 .. ADDR_BITS
  BY SmpuBlocks, SmpuAssumption
<1> HIDE DEF a, z
<1>3. ASSUME NEW b \in Int, 0 <= b, b < AddressSpace PROVE b % AddressSpace = b
  BY <1>2, <1>3
<1>4. LastByte(acc) = a + z - 1
  BY DEF LastByte, a, z
<1>5. LastByte(acc) \in Int /\ a <= LastByte(acc) /\ LastByte(acc) < AddressSpace
  BY <1>1, <1>2, <1>4
<1>6. (acc.addr + acc.sz - 1) % 2^ADDR_BITS = LastByte(acc)
  <2>1. (a + z - 1) % AddressSpace = a + z - 1
    BY <1>1, <1>2, <1>3
  <2> QED BY <1>4, <2>1 DEF AddressSpace, a, z
<1>7. Bytes(acc) = a .. LastByte(acc)
  <2>1. Bytes(acc) = {(a + k) % AddressSpace : k \in 0 .. z - 1}
    BY DEF Bytes, AddressSpace, a, z
  <2>2. ASSUME NEW b \in Bytes(acc) PROVE b \in a .. LastByte(acc)
    <3>1. PICK k \in 0 .. z - 1 : b = (a + k) % AddressSpace
      BY <2>1
    <3>2. (a + k) % AddressSpace = a + k
      BY <1>1, <1>2, <1>3
    <3> QED BY <1>1, <1>4, <3>1, <3>2
  <2>3. ASSUME NEW b \in a .. LastByte(acc) PROVE b \in Bytes(acc)
    <3>1. b - a \in 0 .. z - 1 /\ a + (b - a) = b
      BY <1>1, <1>4, <1>5
    <3>2. (a + (b - a)) % AddressSpace = b
      BY <1>1, <1>2, <1>3, <1>5, <3>1
    <3> QED BY <2>1, <3>1, <3>2
  <2> QED BY <2>2, <2>3
<1> QED BY <1>5, <1>6, <1>7 DEF a

\* A translating region holds an access when it holds both ends of it.
LEMMA TranslatedHolds ==
  ASSUME NEW r, RegionOk(r), r.addr.n # 0,
         NEW first \in Int, NEW last \in Int, 0 <= first, first <= last
  PROVE  /\ TranslatedMatch(r, first, last) = {first, last} => first .. last \subseteq Covers(r)
         /\ first .. last \subseteq Covers(r) => TranslatedMatch(r, first, last) = {first, last}
         /\ first .. last \subseteq Covers(r) => /\ first \div 2^r.addr.n = last \div 2^r.addr.n
<1> DEFINE k == 2^r.addr.n
           base == r.addr.base
<1>1. k \in Int /\ k > 0 /\ base \in Int
  <2>1. r.addr.n \in 0 .. ADDR_BITS /\ base \in 0 .. AddressSpace - 1
    BY DEF RegionOk
  <2>2. k \in Int /\ k > 0 /\ AddressSpace \in Int
    BY <2>1, SmpuBlocks
  <2> QED BY <2>1, <2>2
<1>2. PICK q \in Int : base = k * q
  BY DEF RegionOk
<1>3. Covers(r) = {base + j : j \in 0 .. k - 1}
  BY DEF Covers
<1>4. TranslatedMatch(r, first, last) = {e \in {first, last} : e \div k = base \div k}
  BY DEF TranslatedMatch
<1> HIDE DEF k, base
<1>5. base \div k = q
  <2>1. 0 \in 0 .. k - 1 /\ base = k * q + 0
    BY <1>1, <1>2
  <2> QED BY <1>1, <2>1, DivOfSum
<1>6. ASSUME NEW e \in Int PROVE e \div k = q <=> e \in Covers(r)
  <2>1. e \div k \in Int /\ e % k \in 0 .. k - 1 /\ e = k * (e \div k) + (e % k)
    BY <1>1, DivMod
  <2>2. ASSUME e \div k = q PROVE e \in Covers(r)
    BY <1>2, <1>3, <2>1, <2>2
  <2>3. ASSUME e \in Covers(r) PROVE e \div k = q
    <3>1. PICK j \in 0 .. k - 1 : e = base + j
      BY <1>3, <2>3
    <3> QED BY <1>1, <1>2, <3>1, DivOfSum
  <2> QED BY <2>2, <2>3
<1>7. ASSUME first \in Covers(r), last \in Covers(r) PROVE first .. last \subseteq Covers(r)
  <2> SUFFICES ASSUME NEW b \in first .. last PROVE b \in Covers(r)
    OBVIOUS
  <2>1. PICK i \in 0 .. k - 1 : first = base + i
    BY <1>3, <1>7
  <2>2. PICK j \in 0 .. k - 1 : last = base + j
    BY <1>3, <1>7
  <2>3. b - base \in 0 .. k - 1 /\ b = base + (b - base)
    BY <1>1, <2>1, <2>2
  <2> QED BY <1>3, <2>3
<1>8. first \in first .. last /\ last \in first .. last
  OBVIOUS
<1>9. TranslatedMatch(r, first, last) = {first, last} <=> first \in Covers(r) /\ last \in Covers(r)
  <2>1. TranslatedMatch(r, first, last) = {first, last} <=> first \div k = q /\ last \div k = q
    BY <1>4, <1>5
  <2> QED BY <1>6, <2>1
<1> QED BY <1>6, <1>7, <1>8, <1>9 DEF k

\* A protecting region holds an access when it starts and ends in it.
LEMMA ProtectedHolds ==
  ASSUME NEW r, RegionOk(r), r.addr.n = 0,
         NEW first \in Int, NEW last \in Int, 0 <= first, first <= last, last < AddressSpace
  PROVE  (first >= r.addr.base /\ last <= (r.addr.base + GetSize(r.conf)) % 2^ADDR_BITS)
            <=> first .. last \subseteq Covers(r)
<1> DEFINE lo == r.addr.base
           hi == (r.addr.base + GetSize(r.conf)) % 2^ADDR_BITS
<1>1. AddressSpace \in Int /\ AddressSpace > 0 /\ lo \in Int
  BY SmpuBlocks, SmpuAssumption DEF RegionOk
<1>2. hi \in Int
  BY <1>1 DEF RegionOk, AddressSpace
<1>3. Covers(r) = {a \in 0 .. AddressSpace - 1 : lo <= a /\ a <= hi}
  BY DEF Covers, AddressSpace
<1> HIDE DEF lo, hi
<1>4. first \in first .. last /\ last \in first .. last
  OBVIOUS
<1>5. ASSUME first >= lo, last <= hi PROVE first .. last \subseteq Covers(r)
  BY <1>1, <1>2, <1>3, <1>5
<1>6. ASSUME first .. last \subseteq Covers(r) PROVE first >= lo /\ last <= hi
  <2>1. first \in Covers(r) /\ last \in Covers(r)
    BY <1>4, <1>6
  <2> QED BY <1>1, <1>3, <2>1
<1> QED BY <1>5, <1>6 DEF lo, hi

\* A live region that holds the access, where it sends it and what it permits.
Holds(r, acc) == r.conf.attr \cap RWX # {} /\ Bytes(acc) \subseteq Covers(r)

Destination(r, acc) ==
  IF r.addr.n = 0 THEN acc.addr ELSE AlignDown(r.conf.paddr, r.addr.n) + (acc.addr % 2^r.addr.n)

Converted(c, r, level, mode) ==
  IF level = 1 THEN ConvertAttr(c, r.conf.attr, mode) ELSE ConvertAttrHs(c, r.conf.attr)

SearchTraps == {"", "multiple", "runtime_error", "misaligned"}
SearchState(s) == s = [trap |-> s.trap, attr |-> s.attr, addr |-> s.addr] /\ s.trap \in SearchTraps

\* The search has found attributes, or with <<>> nothing yet.
FoundAs(rights, to) == [trap |-> "", attr |-> rights, addr |-> to]

LEMMA FoundState ==
  ASSUME NEW rights, NEW to, NEW s, s = FoundAs(rights, to)
  PROVE  SearchState(s) /\ s.attr = rights /\ s.addr = to
BY DEF SearchState, SearchTraps, FoundAs

LEMMA SearchingState ==
  ASSUME NEW to, NEW s, s = Searching(to)
  PROVE  SearchState(s) /\ s.attr = <<>> /\ s.addr = to
BY DEF SearchState, SearchTraps, Searching

\* Where a region found in state s sends the access.
Onward(s, r, acc) == IF r.addr.n = 0 THEN s.addr ELSE Destination(r, acc)

\* One turn of the search that raises no exception passes over a region that
\* does not hold the access or is the first to find one that does.
TurnFinds(c, s, r, acc, level, mode, t) ==
  /\ SearchState(t)
  /\ t.trap = "" =>
       /\ s.trap = ""
       /\ \/ t = s /\ ~Holds(r, acc)
          \/ /\ s.attr = <<>> /\ Holds(r, acc)
             /\ t = FoundAs(Converted(c, r, level, mode), Onward(s, r, acc))

LEMMA OneRegionFinds ==
  ASSUME NEW c, NEW s, SearchState(s), NEW r, RegionOk(r), NEW acc, AccessOk(acc),
         NEW level, NEW mode, NEW t, t = OneRegion(c, s, r, acc, level, mode)
  PROVE  TurnFinds(c, s, r, acc, level, mode, t)
<1> USE DEF TurnFinds
<1> DEFINE first == acc.addr
           last == LastByte(acc)
           lo == r.addr.base
           hi == (lo + GetSize(r.conf)) % 2^ADDR_BITS
           hit == TranslatedMatch(r, first, last)
           phys == AlignDown(r.conf.paddr, r.addr.n) + (first % 2^r.addr.n)
           found(addr) == Found(c, s, r, level, mode, addr)
           live == r.conf.attr \cap RWX # {}
           in(e) == lo <= e /\ e <= hi
<1>1. /\ (acc.addr + acc.sz - 1) % 2^ADDR_BITS = last
      /\ Bytes(acc) = first .. last
      /\ last \in Int /\ first <= last /\ last < AddressSpace /\ first \in Int /\ 0 <= first
  BY AccessBytes DEF AccessOk
<1>2. /\ s.trap # "" => t = s
      /\ s.trap = "" /\ r.addr.n # 0 =>
           t = IF hit = {} \/ ~live THEN s
               ELSE IF hit = {first, last} \/ s.attr # <<>> THEN found(phys)
                    ELSE [s EXCEPT !.trap = "runtime_error"]
      /\ s.trap = "" /\ r.addr.n = 0 =>
           t = IF first >= lo /\ last <= hi THEN found(s.addr)
               ELSE IF in(first) \/ in(last) THEN Misaligned(s, acc.type) ELSE s
  <2> HIDE DEF last, hi, hit, phys, found
  <2>1. t = CASE s.trap # "" -> s
              [] s.trap = "" /\ r.addr.n # 0 ->
                   IF hit = {} \/ r.conf.attr \cap RWX = {} THEN s
                   ELSE IF hit = {first, last} \/ s.attr # <<>>
                        THEN found(phys)
                        ELSE [s EXCEPT !.trap = "runtime_error"]
              [] OTHER ->
                   IF first >= lo /\ last <= hi THEN found(s.addr)
                   ELSE IF in(first) \/ in(last) THEN Misaligned(s, acc.type) ELSE s
    BY <1>1, Zenon DEF OneRegion, hi, hit, phys, found
  <2> QED BY <2>1
<1>3. ASSUME NEW addr, s.trap = ""
      PROVE  /\ ~live => found(addr) = s
             /\ live /\ s.attr # <<>> => found(addr) = [s EXCEPT !.trap = "multiple"]
             /\ live /\ s.attr = <<>> =>
                  found(addr) = FoundAs(Converted(c, r, level, mode), addr)
  <2> DEFINE conv == Converted(c, r, level, mode)
  <2>1. /\ ~live => found(addr) = s
        /\ live /\ s.attr # <<>> => found(addr) = [s EXCEPT !.trap = "multiple"]
        /\ live /\ s.attr = <<>> => found(addr) = [s EXCEPT !.attr = conv, !.addr = addr]
    BY Zenon DEF Found, Converted
  <2> HIDE DEF conv, live, found
  <2>2. ASSUME NEW u, u = [s EXCEPT !.attr = conv, !.addr = addr]
        PROVE  u = [trap |-> s.trap, attr |-> conv, addr |-> addr]
    BY <2>2 DEF SearchState
  <2> QED BY <1>3, <2>1, <2>2 DEF conv, FoundAs
<1>4. ASSUME NEW trap \in {"multiple", "runtime_error", "misaligned"}, NEW u, u = [s EXCEPT !.trap = trap]
      PROVE  SearchState(u) /\ u.trap # ""
  BY <1>4 DEF SearchState, SearchTraps
<1>5. Misaligned(s, acc.type) = [s EXCEPT !.trap = "runtime_error"]
        \/ Misaligned(s, acc.type) = [s EXCEPT !.trap = "misaligned"]
  BY Zenon DEF Misaligned
<1>6. Holds(r, acc) <=> live /\ first .. last \subseteq Covers(r)
  BY <1>1 DEF Holds
<1>7. CASE s.trap # ""
  BY <1>2, <1>7 DEF SearchState
<1>8. CASE s.trap = "" /\ r.addr.n # 0
  <2>1. hit = {first, last} <=> first .. last \subseteq Covers(r)
    <3> HIDE DEF first, last
    <3>0. last \in Int /\ first \in Int /\ 0 <= first /\ first <= last /\ r.addr.n # 0
      BY <1>1, <1>8
    <3>1. /\ TranslatedMatch(r, first, last) = {first, last} => first .. last \subseteq Covers(r)
          /\ first .. last \subseteq Covers(r) => TranslatedMatch(r, first, last) = {first, last}
      BY <3>0, TranslatedHolds
    <3> QED BY <3>1
  <2>2. Destination(r, acc) = phys
    BY <1>8 DEF Destination
  <2> HIDE DEF hit, live, phys, found
  <2>3. CASE hit = {} \/ ~live
    <3>1. t = s
      BY <1>2, <1>8, <2>3
    <3>2. ~Holds(r, acc)
      BY <1>6, <2>1, <2>3
    <3> QED BY <1>8, <3>1, <3>2
  <2>4. CASE hit # {} /\ live /\ (hit = {first, last} \/ s.attr # <<>>)
    <3>1. t = found(phys)
      BY <1>2, <1>8, <2>4
    <3>2. CASE s.attr # <<>>
      <4>1. t = [s EXCEPT !.trap = "multiple"]
        BY <1>3, <1>8, <2>4, <3>1, <3>2
      <4> QED BY <1>4, <4>1
    <3>3. CASE s.attr = <<>>
      <4>1. t = FoundAs(Converted(c, r, level, mode), Destination(r, acc))
        BY <1>3, <1>8, <2>2, <2>4, <3>1, <3>3
      <4>2. Holds(r, acc)
        BY <1>6, <2>1, <2>4, <3>3
      <4>3. SearchState(t)
        BY <4>1, FoundState
      <4> QED BY <1>8, <3>3, <4>1, <4>2, <4>3 DEF Onward
    <3> QED BY <3>2, <3>3
  <2>5. CASE hit # {} /\ live /\ ~(hit = {first, last} \/ s.attr # <<>>)
    <3>1. t = [s EXCEPT !.trap = "runtime_error"]
      BY <1>2, <1>8, <2>5
    <3> QED BY <1>4, <3>1
  <2> QED BY <2>3, <2>4, <2>5
<1>9. CASE s.trap = "" /\ r.addr.n = 0
  <2>1. (first >= lo /\ last <= hi) <=> first .. last \subseteq Covers(r)
    BY <1>1, <1>9, ProtectedHolds
  <2> DEFINE inside == first >= lo /\ last <= hi
  <2>2. t = IF inside THEN found(s.addr)
            ELSE IF in(first) \/ in(last) THEN Misaligned(s, acc.type) ELSE s
    BY <1>2, <1>9
  <2> HIDE DEF live, found, in, inside
  <2>3. CASE inside
    <3>1. t = found(s.addr)
      BY <2>2, <2>3
    <3>2. CASE ~live
      BY <1>3, <1>6, <1>9, <3>1, <3>2
    <3>3. CASE live /\ s.attr # <<>>
      <4>1. t = [s EXCEPT !.trap = "multiple"]
        BY <1>3, <1>9, <3>1, <3>3
      <4> QED BY <1>4, <4>1
    <3>4. CASE live /\ s.attr = <<>>
      <4>1. t = FoundAs(Converted(c, r, level, mode), s.addr)
        BY <1>3, <1>9, <3>1, <3>4
      <4>2. Holds(r, acc)
        BY <1>6, <2>1, <2>3, <3>4 DEF inside
      <4>3. SearchState(t)
        BY <4>1, FoundState
      <4> QED BY <1>9, <3>4, <4>1, <4>2, <4>3 DEF Onward
    <3> QED BY <3>2, <3>3, <3>4
  <2>4. CASE ~inside /\ (in(first) \/ in(last))
    <3>1. t = Misaligned(s, acc.type)
      BY <2>2, <2>4
    <3> QED BY <1>4, <1>5, <3>1
  <2>5. CASE ~inside /\ ~(in(first) \/ in(last))
    <3>1. t = s
      BY <2>2, <2>5
    <3>2. ~Holds(r, acc)
      BY <1>6, <2>1, <2>5 DEF inside
    <3> QED BY <1>9, <3>1, <3>2
  <2> QED BY <2>3, <2>4, <2>5
<1> QED BY <1>7, <1>8, <1>9

\* f is the search after the first k regions, for each k up to n.
SearchLoop(f, n, c, unit, acc, level, mode) ==
  f = [k \in 0 .. n |->
         IF k = 0 THEN Searching(acc.addr)
         ELSE IF k \in c.mask[unit] THEN OneRegion(c, f[k - 1], c.regions[unit][k], acc, level, mode)
         ELSE f[k - 1]]

LEMMA SearchLoopExists ==
  ASSUME NEW c, NEW unit, NEW acc, NEW level, NEW mode, NEW z \in Nat
  PROVE  \E f : SearchLoop(f, z, c, unit, acc, level, mode)
<1> DEFINE Turn(s, k) == IF k \in c.mask[unit] THEN OneRegion(c, s, c.regions[unit][k], acc, level, mode) ELSE s
           start == Searching(acc.addr)
           Loop(f, n) == f = [k \in 0 .. n |-> IF k = 0 THEN start ELSE Turn(f[k - 1], k)]
           Failing == {n \in Nat : ~ \E f : Loop(f, n)}
<1>0. SUFFICES \E f : Loop(f, z)
  BY DEF SearchLoop
<1> HIDE DEF Turn, start
<1>1. SUFFICES ASSUME Failing # {} PROVE FALSE
  OBVIOUS
<1>2. PICK n \in Failing : \A y \in Failing : n <= y
  BY <1>1, LeastExists
<1>3. n # 0
  <2>1. Loop([k \in 0 .. 0 |-> start], 0)
    OBVIOUS
  <2> QED BY <2>1
<1>4. n \in Nat /\ n - 1 \in Nat /\ ~ (n <= n - 1)
  BY <1>3
<1>5. PICK f : Loop(f, n - 1)
  BY <1>2, <1>4
<1> DEFINE g == [k \in 0 .. n |-> IF k = n THEN Turn(f[n - 1], n) ELSE f[k]]
<1>6. ASSUME NEW k \in 0 .. n
      PROVE  g[k] = IF k = 0 THEN start ELSE Turn(g[k - 1], k)
  <2>1. CASE k = n
    BY <1>3, <1>4, <2>1
  <2>2. CASE k # n
    <3>1. k \in 0 .. n - 1 /\ (k # 0 => k - 1 \in 0 .. n /\ k - 1 # n)
      BY <1>4, <2>2
    <3>2. f[k] = IF k = 0 THEN start ELSE Turn(f[k - 1], k)
      BY <1>5, <3>1
    <3>3. g[k] = f[k] /\ (k # 0 => g[k - 1] = f[k - 1])
      BY <2>2, <3>1
    <3> QED BY <3>2, <3>3
  <2> QED BY <2>1, <2>2
<1>7. Loop(g, n)
  <2>1. g = [k \in 0 .. n |-> g[k]]
    OBVIOUS
  <2> HIDE DEF g
  <2> QED BY <1>6, <2>1
<1> QED BY <1>2, <1>7

\* What the configuration of a unit is.
UnitOk(c, unit) ==
  /\ c.mask[unit] \subseteq DOMAIN c.regions[unit]
  /\ DOMAIN c.regions[unit] = 1 .. Len(c.regions[unit]) /\ Len(c.regions[unit]) \in Nat
  /\ \A i \in DOMAIN c.regions[unit] : RegionOk(c.regions[unit][i])

\* A search that raised no exception over the first k regions found the only one
\* of them that holds the access, or there is none.
SearchRight(c, unit, acc, level, mode, k, s) ==
  /\ SearchState(s)
  /\ s.trap = "" =>
       \/ s = Searching(acc.addr) /\ Holding(c, unit, acc) \cap (1 .. k) = {}
       \/ \E i \in c.mask[unit] :
            /\ Holding(c, unit, acc) \cap (1 .. k) = {i}
            /\ s = FoundAs(Converted(c, c.regions[unit][i], level, mode),
                    Destination(c.regions[unit][i], acc))

\* Attributes found are told from none.
LEMMA ConvertedIsFound ==
  ASSUME NEW c, NEW r, RegionOk(r), NEW level, NEW mode
  PROVE  Converted(c, r, level, mode) # <<>>
<1> DEFINE attr == r.conf.attr
<1>1. attr \subseteq SmpuAttributes
  BY DEF RegionOk
<1>2. ASSUME NEW s, NEW u PROVE [s |-> s, u |-> u] # <<>>
  OBVIOUS
<1>3. IsShared(attr) => attr \in {{"W"}, {"U", "W"}, {"W", "X"}, {"U", "W", "X"}}
  BY <1>1 DEF IsShared, SmpuAttributes
<1>4. IsShared(attr) => Shared(attr) # <<>>
  BY <1>2, <1>3 DEF Shared
<1>5. ConvertAttr(c, attr, mode) # <<>>
  BY <1>2, <1>4 DEF ConvertAttr
<1>6. ConvertAttrHs(c, attr) # <<>>
  BY <1>2, <1>4 DEF ConvertAttrHs
<1> QED BY <1>5, <1>6 DEF Converted

LEMMA SearchTurnRight ==
  ASSUME NEW c, NEW unit, UnitOk(c, unit), NEW acc, AccessOk(acc), NEW level, NEW mode,
         NEW k \in 1 .. Len(c.regions[unit]), NEW s, SearchRight(c, unit, acc, level, mode, k - 1, s),
         NEW t,
         t = IF k \in c.mask[unit] THEN OneRegion(c, s, c.regions[unit][k], acc, level, mode) ELSE s
  PROVE  SearchRight(c, unit, acc, level, mode, k, t)
<1> DEFINE H == Holding(c, unit, acc)
           r == c.regions[unit][k]
<1>1. k \in Nat /\ k \in DOMAIN c.regions[unit] /\ RegionOk(r)
  BY DEF UnitOk
<1>2. k \in H <=> k \in c.mask[unit] /\ Holds(r, acc)
  BY DEF Holding, Holds
<1>3. H \subseteq c.mask[unit]
  BY DEF Holding
<1>4. ASSUME k \notin H PROVE H \cap (1 .. k) = H \cap (1 .. k - 1)
  BY <1>1, <1>4
<1>5. ASSUME k \in H, H \cap (1 .. k - 1) = {} PROVE H \cap (1 .. k) = {k}
  BY <1>1, <1>5
<1> HIDE DEF H
<1>6. SearchState(s)
  BY DEF SearchRight
<1>7. ASSUME t = s, k \notin H PROVE SearchRight(c, unit, acc, level, mode, k, t)
  BY <1>4, <1>7 DEF SearchRight, H
<1>8. CASE k \notin c.mask[unit]
  BY <1>2, <1>7, <1>8
<1>9. CASE k \in c.mask[unit]
  <2>1. t = OneRegion(c, s, r, acc, level, mode)
    BY <1>9
  <2>2. TurnFinds(c, s, r, acc, level, mode, t)
    <3> HIDE DEF r
    <3> QED BY <1>1, <1>6, <2>1, OneRegionFinds
  <2>3. CASE t.trap # ""
    BY <2>2, <2>3 DEF SearchRight, TurnFinds
  <2>4. CASE t.trap = "" /\ t = s /\ ~Holds(r, acc)
    BY <1>2, <1>7, <2>4
  <2>5. CASE /\ t.trap = "" /\ s.attr = <<>> /\ Holds(r, acc)
             /\ t = FoundAs(Converted(c, r, level, mode), Onward(s, r, acc))
    <3>1. s.trap = ""
      BY <2>2, <2>5 DEF TurnFinds
    <3>2. s = Searching(acc.addr) /\ H \cap (1 .. k - 1) = {}
      <4>1. ASSUME NEW i \in c.mask[unit],
                   s = FoundAs(Converted(c, c.regions[unit][i], level, mode),
                        Destination(c.regions[unit][i], acc))
            PROVE  FALSE
        <5>1. RegionOk(c.regions[unit][i])
          BY DEF UnitOk
        <5>2. s.attr = Converted(c, c.regions[unit][i], level, mode)
          BY <4>1, FoundState
        <5> QED BY <2>5, <5>1, <5>2, ConvertedIsFound
      <4> QED BY <3>1, <4>1 DEF SearchRight, H
    <3>3. s.addr = acc.addr
      BY <3>2, SearchingState
    <3>4. t = FoundAs(Converted(c, r, level, mode), Destination(r, acc))
      BY <2>5, <3>3 DEF Destination, Onward
    <3>5. H \cap (1 .. k) = {k}
      BY <1>2, <1>5, <1>9, <2>5, <3>2
    <3> QED BY <1>9, <2>2, <3>4, <3>5 DEF SearchRight, TurnFinds, H
  <2> QED BY <2>2, <2>3, <2>4, <2>5 DEF TurnFinds
<1> QED BY <1>8, <1>9

LEMMA SearchLoopRight ==
  ASSUME NEW c, NEW unit, UnitOk(c, unit), NEW acc, AccessOk(acc), NEW level, NEW mode,
         NEW f, SearchLoop(f, Len(c.regions[unit]), c, unit, acc, level, mode)
  PROVE  SearchRight(c, unit, acc, level, mode, Len(c.regions[unit]), f[Len(c.regions[unit])])
<1> DEFINE z == Len(c.regions[unit])
           Right(k) == SearchRight(c, unit, acc, level, mode, k, f[k])
           Failing == {k \in 0 .. z : ~Right(k)}
<1>0. z \in Nat
  BY DEF UnitOk
<1>1. SUFFICES ASSUME Failing # {} PROVE FALSE
  BY <1>0
<1>2. PICK n \in Failing : \A y \in Failing : n <= y
  <2>1. Failing \subseteq Nat
    BY <1>0
  <2> HIDE DEF Failing
  <2> QED BY <1>1, <2>1, LeastExists
<1>3. n # 0
  <2>1. f[0] = Searching(acc.addr)
    BY <1>0 DEF SearchLoop
  <2>2. SearchState(f[0])
    BY <2>1, SearchingState
  <2>3. Holding(c, unit, acc) \cap (1 .. 0) = {}
    OBVIOUS
  <2>4. Right(0)
    BY <2>1, <2>2, <2>3 DEF SearchRight
  <2> QED BY <2>4
<1>4. n \in 1 .. z /\ n - 1 \in 0 .. z /\ ~ (n <= n - 1)
  BY <1>0, <1>3
<1>5. Right(n - 1)
  BY <1>2, <1>4
<1>6. f[n] = IF n \in c.mask[unit] THEN OneRegion(c, f[n - 1], c.regions[unit][n], acc, level, mode)
             ELSE f[n - 1]
  <2>1. n \in 0 .. Len(c.regions[unit]) /\ n # 0
    BY <1>4
  <2> QED BY <2>1 DEF SearchLoop
<1>7. Right(n)
  BY <1>4, <1>5, <1>6, SearchTurnRight
<1> QED BY <1>2, <1>7

\* A search without an exception found the attributes and the destination of the
\* only region that holds the access, or there is none.
SearchExact(c, unit, acc, level, mode, s) ==
  /\ SearchState(s)
  /\ s.trap = "" /\ s.attr = <<>> => Holding(c, unit, acc) = {}
  /\ s.trap = "" /\ s.attr # <<>> =>
       \E i \in c.mask[unit] :
         /\ Holding(c, unit, acc) = {i}
         /\ s.attr = Converted(c, c.regions[unit][i], level, mode)
         /\ s.addr = Destination(c.regions[unit][i], acc)

LEMMA SearchIsRight ==
  ASSUME NEW c, NEW unit, UnitOk(c, unit), NEW acc, AccessOk(acc), NEW level, NEW mode,
         NEW s, s = FindMatchingEntry(c, unit, acc, level, mode)
  PROVE  SearchExact(c, unit, acc, level, mode, s)
<1> DEFINE z == Len(c.regions[unit])
           after == CHOOSE f : SearchLoop(f, z, c, unit, acc, level, mode)
<1>1. s = after[z]
  BY DEF FindMatchingEntry, SearchLoop
<1>2. z \in Nat
  BY DEF UnitOk
<1>3. SearchLoop(after, z, c, unit, acc, level, mode)
  BY <1>2, SearchLoopExists
<1> HIDE DEF after
<1>4. SearchRight(c, unit, acc, level, mode, z, s)
  BY <1>1, <1>3, SearchLoopRight
<1>5. Holding(c, unit, acc) \cap (1 .. z) = Holding(c, unit, acc)
  BY DEF UnitOk, Holding
<1>6. SearchState(s)
  BY <1>4 DEF SearchRight
<1> DEFINE found(i) == /\ Holding(c, unit, acc) = {i}
                       /\ s = FoundAs(Converted(c, c.regions[unit][i], level, mode),
                               Destination(c.regions[unit][i], acc))
<1>7. ASSUME s.trap = "", s.attr = <<>> PROVE Holding(c, unit, acc) = {}
  <2>1. ASSUME NEW i \in c.mask[unit], found(i) PROVE FALSE
    <3>1. RegionOk(c.regions[unit][i])
      BY DEF UnitOk
    <3>2. s.attr = Converted(c, c.regions[unit][i], level, mode)
      BY <2>1, FoundState
    <3> QED BY <1>7, <3>1, <3>2, ConvertedIsFound
  <2> QED BY <1>4, <1>5, <1>7, <2>1 DEF SearchRight
<1>8. ASSUME s.trap = "", s.attr # <<>>
      PROVE  \E i \in c.mask[unit] :
                /\ Holding(c, unit, acc) = {i}
                /\ s.attr = Converted(c, c.regions[unit][i], level, mode)
                /\ s.addr = Destination(c.regions[unit][i], acc)
  <2>1. s # Searching(acc.addr)
    BY <1>8, SearchingState
  <2>2. PICK i \in c.mask[unit] : found(i)
    BY <1>4, <1>5, <1>8, <2>1 DEF SearchRight
  <2>3. /\ s.attr = Converted(c, c.regions[unit][i], level, mode)
        /\ s.addr = Destination(c.regions[unit][i], acc)
    BY <2>2, FoundState
  <2> QED BY <2>2, <2>3
<1> QED BY <1>6, <1>7, <1>8 DEF SearchExact

AccessModes == {"S", "U", "VS", "VU"}

RightsOf(conv, mode) == IF mode \in {"S", "VS"} THEN conv.s ELSE conv.u

\* The converted attributes hold the rights a region gives.
LEMMA ConvertedRights ==
  ASSUME NEW c, NEW r, r.conf.attr \subseteq SmpuAttributes, NEW level \in {1, 2},
         NEW mode \in AccessModes, NEW right \in RWX,
         NEW conv, conv = Converted(c, r, level, mode)
  PROVE  right \in RightsOf(conv, mode) <=> GivesRight(c, level, r.conf.attr, right, mode)
<1> DEFINE attr == r.conf.attr
           user == mode \in {"U", "VU"}
           sum == (CASE level = 2 -> "h" [] level # 2 /\ mode \in {"VS", "VU"} -> "vs" [] OTHER -> "s")
                  \in c.sum
           rights == RightsOf(conv, mode)
           own == /\ right \in attr
                  /\ user => "U" \in attr
                  /\ ~user /\ "U" \in attr => IF level = 1 THEN sum /\ right # "X" ELSE ~sum
<1>1. rights = IF user THEN conv.u ELSE conv.s
  BY DEF AccessModes, RightsOf
<1>2. GivesRight(c, level, attr, right, mode) =
        IF IsShared(attr) /\ (level = 1 \/ sum) THEN SharedGrants(attr, right, user) ELSE own
  BY Zenon DEF GivesRight
<1>3. right \in attr <=> right \in attr \cap RWX
  OBVIOUS
<1>4. /\ level = 1 => conv = ConvertAttr(c, attr, mode)
      /\ level = 2 => conv = ConvertAttrHs(c, attr)
  BY DEF Converted
<1>5. /\ level = 1 => (sum <=> (IF mode \in {"VS", "VU"} THEN "vs" ELSE "s") \in c.sum)
      /\ level = 2 => (sum <=> "h" \in c.sum)
  OBVIOUS
<1>6. attr \subseteq SmpuAttributes
  OBVIOUS
<1> HIDE DEF attr, sum
<1>7. CASE IsShared(attr) /\ (level = 1 \/ sum)
  <2>1. conv = Shared(attr)
    <3>1. CASE level = 1
      BY <1>4, <1>7, <3>1, Zenon DEF ConvertAttr
    <3>2. CASE level = 2
      <4>1. sum /\ 2 # 1
        BY <1>7, <3>2
      <4> QED BY <1>4, <1>5, <1>7, <3>2, <4>1, Zenon DEF ConvertAttrHs
    <3> QED BY <3>1, <3>2
  <2>2. attr \in {{"W"}, {"U", "W"}, {"W", "X"}, {"U", "W", "X"}}
    BY <1>6, <1>7 DEF IsShared, SmpuAttributes
  <2>3. /\ right \in conv.u <=> SharedGrants(attr, right, TRUE)
        /\ right \in conv.s <=> SharedGrants(attr, right, FALSE)
    <3>1. CASE attr = {"W"}
      <4>1. conv = [s |-> {"R"}, u |-> {"R"}]
        BY <2>1, <3>1 DEF Shared
      <4>2. attr # {"W", "X"} /\ attr # {"U", "W"} /\ "X" \notin attr
        BY <3>1
      <4> QED BY <4>1, <4>2 DEF SharedGrants, RWX
    <3>2. CASE attr = {"U", "W"}
      BY <2>1, <3>2 DEF Shared, SharedGrants, RWX
    <3>3. CASE attr = {"W", "X"}
      BY <2>1, <3>3 DEF Shared, SharedGrants, RWX
    <3>4. CASE attr = {"U", "W", "X"}
      BY <2>1, <3>4 DEF Shared, SharedGrants, RWX
    <3> QED BY <2>2, <3>1, <3>2, <3>3, <3>4
  <2>4. SharedGrants(attr, right, user) <=> right \in rights
    <3>1. CASE user
      <4>1. user = TRUE
        BY <3>1
      <4> HIDE DEF user
      <4> QED BY <1>1, <2>3, <4>1
    <3>2. CASE ~user
      <4>1. user = FALSE
        BY <3>2
      <4> HIDE DEF user
      <4> QED BY <1>1, <2>3, <4>1
    <3> QED BY <3>1, <3>2
  <2> HIDE DEF user, own
  <2> QED BY <1>2, <1>7, <2>4 DEF attr
<1>8. CASE level = 1 /\ ~IsShared(attr)
  <2>1. "U" \notin attr => conv = [s |-> attr \cap RWX, u |-> {}]
    BY <1>4, <1>8, Zenon DEF ConvertAttr
  <2>2. "U" \in attr =>
          conv = [s |-> IF sum THEN attr \cap RWX \cap {"R", "W"} ELSE {}, u |-> attr \cap RWX]
    <3> DEFINE sum1 == (IF mode \in {"VS", "VU"} THEN "vs" ELSE "s") \in c.sum
    <3>1. "U" \in attr =>
            conv = [s |-> IF sum1 THEN attr \cap RWX \cap {"R", "W"} ELSE {}, u |-> attr \cap RWX]
      BY <1>4, <1>8, Zenon DEF ConvertAttr
    <3>2. sum1 <=> sum
      BY <1>5, <1>8
    <3> HIDE DEF sum1
    <3> QED BY <3>1, <3>2
  <2>3. right \in rights <=> own
    <3> HIDE DEF user
    <3>1. CASE "U" \notin attr
      BY <1>1, <1>3, <1>8, <2>1, <3>1 DEF RWX
    <3>2. CASE "U" \in attr
      BY <1>1, <1>3, <1>8, <2>2, <3>2 DEF RWX
    <3> QED BY <3>1, <3>2
  <2> HIDE DEF user, own
  <2> QED BY <1>2, <1>8, <2>3 DEF attr
<1>9. CASE level = 2 /\ ~(IsShared(attr) /\ sum)
  <2>0. level # 1
    BY <1>9
  <2>1. sum /\ "U" \in attr => conv = [s |-> {}, u |-> attr \cap RWX]
    BY <1>4, <1>5, <1>9, Zenon DEF ConvertAttrHs
  <2>2. sum /\ "U" \notin attr => conv = [s |-> attr \cap RWX, u |-> {}]
    BY <1>4, <1>5, <1>9, Zenon DEF ConvertAttrHs
  <2>3. ~sum /\ "U" \in attr => conv = [s |-> attr \cap RWX, u |-> attr \cap RWX]
    BY <1>4, <1>5, <1>9, Zenon DEF ConvertAttrHs
  <2>4. ~sum /\ "U" \notin attr => conv = [s |-> attr \cap RWX, u |-> {}]
    BY <1>4, <1>5, <1>9, Zenon DEF ConvertAttrHs
  <2>5. right \in rights <=> own
    <3> HIDE DEF user
    <3> QED BY <1>1, <1>3, <2>0, <2>1, <2>2, <2>3, <2>4
  <2> HIDE DEF user, own
  <2> QED BY <1>2, <1>9, <2>0, <2>5 DEF attr
<1> QED BY <1>7, <1>8, <1>9

\* The check of the converted attributes asks for a right that the access needs
\* and the region gives.
LEMMA AllowedIsGranted ==
  ASSUME NEW c, NEW r, r.conf.attr \subseteq SmpuAttributes, NEW level \in {1, 2},
         NEW mode \in AccessModes, NEW acc, acc.type \in AccessTypes, acc.hlvx => acc.type = "LOAD"
  PROVE  AllowedForSu(c, Converted(c, r, level, mode), acc, mode, level)
           <=> GrantedBy(c, level, r, acc, mode)
<1> DEFINE conv == Converted(c, r, level, mode)
           a == IF mode \in {"S", "VS"} THEN conv.s ELSE conv.u
           mxr == (IF level = 1 /\ mode \in {"VS", "VU"} THEN "vs" ELSE "s") \in c.mxr
           Gives(right) == GivesRight(c, level, r.conf.attr, right, mode)
<1>1. \A right \in RWX : right \in a <=> Gives(right)
  <2> SUFFICES ASSUME NEW right \in RWX PROVE right \in a <=> Gives(right)
    OBVIOUS
  <2>1. conv = Converted(c, r, level, mode)
    OBVIOUS
  <2> HIDE DEF conv
  <2>2. right \in RightsOf(conv, mode) <=> GivesRight(c, level, r.conf.attr, right, mode)
    BY <2>1, ConvertedRights
  <2> QED BY <2>2 DEF RightsOf
<1>2. AllowedForSu(c, conv, acc, mode, level) =
        CASE acc.type = "FETCH" \/ acc.hlvx -> "X" \in a
          [] acc.type = "LOAD" /\ ~acc.hlvx -> "R" \in a \/ (mxr /\ "X" \in a)
          [] OTHER -> "W" \in a
  <2> HIDE DEF conv
  <2> QED BY Zenon DEF AllowedForSu
<1>3. Needs(c, level, acc, mode) =
        CASE acc.type = "FETCH" \/ acc.hlvx -> {"X"}
          [] acc.type = "STORE" -> {"W"}
          [] OTHER -> IF mxr THEN {"R", "X"} ELSE {"R"}
  BY Zenon DEF Needs
<1>4. GrantedBy(c, level, r, acc, mode) <=> \E right \in Needs(c, level, acc, mode) : Gives(right)
  BY DEF GrantedBy
<1>5. "R" \in RWX /\ "W" \in RWX /\ "X" \in RWX
  BY DEF RWX
<1> HIDE DEF conv, a, mxr, Gives
<1>6. CASE acc.type = "FETCH" \/ acc.hlvx
  <2>1. AllowedForSu(c, conv, acc, mode, level) = ("X" \in a) /\ Needs(c, level, acc, mode) = {"X"}
    BY <1>2, <1>3, <1>6, Zenon
  <2> QED BY <1>1, <1>4, <1>5, <2>1, Zenon DEF conv
<1>7. CASE acc.type = "STORE" /\ ~acc.hlvx
  <2>1. acc.type # "FETCH" /\ acc.type # "LOAD"
    BY <1>7
  <2>2. AllowedForSu(c, conv, acc, mode, level) = ("W" \in a) /\ Needs(c, level, acc, mode) = {"W"}
    BY <1>2, <1>3, <1>7, <2>1, Zenon
  <2> QED BY <1>1, <1>4, <1>5, <2>2, Zenon DEF conv
<1>8. CASE acc.type = "LOAD" /\ ~acc.hlvx
  <2>1. acc.type # "FETCH" /\ acc.type # "STORE"
    BY <1>8
  <2>2. /\ AllowedForSu(c, conv, acc, mode, level) = ("R" \in a \/ (mxr /\ "X" \in a))
        /\ Needs(c, level, acc, mode) = IF mxr THEN {"R", "X"} ELSE {"R"}
    BY <1>2, <1>3, <1>8, <2>1, Zenon
  <2>3. CASE mxr
    <3>1. Needs(c, level, acc, mode) = {"R", "X"}
      BY <2>2, <2>3
    <3> QED BY <1>1, <1>4, <1>5, <2>2, <2>3, <3>1, Zenon DEF conv
  <2>4. CASE ~mxr
    <3>1. Needs(c, level, acc, mode) = {"R"}
      BY <2>2, <2>4
    <3> QED BY <1>1, <1>4, <1>5, <2>2, <2>4, <3>1, Zenon DEF conv
  <2> QED BY <2>3, <2>4
<1> QED BY <1>6, <1>7, <1>8 DEF AccessTypes

\* Where a region that holds an access sends it.
LEMMA DestinationRight ==
  ASSUME NEW r, RegionOk(r), NEW acc, AccessOk(acc), Bytes(acc) \subseteq Covers(r)
  PROVE  /\ LeadsTo(r, acc, Destination(r, acc))
         /\ Destination(r, acc) \in Nat /\ Destination(r, acc) + acc.sz <= AddressSpace
<1> DEFINE n == r.addr.n
           k == 2^r.addr.n
           first == acc.addr
           last == LastByte(acc)
           p == r.conf.paddr
           d == Destination(r, acc)
<1>1. /\ first \in Nat /\ acc.sz \in Nat /\ acc.sz > 0 /\ first + acc.sz <= AddressSpace
      /\ n \in 0 .. ADDR_BITS /\ p \in 0 .. AddressSpace - 1
  BY DEF AccessOk, RegionOk
<1>2. CASE n = 0
  BY <1>1, <1>2 DEF Destination, LeadsTo
<1>3. CASE n # 0
  <2>1. d = AlignDown(p, n) + (first % k)
    BY <1>3 DEF Destination
  <2>2. k \in Int /\ k > 0 /\ AddressSpace \in Int
    BY <1>1, SmpuBlocks
  <2>3. PICK m \in Int : AddressSpace = k * m
    BY <1>1, SmpuBlocks
  <2>4. AlignDown(p, n) = k * (p \div k) /\ AlignDown(p, n) \in 0 .. p /\ p \div k \in Int
    <3>1. p \in Nat
      BY <1>1, <2>2
    <3> QED BY <1>1, <3>1, AlignDownFacts
  <2>5. /\ Bytes(acc) = first .. last /\ last \in Int /\ first <= last
        /\ last = first + acc.sz - 1
    BY <1>1, AccessBytes DEF LastByte
  <2>6. first \div k = last \div k
    <3> HIDE DEF first, last
    <3>1. first .. last \subseteq Covers(r) /\ first \in Int /\ 0 <= first
      BY <1>1, <2>5
    <3> QED BY <1>3, <2>5, <3>1, TranslatedHolds
  <2>7. d \in Int
    BY <1>1, <2>1, <2>2, <2>4
  <2> DEFINE lead == /\ d % k = first % k
                     /\ d \div k = p \div k
  <2>8. lead => LeadsTo(r, acc, d)
    BY <1>3 DEF LeadsTo
  <2>9. AddressSpace > p /\ p >= 0 /\ p \in Int
    BY <1>1, <2>2
  <2> HIDE DEF n, k, first, last, p, d
  <2>10. first % k \in 0 .. k - 1 /\ first = k * (first \div k) + (first % k) /\ first \div k \in Int
    BY <1>1, <2>2, DivMod
  <2>11. last % k \in 0 .. k - 1 /\ last = k * (last \div k) + (last % k)
    BY <2>2, <2>5, DivMod
  <2>12. lead
    <3> DEFINE q == p \div k
               x == first % k
    <3>1. d = k * q + x /\ q \in Int /\ x \in 0 .. k - 1
      BY <2>1, <2>4, <2>10
    <3>2. SUFFICES d % k = x /\ d \div k = q
      OBVIOUS
    <3> HIDE DEF q, x
    <3> QED BY <2>2, <3>1, DivOfSum
  <2>13. (first % k) + acc.sz <= k
    <3> DEFINE block == k * (first \div k)
               x == first % k
               y == last % k
    <3>1. /\ block \in Int /\ x \in 0 .. k - 1 /\ y \in 0 .. k - 1
          /\ first = block + x /\ last = block + y
      BY <2>2, <2>6, <2>10, <2>11
    <3> HIDE DEF block, x, y
    <3>2. x + acc.sz <= k
      BY <1>1, <2>2, <2>5, <3>1
    <3> QED BY <3>2 DEF x
  <2>14. k * (p \div k) + k <= k * m
    <3>1. k * (p \div k) < k * m
      BY <2>3, <2>4, <2>9
    <3> QED BY <2>2, <2>3, <2>4, <3>1, BlockFits
  <2>15. d + acc.sz <= AddressSpace
    <3>1. d = k * (p \div k) + (first % k) /\ k * (p \div k) \in Int
      BY <2>1, <2>2, <2>4
    <3>2. k * m \in Int /\ first % k \in Int
      BY <2>2, <2>3, <2>10
    <3> QED BY <1>1, <2>2, <2>3, <2>13, <2>14, <3>1, <3>2
  <2>16. d \in Nat
    BY <2>1, <2>4, <2>7, <2>10
  <2> QED BY <2>8, <2>12, <2>15, <2>16 DEF d
<1> QED BY <1>2, <1>3

LEMMA OutcomeFields ==
  ASSUME NEW v, NEW a, NEW out, out = Outcome(v, a)
  PROVE  out.verdict = v /\ out.addr = a
BY DEF Outcome

\* An address an access of this size can have.
Fits(addr, acc) == addr \in Nat /\ addr + acc.sz <= AddressSpace

\* A search passes what the one region that holds it grants, and refuses with a
\* fault what no region holds alone and grants.
LEMMA SearchedRight ==
  ASSUME NEW c, NEW level \in {1, 2}, NEW mode \in AccessModes, NEW unit, unit = Unit(level, mode),
         UnitOk(c, unit), NEW acc, AccessOk(acc), acc.type \in AccessTypes,
         acc.hlvx => acc.type = "LOAD",
         NEW out, out = Searched(c, unit, acc, level, mode)
  PROVE  /\ out.verdict = "pass" =>
              /\ \E i \in c.mask[unit] : /\ Grantor(c, level, acc, mode, i)
                                         /\ LeadsTo(c.regions[unit][i], acc, out.addr)
              /\ Fits(out.addr, acc)
         /\ out.verdict = "fault" => \A i \in c.mask[unit] : ~Grantor(c, level, acc, mode, i)
         /\ out.verdict # "paged"
<1> DEFINE s == FindMatchingEntry(c, unit, acc, level, mode)
           allowed == AllowedForSu(c, s.attr, acc, mode, level)
<1>1. out = CASE s.trap # "" -> Outcome(s.trap, s.addr)
              [] s.trap = "" /\ s.attr = <<>> -> Outcome("fault", s.addr)
              [] OTHER -> Outcome(IF allowed THEN "pass" ELSE "fault", s.addr)
  BY Zenon DEF Searched
<1>2. s = FindMatchingEntry(c, unit, acc, level, mode)
  OBVIOUS
<1> HIDE DEF s
<1>3. SearchExact(c, unit, acc, level, mode, s)
  BY <1>2, SearchIsRight
<1>4. s.trap \notin {"pass", "fault", "paged"}
  BY <1>3 DEF SearchExact, SearchState, SearchTraps
<1> HIDE DEF allowed
<1>5. CASE s.trap # ""
  <2>1. out = Outcome(s.trap, s.addr)
    BY <1>1, <1>5
  <2>2. out.verdict = s.trap
    BY <2>1, OutcomeFields
  <2> QED BY <1>4, <2>2
<1>6. CASE s.trap = "" /\ s.attr = <<>>
  <2>1. out = Outcome("fault", s.addr)
    BY <1>1, <1>6
  <2>2. out.verdict = "fault"
    BY <2>1, OutcomeFields
  <2>3. Holding(c, unit, acc) = {}
    BY <1>3, <1>6 DEF SearchExact
  <2>4. ASSUME NEW i, Grantor(c, level, acc, mode, i) PROVE FALSE
    <3>1. Holding(c, unit, acc) = {i}
      BY <2>4 DEF Grantor
    <3> QED BY <2>3, <3>1
  <2> QED BY <2>2, <2>4
<1>7. CASE s.trap = "" /\ s.attr # <<>>
  <2>1. out = Outcome(IF allowed THEN "pass" ELSE "fault", s.addr)
    BY <1>1, <1>7
  <2>2. out.verdict = (IF allowed THEN "pass" ELSE "fault") /\ out.addr = s.addr
    BY <2>1, OutcomeFields
  <2>3. PICK i \in c.mask[unit] :
          /\ Holding(c, unit, acc) = {i}
          /\ s.attr = Converted(c, c.regions[unit][i], level, mode)
          /\ s.addr = Destination(c.regions[unit][i], acc)
    BY <1>3, <1>7 DEF SearchExact
  <2> DEFINE r == c.regions[unit][i]
  <2>4. RegionOk(r) /\ Bytes(acc) \subseteq Covers(r)
    BY <2>3 DEF UnitOk, Holding
  <2>5. LeadsTo(r, acc, out.addr) /\ Fits(out.addr, acc)
    <3>1. out.addr = Destination(r, acc)
      BY <2>2, <2>3
    <3> HIDE DEF r
    <3>2. /\ LeadsTo(r, acc, Destination(r, acc))
          /\ Destination(r, acc) \in Nat /\ Destination(r, acc) + acc.sz <= AddressSpace
      BY <2>4, DestinationRight
    <3> QED BY <3>1, <3>2 DEF Fits
  <2>6. allowed <=> GrantedBy(c, level, r, acc, mode)
    <3>1. r.conf.attr \subseteq SmpuAttributes
      BY <2>4 DEF RegionOk
    <3>2. allowed <=> AllowedForSu(c, Converted(c, r, level, mode), acc, mode, level)
      BY <2>3 DEF allowed
    <3> HIDE DEF r
    <3> QED BY <3>1, <3>2, AllowedIsGranted
  <2>7. CASE allowed
    <3>1. Grantor(c, level, acc, mode, i)
      BY <2>3, <2>6, <2>7 DEF Grantor
    <3> QED BY <2>2, <2>5, <2>7, <3>1
  <2>8. CASE ~allowed
    <3>1. ASSUME NEW j, Grantor(c, level, acc, mode, j) PROVE FALSE
      <4>1. Holding(c, unit, acc) = {j} /\ GrantedBy(c, level, c.regions[unit][j], acc, mode)
        BY <3>1 DEF Grantor
      <4>2. j = i
        BY <2>3, <4>1
      <4> QED BY <2>6, <2>8, <4>1, <4>2
    <3> QED BY <2>2, <2>8, <3>1
  <2> QED BY <2>7, <2>8
<1> QED BY <1>5, <1>6, <1>7

\* One level passes or refuses exactly.
LEMMA LevelRight ==
  ASSUME NEW c, NEW level \in {1, 2}, NEW mode \in AccessModes, UnitOk(c, Unit(level, mode)),
         NEW acc, AccessOk(acc), acc.type \in AccessTypes, acc.hlvx => acc.type = "LOAD",
         NEW out, out = DoSmpuCheck(c, acc, level, mode)
  PROVE  /\ out.verdict = "pass" => Passes(c, level, acc, mode, out.addr)
         /\ out.verdict = "fault" => Refuses(c, level, acc, mode)
         /\ out.verdict \in {"pass", "paged"} => Fits(out.addr, acc)
<1> DEFINE unit == Unit(level, mode)
<1>1. mode # "M" /\ Fits(acc.addr, acc)
  BY DEF AccessModes, AccessOk, Fits
<1>2. ASSUME NEW v, out = Outcome(v, acc.addr) PROVE out.verdict = v /\ out.addr = acc.addr
  BY <1>2, OutcomeFields
<1>3. CASE level = 2 /\ mode \in {"S", "U"}
  <2>1. out = Outcome("pass", acc.addr)
    BY <1>3, Zenon DEF DoSmpuCheck
  <2>2. Unrestricted(c, level, mode)
    BY <1>3 DEF Unrestricted
  <2> QED BY <1>1, <1>2, <2>1, <2>2 DEF Passes
<1>4. CASE ~(level = 2 /\ mode \in {"S", "U"}) /\ unit \in c.paged
  <2>1. out = Outcome("paged", acc.addr)
    BY <1>1, <1>4, Zenon DEF DoSmpuCheck
  <2> QED BY <1>1, <1>2, <2>1
<1>5. CASE ~(level = 2 /\ mode \in {"S", "U"}) /\ unit \notin c.paged
  <2>1. out = IF unit = "vs" /\ ~c.connected THEN Outcome("pass", acc.addr)
              ELSE IF c.mask[unit] # {} THEN Searched(c, unit, acc, level, mode)
              ELSE Outcome(IF mode \in {"S", "VS"} THEN "pass" ELSE "fault", acc.addr)
    BY <1>1, <1>5, Zenon DEF DoSmpuCheck
  <2>2. unit = Unit(level, mode)
    OBVIOUS
  <2> HIDE DEF unit
  <2>3. CASE unit = "vs" /\ ~c.connected
    <3>1. out = Outcome("pass", acc.addr)
      BY <2>1, <2>3
    <3>2. Unrestricted(c, level, mode)
      BY <2>2, <2>3 DEF Unrestricted
    <3> QED BY <1>1, <1>2, <3>1, <3>2 DEF Passes
  <2>4. CASE ~(unit = "vs" /\ ~c.connected) /\ c.mask[unit] # {}
    <3>1. out = Searched(c, unit, acc, level, mode)
      BY <2>1, <2>4
    <3>2. ~Unrestricted(c, level, mode)
      BY <1>5, <2>2, <2>4 DEF Unrestricted
    <3>3. UnitOk(c, unit)
      BY <2>2
    <3>4. /\ out.verdict = "pass" =>
              /\ \E i \in c.mask[unit] : /\ Grantor(c, level, acc, mode, i)
                                         /\ LeadsTo(c.regions[unit][i], acc, out.addr)
              /\ Fits(out.addr, acc)
          /\ out.verdict = "fault" => \A i \in c.mask[unit] : ~Grantor(c, level, acc, mode, i)
          /\ out.verdict # "paged"
      BY <2>2, <3>1, <3>3, SearchedRight
    <3> QED BY <2>2, <3>2, <3>4 DEF Passes, Refuses
  <2>5. CASE ~(unit = "vs" /\ ~c.connected) /\ c.mask[unit] = {} /\ mode \in {"S", "VS"}
    <3>1. out = Outcome("pass", acc.addr)
      BY <2>1, <2>5
    <3>2. Unrestricted(c, level, mode)
      BY <2>2, <2>5 DEF Unrestricted
    <3> QED BY <1>1, <1>2, <3>1, <3>2 DEF Passes
  <2>6. CASE ~(unit = "vs" /\ ~c.connected) /\ c.mask[unit] = {} /\ mode \notin {"S", "VS"}
    <3>1. out = Outcome("fault", acc.addr)
      BY <2>1, <2>6
    <3>2. ~Unrestricted(c, level, mode)
      BY <1>5, <2>2, <2>6 DEF Unrestricted
    <3> QED BY <1>2, <2>2, <2>6, <3>1, <3>2 DEF Refuses
  <2> QED BY <2>3, <2>4, <2>5, <2>6
<1> QED BY <1>3, <1>4, <1>5

\* A unit's registers hold what software can write to them.
LEMMA CoreUnits ==
  ASSUME NEW c \in SmpuCores, NEW unit \in SmpuUnits
  PROVE  UnitOk(c, unit)
<1>1. c.regions[unit] \in Seq(SmpuRegionType) /\ c.mask[unit] \subseteq DOMAIN c.regions[unit]
  BY SmpuAssumption
<1>2. ASSUME NEW i \in DOMAIN c.regions[unit] PROVE RegionOk(c.regions[unit][i])
  <2>1. c.regions[unit][i] \in SmpuRegionType
    BY <1>1
  <2> QED BY <2>1, RegionTyped
<1>3. DOMAIN c.regions[unit] = 1 .. Len(c.regions[unit]) /\ Len(c.regions[unit]) \in Nat
  BY <1>1
<1> QED BY <1>1, <1>2, <1>3 DEF UnitOk

\* The access that the first level hands to the second.
LEMMA OnwardOk ==
  ASSUME NEW acc, AccessOk(acc), NEW addr, Fits(addr, acc), NEW onward, onward = [acc EXCEPT !.addr = addr]
  PROVE  /\ AccessOk(onward) /\ onward.addr = addr
         /\ onward.type = acc.type /\ onward.hlvx = acc.hlvx
<1>1. /\ acc = [addr |-> acc.addr, sz |-> acc.sz, type |-> acc.type, hlvx |-> acc.hlvx]
      /\ acc.sz \in Nat \ {0}
  BY DEF AccessOk
<1>2. onward = [addr |-> addr, sz |-> acc.sz, type |-> acc.type, hlvx |-> acc.hlvx]
  BY <1>1
<1> QED BY <1>1, <1>2 DEF AccessOk, Fits

LEMMA SmpuIsExact ==
  ASSUME NEW c \in SmpuCores, NEW acc \in SmpuAccesses, NEW mode \in AccessModes
  PROVE  SmpuExact(c, acc, mode)
<1> DEFINE out == SmpuCheck(c, acc, mode)
           one == DoSmpuCheck(c, acc, 1, mode)
           onward == [acc EXCEPT !.addr = one.addr]
           two == DoSmpuCheck(c, onward, 2, mode)
<1>1. AccessOk(acc) /\ acc.type \in AccessTypes /\ (acc.hlvx => acc.type = "LOAD")
  BY SmpuAssumption DEF AccessOk, AddressSpace
<1>2. UnitOk(c, Unit(1, mode)) /\ UnitOk(c, Unit(2, mode))
  BY CoreUnits DEF Unit, SmpuUnits, AccessModes
<1>3. out = IF one.verdict \notin {"pass", "paged"} THEN one
            ELSE IF two.verdict \notin {"pass", "paged"} THEN two
            ELSE Outcome(IF "paged" \in {one.verdict, two.verdict} THEN "paged" ELSE "pass", two.addr)
  BY Zenon DEF SmpuCheck
<1>4. one = DoSmpuCheck(c, acc, 1, mode) /\ two = DoSmpuCheck(c, onward, 2, mode)
  OBVIOUS
<1>5. SUFFICES /\ out.verdict = "pass" => /\ Passes(c, 1, acc, mode, one.addr)
                                          /\ Passes(c, 2, onward, mode, out.addr)
               /\ out.verdict = "fault" => Refuses(c, 1, acc, mode) \/ Refuses(c, 2, onward, mode)
  BY Zenon DEF SmpuExact
<1> HIDE DEF out, one, two
<1>6. /\ one.verdict = "pass" => Passes(c, 1, acc, mode, one.addr)
      /\ one.verdict = "fault" => Refuses(c, 1, acc, mode)
      /\ one.verdict \in {"pass", "paged"} => Fits(one.addr, acc)
  BY <1>1, <1>2, <1>4, LevelRight
<1>7. CASE one.verdict \notin {"pass", "paged"}
  BY <1>3, <1>6, <1>7
<1>8. CASE one.verdict \in {"pass", "paged"}
  <2>1. AccessOk(onward) /\ onward.type \in AccessTypes /\ (onward.hlvx => onward.type = "LOAD")
    BY <1>1, <1>6, <1>8, OnwardOk
  <2> HIDE DEF onward
  <2>2. /\ two.verdict = "pass" => Passes(c, 2, onward, mode, two.addr)
        /\ two.verdict = "fault" => Refuses(c, 2, onward, mode)
    BY <1>2, <1>4, <2>1, LevelRight
  <2>3. CASE two.verdict \notin {"pass", "paged"}
    BY <1>3, <1>8, <2>2, <2>3
  <2>4. CASE two.verdict \in {"pass", "paged"}
    <3>1. out = Outcome(IF "paged" \in {one.verdict, two.verdict} THEN "paged" ELSE "pass", two.addr)
      BY <1>3, <1>8, <2>4
    <3>2. /\ out.verdict = IF "paged" \in {one.verdict, two.verdict} THEN "paged" ELSE "pass"
          /\ out.addr = two.addr
      BY <3>1, OutcomeFields
    <3> QED BY <1>6, <1>8, <2>2, <2>4, <3>2
  <2> QED BY <2>3, <2>4
<1> QED BY <1>7, <1>8

\* An access the SMPU lets pass lies to its last byte in exactly one live region
\* of each level that concerns it, that region grants the mode what the access
\* does and leads to its physical address, and an access that faults has no such
\* region: find_matching_entry, is_access_allowed_for_su and do_phy_address_check
\* (smpu.h), for every setting of the regions; the SPMP's cache never changes a
\* verdict of entries that do not overlap, unless the cached region was granted
\* under another SUM or for another mode of the hart: do_phy_address_check
\* (spmp.h), for every history of accesses, MPRV, mode changes and CSR writes.
THEOREM UnitsProtectionExact == UnitsSpec => []ProtectionExact
<1> DEFINE Inv == /\ part = "smpu" => hart \in SmpuCores
                  /\ part = "spmp" => SpmpInv(hart)
<1>1. UnitsInit => Inv
  BY SpmpStarts DEF UnitsInit
<1>2. Inv /\ [UnitsNext]_unitVars => Inv'
  <2> SUFFICES ASSUME Inv, [UnitsNext]_unitVars PROVE Inv'
    OBVIOUS
  <2>1. CASE UNCHANGED unitVars
    BY <2>1 DEF unitVars
  <2>2. CASE MemoryStep
    BY <2>2, SpmpAccessKeeps, SpmpChangeKeeps DEF MemoryStep
  <2>3. CASE FpStep \/ FpSoftware
    BY <2>3 DEF FpStep, FpSoftware
  <2> QED BY <2>1, <2>2, <2>3 DEF UnitsNext
<1>3. Inv => ProtectionExact
  BY SmpuIsExact DEF ProtectionExact, SpmpInv, AccessModes
<1> QED BY <1>1, <1>2, <1>3, PTL DEF UnitsSpec

-----------------------------------------------------------------------------
(* Arithmetic                                                              *)

\* Facts of arithmetic that hold of every width, as above.
PowersOfTwo(w) ==
  /\ w \in Nat \ {0}
  /\ \A n \in 0 .. w : 2^n \in Nat \ {0}
  /\ 2^w = 2 * 2^(w - 1)
  /\ 2^(2 * w) = 2^w * 2^w

\* h and m are half the range of w bits and the whole.
WidthIs(w, h, m) == h = 2^(w - 1) /\ m = 2^w /\ h \in Nat \ {0} /\ m = 2 * h

LEMMA RangeOf ==
  ASSUME NEW w, PowersOfTwo(w)
  PROVE  WidthIs(w, 2^(w - 1), 2^w)
<1>1. w - 1 \in 0 .. w
  BY DEF PowersOfTwo
<1> QED BY <1>1 DEF PowersOfTwo, WidthIs

LEMMA SgRange ==
  ASSUME NEW w, NEW h, NEW m, WidthIs(w, h, m), NEW n \in 0 .. m - 1
  PROVE  Sg(n, w) \in Int /\ -h <= Sg(n, w) /\ Sg(n, w) < h /\ (Sg(n, w) = n \/ Sg(n, w) = n - m)
<1>1. Sg(n, w) = IF n >= h THEN n - m ELSE n
  BY DEF Sg, WidthIs
<1> QED BY <1>1 DEF WidthIs

\* A number in the signed range comes back.
LEMMA SgUs ==
  ASSUME NEW w, NEW h, NEW m, WidthIs(w, h, m), NEW x \in Int, -h <= x, x < h
  PROVE  Sg(Us(x, w), w) = x /\ Us(x, w) \in 0 .. m - 1
<1>1. h \in Int /\ h > 0 /\ m = 2 * h /\ m \in Int /\ m > 0
  BY DEF WidthIs
<1>2. Us(x, w) = x % m
  BY DEF Us, WidthIs
<1>3. CASE x >= 0
  <2>1. x % m = x
    BY <1>1, <1>3
  <2>2. Us(x, w) = x /\ x \in 0 .. m - 1
    BY <1>1, <1>2, <1>3, <2>1
  <2>3. ~ (x >= 2^(w - 1))
    BY <1>1 DEF WidthIs
  <2> QED BY <2>2, <2>3 DEF Sg
<1>4. CASE x < 0
  <2>1. x = m * (-1) + (x + m) /\ x + m \in 0 .. m - 1 /\ -1 \in Int
    BY <1>1, <1>4
  <2>2. x % m = x + m
    BY <1>1, <2>1, DivOfSum
  <2>3. x + m >= h /\ x + m - m = x
    BY <1>1
  <2> QED BY <1>1, <1>2, <2>1, <2>2, <2>3 DEF Sg, WidthIs
<1> QED BY <1>3, <1>4

\* The upper half of a product is its quotient, modulo the range.
LEMMA HighHalf ==
  ASSUME NEW h, NEW m, WidthIs(XLEN, h, m), 2^(2 * XLEN) = m * m, NEW p \in Int
  PROVE  High(p) = (p \div m) % m
<1>1. m \in Int /\ m > 0
  BY DEF WidthIs
<1> DEFINE q == p \div m
           low == p % m
           over == q \div m
           mid == q % m
<1>2. q \in Int /\ low \in 0 .. m - 1 /\ p = m * q + low
  BY <1>1, DivMod
<1>3. over \in Int /\ mid \in 0 .. m - 1 /\ q = m * over + mid
  BY <1>1, <1>2, DivMod
<1> HIDE DEF q, low, over, mid
<1>4. p = (m * m) * over + (m * mid + low)
  <2>1. m * q = m * (m * over) + m * mid
    BY <1>1, <1>3
  <2>2. m * (m * over) = (m * m) * over
    BY <1>1, <1>3
  <2> QED BY <1>1, <1>2, <1>3, <2>1, <2>2
<1>5. m * m \in Int /\ m * m > 0
  BY <1>1
<1>6. m * mid + low \in 0 .. (m * m) - 1
  <2>1. m * mid >= 0 /\ m * (m - 1 - mid) >= 0
    BY <1>1, <1>3
  <2>2. m * (m - 1 - mid) = m * m - m - m * mid
    BY <1>1, <1>3
  <2> QED BY <1>1, <1>2, <1>3, <1>5, <2>1, <2>2
<1>7. p % (m * m) = m * mid + low
  <2> DEFINE k == m * m
             r == m * mid + low
  <2>1. p = k * over + r /\ k \in Int /\ k > 0 /\ r \in 0 .. k - 1
    BY <1>4, <1>5, <1>6
  <2>2. SUFFICES p % k = r
    OBVIOUS
  <2> HIDE DEF k, r
  <2> QED BY <1>3, <2>1, DivOfSum
<1>8. (m * mid + low) \div m = mid
  <2>1. mid \in Int
    BY <1>1, <1>3
  <2> QED BY <1>1, <1>2, <2>1, DivOfSum
<1>9. High(p) = (p % (m * m)) \div m
  BY DEF High, Us, WidthIs
<1> QED BY <1>7, <1>8, <1>9 DEF mid, q

\* A product in the signed double range, and one in the unsigned, from its halves.
LEMMA HalvesJoin ==
  ASSUME NEW h, NEW m, WidthIs(XLEN, h, m), 2^(2 * XLEN) = m * m, NEW p \in Int
  PROVE  /\ -(h * m) <= p /\ p < h * m => Sg(High(p), XLEN) * m + (p % m) = p
         /\ 0 <= p /\ p < m * m => High(p) * m + (p % m) = p
<1>1. m \in Int /\ m > 0 /\ h \in Int /\ h > 0 /\ m = 2 * h
  BY DEF WidthIs
<1> DEFINE q == p \div m
           low == p % m
<1>2. q \in Int /\ low \in 0 .. m - 1 /\ p = m * q + low
  BY <1>1, DivMod
<1>3. High(p) = q % m
  BY HighHalf
<1> HIDE DEF q, low
<1>4. ASSUME -(h * m) <= p, p < h * m PROVE -h <= q /\ q < h
  <2>1. ASSUME q >= h PROVE FALSE
    <3>1. m * (q - h) >= 0
      BY <1>1, <1>2, <2>1
    <3>2. m * (q - h) = m * q - h * m
      BY <1>1, <1>2
    <3> QED BY <1>1, <1>2, <1>4, <3>1, <3>2
  <2>2. ASSUME q <= -h - 1 PROVE FALSE
    <3>1. m * (-h - 1 - q) >= 0
      BY <1>1, <1>2, <2>2
    <3>2. m * (-h - 1 - q) = -(h * m) - m - m * q
      BY <1>1, <1>2
    <3> QED BY <1>1, <1>2, <1>4, <3>1, <3>2
  <2> QED BY <1>1, <1>2, <2>1, <2>2
<1>5. ASSUME -(h * m) <= p, p < h * m PROVE Sg(High(p), XLEN) * m + low = p
  <2>1. Sg(Us(q, XLEN), XLEN) = q
    BY <1>2, <1>4, <1>5, SgUs
  <2>2. Us(q, XLEN) = High(p)
    BY <1>3 DEF Us, WidthIs
  <2> QED BY <1>1, <1>2, <2>1, <2>2
<1>6. ASSUME 0 <= p, p < m * m PROVE High(p) * m + low = p
  <2>1. q >= 0
    <3>1. SUFFICES ASSUME q <= -1 PROVE FALSE
      BY <1>2
    <3>2. m * (-1 - q) >= 0
      BY <1>1, <1>2, <3>1
    <3>3. m * (-1 - q) = -m - m * q
      BY <1>1, <1>2
    <3> QED BY <1>1, <1>2, <1>6, <3>2, <3>3
  <2>2. q < m
    <3>1. SUFFICES ASSUME q >= m PROVE FALSE
      BY <1>1, <1>2
    <3>2. m * (q - m) >= 0
      BY <1>1, <1>2, <3>1
    <3>3. m * (q - m) = m * q - m * m
      BY <1>1, <1>2
    <3> QED BY <1>1, <1>2, <1>6, <3>2, <3>3
  <2>3. q % m = q
    BY <1>1, <1>2, <2>1, <2>2
  <2> QED BY <1>1, <1>2, <1>3, <2>3
<1> QED BY <1>5, <1>6 DEF low

\* Factors in the ranges of the instructions.
LEMMA ProductBounds ==
  ASSUME NEW x \in Int, NEW lo \in Int, NEW hi \in Int, lo > 0, -lo <= x, x < lo,
         NEW y \in Int, -hi <= y, y <= hi, hi > 0
  PROVE  -(lo * hi) <= x * y /\ x * y <= lo * hi
<1>1. (lo - x) * (hi - y) >= 0 /\ (lo + x) * (hi + y) >= 0
      /\ (lo - x) * (hi + y) >= 0 /\ (lo + x) * (hi - y) >= 0
  OBVIOUS
<1> QED BY <1>1


LEMMA SameRest ==
  ASSUME NEW m \in Int, m > 0, NEW x \in Int, NEW y \in Int, NEW z \in Int, x = y + m * z
  PROVE  x % m = y % m
<1> DEFINE q == y \div m
           r == y % m
<1>1. q \in Int /\ r \in 0 .. m - 1 /\ y = m * q + r
  BY DivMod
<1> HIDE DEF q, r
<1>2. x = m * (q + z) + r /\ q + z \in Int
  BY <1>1
<1>3. x % m = r
  BY <1>1, <1>2, DivOfSum
<1> QED BY <1>3 DEF r

\* MUL, MULH, MULHU and MULHSU (exec_step, iss.cpp of both cores) give the
\* halves of the product of their operands, for registers of every width.
THEOREM ProductsAreExact ==
  ASSUME PowersOfTwo(XLEN), NEW a \in 0 .. 2^XLEN - 1, NEW b \in 0 .. 2^XLEN - 1
  PROVE  ProductExact(a, b, Mul("MUL", a, b), Mul("MULH", a, b), Mul("MULHU", a, b),
                      Mul("MULHSU", a, b), XLEN)
<1> DEFINE h == 2^(XLEN - 1)
           m == 2^XLEN
           sa == Sg(a, XLEN)
           sb == Sg(b, XLEN)
<1>1. WidthIs(XLEN, h, m) /\ 2^(2 * XLEN) = m * m
  BY RangeOf DEF PowersOfTwo
<1>2. /\ Mul("MUL", a, b) = (sa * sb) % m
      /\ Mul("MULH", a, b) = High(sa * sb)
      /\ Mul("MULHU", a, b) = High(a * b)
      /\ Mul("MULHSU", a, b) = High(sa * b)
  BY DEF Mul, Reg, Us
<1>3. SUFFICES /\ Sg(High(sa * sb), XLEN) * m + ((sa * sb) % m) = sa * sb
               /\ High(a * b) * m + ((sa * sb) % m) = a * b
               /\ Sg(High(sa * b), XLEN) * m + ((sa * sb) % m) = sa * b
  BY <1>2 DEF ProductExact
<1>4. a \in 0 .. m - 1 /\ b \in 0 .. m - 1
  OBVIOUS
<1> HIDE DEF h, m
<1>5. /\ sa \in Int /\ -h <= sa /\ sa < h /\ (sa = a \/ sa = a - m)
      /\ sb \in Int /\ -h <= sb /\ sb < h /\ (sb = b \/ sb = b - m)
  BY <1>1, <1>4, SgRange
<1>6. h \in Int /\ h > 0 /\ m = 2 * h /\ m \in Int /\ m > 0 /\ a \in Int /\ b \in Int
  BY <1>1, <1>4 DEF WidthIs
<1> HIDE DEF sa, sb
<1>7. sa * sb \in Int /\ sa * b \in Int /\ a * b \in Int
  BY <1>5, <1>6
<1>8. -(h * m) <= sa * sb /\ sa * sb < h * m
  <2>1. -(h * h) <= sa * sb /\ sa * sb <= h * h
    BY <1>5, <1>6, ProductBounds
  <2>2. h * m = h * h + h * h /\ h * h > 0
    BY <1>6
  <2> QED BY <1>6, <1>7, <2>1, <2>2
<1>9. -(h * m) <= sa * b /\ sa * b < h * m
  <2>1. m - 1 \in Int /\ m - 1 > 0 /\ -(m - 1) <= b /\ b <= m - 1
    BY <1>4, <1>6
  <2>2. -(h * (m - 1)) <= sa * b /\ sa * b <= h * (m - 1)
    BY <1>5, <1>6, <2>1, ProductBounds
  <2>3. h * (m - 1) = h * m - h
    BY <1>6
  <2> QED BY <1>6, <1>7, <2>2, <2>3
<1>10. 0 <= a * b /\ a * b < m * m
  <2>1. a >= 0 /\ b >= 0 /\ m - 1 - a >= 0 /\ m - b > 0
    BY <1>4, <1>6
  <2>2. a * b >= 0 /\ a * (m - b) >= 0 /\ (m - a) * m > 0
    BY <1>6, <2>1
  <2>3. a * (m - b) = a * m - a * b /\ (m - a) * m = m * m - a * m
    BY <1>6
  <2> QED BY <1>6, <1>7, <2>2, <2>3
<1>11. (sa * b) % m = (sa * sb) % m
  <2> DEFINE x == sa * b
             y == sa * sb
  <2>1. x = y \/ x = y + m * sa
    BY <1>5, <1>6
  <2>2. SUFFICES x % m = y % m
    OBVIOUS
  <2>3. x \in Int /\ y \in Int
    BY <1>7
  <2> HIDE DEF x, y
  <2>4. sa \in Int /\ m \in Int /\ m > 0
    BY <1>5, <1>6
  <2>5. x = y + m * sa => x % m = y % m
    BY <2>3, <2>4, SameRest
  <2> QED BY <2>1, <2>5
<1>12. (a * b) % m = (sa * b) % m
  <2> DEFINE x == a * b
             y == sa * b
  <2>1. x = y \/ x = y + m * b
    BY <1>5, <1>6
  <2>2. SUFFICES x % m = y % m
    OBVIOUS
  <2>3. x \in Int /\ y \in Int
    BY <1>7
  <2> HIDE DEF x, y
  <2>4. x = y + m * b => x % m = y % m
    BY <1>6, <2>3, SameRest
  <2> QED BY <2>1, <2>4
<1>13. Sg(High(sa * sb), XLEN) * m + ((sa * sb) % m) = sa * sb
  BY <1>1, <1>7, <1>8, HalvesJoin
<1>14. Sg(High(sa * b), XLEN) * m + ((sa * b) % m) = sa * b
  BY <1>1, <1>7, <1>9, HalvesJoin
<1>15. High(a * b) * m + ((a * b) % m) = a * b
  BY <1>1, <1>7, <1>10, HalvesJoin
<1> QED BY <1>11, <1>12, <1>13, <1>14, <1>15


LEMMA AbsFacts ==
  ASSUME NEW x \in Int
  PROVE  Abs(x) \in Nat /\ (Abs(x) = x \/ Abs(x) = -x) /\ (x # 0 => Abs(x) > 0)
         /\ (x >= 0 => Abs(x) = x) /\ (x < 0 => Abs(x) = -x)
BY DEF Abs

\* The quotient rounds towards zero.
LEMMA QuotientRounds ==
  ASSUME NEW x \in Int, NEW y \in Int, y # 0
  PROVE  /\ Quotient(x, y) \in Int /\ Remainder(x, y) \in Int
         /\ IsDivision(x, y, Quotient(x, y), Remainder(x, y))
         /\ Abs(Quotient(x, y)) <= Abs(x)
         /\ Abs(Quotient(x, y)) = Abs(x) /\ x # 0 => Abs(y) = 1
<1> DEFINE u == Abs(x)
           v == Abs(y)
           k == u \div v
           r == u % v
           q == Quotient(x, y)
           e == Remainder(x, y)
<1>1. /\ u \in Nat /\ v \in Nat /\ v > 0
      /\ (x >= 0 => u = x) /\ (x < 0 => u = -x) /\ (y >= 0 => v = y) /\ (y < 0 => v = -y)
  BY AbsFacts
<1>2. k \in Int /\ r \in 0 .. v - 1 /\ u = v * k + r
  <2> HIDE DEF u, v
  <2> QED BY <1>1, DivMod
<1>3. /\ (x < 0) = (y < 0) => q = k
      /\ (x < 0) # (y < 0) => q = -k
  BY DEF Quotient
<1>4. e = x - y * q
  BY DEF Remainder
<1>5. k >= 0
  <2> HIDE DEF u, v, k, r
  <2>1. SUFFICES ASSUME k <= -1 PROVE FALSE
    BY <1>2
  <2>2. v * (-1 - k) >= 0 /\ v * (-1 - k) = -v - v * k
    BY <1>1, <1>2, <2>1
  <2> QED BY <1>1, <1>2, <2>2
<1> HIDE DEF u, v, k, r, q, e
<1>6. q \in Int /\ (q = k \/ q = -k)
  BY <1>2, <1>3
<1>7. y * q = IF x < 0 THEN -(v * k) ELSE v * k
  <2>1. CASE x < 0 /\ y < 0
    BY <1>1, <1>2, <1>3, <2>1
  <2>2. CASE x < 0 /\ ~(y < 0)
    BY <1>1, <1>2, <1>3, <2>2
  <2>3. CASE ~(x < 0) /\ y < 0
    BY <1>1, <1>2, <1>3, <2>3
  <2>4. CASE ~(x < 0) /\ ~(y < 0)
    BY <1>1, <1>2, <1>3, <2>4
  <2> QED BY <2>1, <2>2, <2>3, <2>4
<1>8. e \in Int /\ e = IF x < 0 THEN -r ELSE r
  <2>1. v * k \in Int
    BY <1>1, <1>2
  <2> QED BY <1>1, <1>2, <1>4, <1>7, <2>1
<1>9. Abs(e) = r
  BY <1>1, <1>2, <1>8 DEF Abs
<1>10. x = y * q + e
  <2>1. y * q \in Int
    BY <1>6
  <2> QED BY <1>4, <2>1
<1>11. IsDivision(x, y, q, e)
  <2>1. Abs(e) < Abs(y)
    BY <1>1, <1>2, <1>9 DEF v
  <2>2. e # 0 => (e < 0) = (x < 0)
    BY <1>1, <1>2, <1>8
  <2> QED BY <1>10, <2>1, <2>2 DEF IsDivision
<1>12. Abs(q) = k
  BY <1>2, <1>5, <1>6 DEF Abs
<1>13. k <= u /\ (k = u /\ u # 0 => v = 1)
  <2>1. (v - 1) * k >= 0 /\ (v - 1) * k = v * k - k
    BY <1>1, <1>2, <1>5
  <2>2. k <= u
    BY <1>1, <1>2, <2>1
  <2>3. ASSUME k = u, u # 0, v # 1 PROVE FALSE
    <3>1. (v - 1) * k >= k
      BY <1>1, <1>2, <1>5, <2>3
    <3> QED BY <1>1, <1>2, <2>1, <2>3, <3>1
  <2> QED BY <2>2, <2>3
<1>14. x # 0 => u # 0
  BY <1>1
<1> QED BY <1>6, <1>8, <1>11, <1>12, <1>13, <1>14 DEF u, v, q, e

\* DIV, DIVU, REM and REMU, and their word forms, divide and round towards
\* zero, and answer a division by zero and the one that overflows as the
\* instruction set says (exec_step, iss.cpp of both cores), for every width.
THEOREM DivisionsAreExact ==
  ASSUME NEW w, PowersOfTwo(w), NEW a \in 0 .. 2^w - 1, NEW b \in 0 .. 2^w - 1
  PROVE  DivisionExact(a, b, DivOf("DIV", a, b, w), DivOf("REM", a, b, w),
                       DivOf("DIVU", a, b, w), DivOf("REMU", a, b, w), w)
<1> DEFINE h == 2^(w - 1)
           m == 2^w
           sa == Sg(a, w)
           sb == Sg(b, w)
           overflow == sa = -h /\ sb = -1
           q == Quotient(sa, sb)
           r == Remainder(sa, sb)
<1>1. WidthIs(w, h, m)
  BY RangeOf
<1>2. /\ DivOf("DIV", a, b, w) = IF b = 0 THEN Us(-1, w) ELSE IF overflow THEN a ELSE Us(q, w)
      /\ DivOf("REM", a, b, w) = IF b = 0 THEN a ELSE IF overflow THEN 0 ELSE Us(r, w)
      /\ DivOf("DIVU", a, b, w) = IF b = 0 THEN Us(-1, w) ELSE a \div b
      /\ DivOf("REMU", a, b, w) = IF b = 0 THEN a ELSE a % b
  <2> HIDE DEF q, r
  <2> QED BY DEF DivOf, q, r
<1>3. a \in 0 .. m - 1 /\ b \in 0 .. m - 1
  OBVIOUS
<1>4. SUFFICES /\ b = 0 => Us(-1, w) = m - 1
               /\ b # 0 => IsDivision(a, b, a \div b, a % b)
               /\ b # 0 /\ ~overflow => IsDivision(sa, sb, Sg(Us(q, w), w), Sg(Us(r, w), w))
               /\ overflow => b # 0
  <2> HIDE DEF h, m, sa, sb, q, r
  <2>1. /\ b = 0 => DivOf("DIV", a, b, w) = m - 1 /\ DivOf("DIVU", a, b, w) = m - 1
                      /\ DivOf("REM", a, b, w) = a /\ DivOf("REMU", a, b, w) = a
        /\ b # 0 => IsDivision(a, b, DivOf("DIVU", a, b, w), DivOf("REMU", a, b, w))
        /\ b # 0 /\ ~overflow =>
             IsDivision(sa, sb, Sg(DivOf("DIV", a, b, w), w), Sg(DivOf("REM", a, b, w), w))
        /\ overflow => DivOf("DIV", a, b, w) = a /\ DivOf("REM", a, b, w) = 0
    BY <1>2, <1>4
  <2> QED BY <2>1 DEF DivisionExact, h, m, sa, sb
<1> HIDE DEF h, m
<1>5. /\ sa \in Int /\ -h <= sa /\ sa < h /\ (sa = a \/ sa = a - m)
      /\ sb \in Int /\ -h <= sb /\ sb < h /\ (sb = b \/ sb = b - m)
  BY <1>1, <1>3, SgRange
<1>6. h \in Int /\ h > 0 /\ m = 2 * h /\ m \in Int /\ m > 0 /\ a \in Int /\ b \in Int
  BY <1>1, <1>3 DEF WidthIs
<1>7. Us(-1, w) = m - 1
  <2>1. -1 \in Int /\ -1 = m * (-1) + (m - 1) /\ m - 1 \in 0 .. m - 1
    BY <1>6
  <2>2. (-1) % m = m - 1
    BY <1>6, <2>1, DivOfSum
  <2> QED BY <2>2 DEF Us, m
<1>8. ASSUME b # 0 PROVE IsDivision(a, b, a \div b, a % b)
  <2>1. b > 0 /\ a >= 0
    BY <1>3, <1>6, <1>8
  <2>2. a \div b \in Int /\ a % b \in 0 .. b - 1 /\ a = b * (a \div b) + (a % b)
    BY <1>6, <2>1, DivMod
  <2>3. Abs(a % b) = a % b /\ Abs(b) = b
    BY <1>6, <2>1, <2>2, AbsFacts
  <2> QED BY <1>6, <2>1, <2>2, <2>3 DEF IsDivision
<1>9. b # 0 => sb # 0
  BY <1>3, <1>5, <1>6
<1>10. overflow => b # 0
  <2>1. b = 0 => sb = 0
    <3>1. 0 - m < -h
      BY <1>6
    <3> QED BY <1>5, <1>6, <3>1
  <2> QED BY <2>1
<1> HIDE DEF sa, sb
<1>11. ASSUME b # 0, ~overflow PROVE IsDivision(sa, sb, Sg(Us(q, w), w), Sg(Us(r, w), w))
  <2>1. /\ q \in Int /\ r \in Int /\ IsDivision(sa, sb, q, r)
        /\ Abs(q) <= Abs(sa) /\ (Abs(q) = Abs(sa) /\ sa # 0 => Abs(sb) = 1)
    BY <1>5, <1>9, <1>11, QuotientRounds
  <2>2. sa = sb * q + r /\ Abs(r) < Abs(sb)
    BY <2>1 DEF IsDivision
  <2> HIDE DEF q, r
  <2>3. Abs(sa) <= h /\ Abs(sb) <= h /\ Abs(sa) \in Int /\ Abs(sb) \in Int
    BY <1>5, <1>6, AbsFacts
  <2>4. -h <= r /\ r < h
    <3>1. Abs(r) < h
      BY <1>6, <2>1, <2>2, <2>3, AbsFacts
    <3> QED BY <1>6, <2>1, <3>1, AbsFacts
  <2>5. -h <= q /\ q <= h
    BY <1>6, <2>1, <2>3, AbsFacts
  <2>6. q # h
    <3>1. SUFFICES ASSUME q = h PROVE FALSE
      OBVIOUS
    <3>2. Abs(sa) = h /\ Abs(sb) = 1
      BY <1>5, <1>6, <2>1, <2>3, <3>1, AbsFacts
    <3>3. sa = -h
      BY <1>5, <1>6, <3>2, AbsFacts
    <3>4. sb = 1 \/ sb = -1
      BY <1>5, <3>2, AbsFacts
    <3>5. sb = 1
      BY <1>11, <3>3, <3>4
    <3>6. Abs(r) < 1
      BY <2>2, <3>2
    <3>7. r = 0
      BY <2>1, <3>6, AbsFacts
    <3> QED BY <1>6, <2>1, <2>2, <3>1, <3>3, <3>5, <3>7
  <2>7. Sg(Us(q, w), w) = q
    BY <1>1, <1>6, <2>1, <2>5, <2>6, SgUs
  <2>8. Sg(Us(r, w), w) = r
    BY <1>1, <2>1, <2>4, SgUs
  <2> QED BY <2>1, <2>7, <2>8
<1> QED BY <1>7, <1>8, <1>10, <1>11


\* Shifts by the lower bits of a register multiply and divide by a power of two,
\* SRA that of the signed value (RegFile::shamt and exec_step, iss.cpp of both
\* cores), for every width.
THEOREM ShiftsAreExact ==
  ASSUME PowersOfTwo(XLEN), NEW a \in 0 .. 2^XLEN - 1, NEW b \in Nat
  PROVE  ShiftExact(a, b, ShiftLeft(a, RegShamt(b)), ShiftRight(a, RegShamt(b)),
                    ShiftRightA(a, RegShamt(b)), XLEN)
<1> DEFINE h == 2^(XLEN - 1)
           m == 2^XLEN
           n == 2^(b % XLEN)
           sa == Sg(a, XLEN)
<1>1. WidthIs(XLEN, h, m)
  BY RangeOf
<1>2. n \in Nat \ {0}
  <2>1. XLEN \in Int /\ XLEN > 0
    BY DEF PowersOfTwo
  <2>2. b % XLEN \in 0 .. XLEN
    BY <2>1
  <2> QED BY <2>2 DEF PowersOfTwo
<1>3. a \in 0 .. m - 1
  OBVIOUS
<1>4. SUFFICES /\ (a * n) % m \in 0 .. m - 1 /\ (((a * n) % m) - a * n) % m = 0
               /\ (a \div n) * n <= a /\ a < ((a \div n) + 1) * n
               /\ Sg(Us(sa \div n, XLEN), XLEN) * n <= sa
               /\ sa < (Sg(Us(sa \div n, XLEN), XLEN) + 1) * n
  <2> HIDE DEF sa
  <2> QED BY <1>4 DEF ShiftExact, ShiftLeft, ShiftRight, ShiftRightA, RegShamt, Reg, Us, sa
<1> HIDE DEF h, m, n
<1>5. sa \in Int /\ -h <= sa /\ sa < h
  BY <1>1, <1>3, SgRange
<1>6. h \in Int /\ h > 0 /\ m = 2 * h /\ m \in Int /\ m > 0 /\ a \in Int /\ n \in Int /\ n > 0
  BY <1>1, <1>2, <1>3 DEF WidthIs
<1> HIDE DEF sa
<1>7. (a * n) % m \in 0 .. m - 1 /\ (((a * n) % m) - a * n) % m = 0
  <2> DEFINE p == a * n
             q == p \div m
             r == p % m
  <2>0. p \in Int
    BY <1>6
  <2> HIDE DEF p
  <2>1. q \in Int /\ r \in 0 .. m - 1 /\ p = m * q + r
    BY <1>6, <2>0, DivMod
  <2> HIDE DEF q, r
  <2> DEFINE d == r - p
             z == -q
  <2>2. d = m * z + 0 /\ d \in Int /\ z \in Int /\ 0 \in 0 .. m - 1
    BY <1>6, <2>0, <2>1
  <2> HIDE DEF d, z
  <2>3. d % m = 0
    <3>1. 0 \in Int /\ m \in Int /\ m > 0 /\ d = 0 + m * z
      BY <1>6, <2>2
    <3>2. d % m = 0 % m
      BY <2>2, <3>1, SameRest
    <3> QED BY <1>6, <3>2
  <2> QED BY <2>1, <2>3 DEF p, r, d
<1>8. ASSUME NEW x \in Int
      PROVE  x \div n \in Int /\ (x \div n) * n <= x /\ x < ((x \div n) + 1) * n
  <2> DEFINE q == x \div n
             r == x % n
  <2>1. q \in Int /\ r \in 0 .. n - 1 /\ x = n * q + r
    BY <1>6, DivMod
  <2> HIDE DEF q, r
  <2>2. (q + 1) * n = n * q + n /\ q * n = n * q
    BY <1>6, <2>1
  <2>3. q \in Int /\ q * n <= x /\ x < (q + 1) * n
    BY <1>6, <2>1, <2>2
  <2> QED BY <2>3 DEF q
<1>9. -h <= sa \div n /\ sa \div n < h
  <2> DEFINE q == sa \div n
  <2>1. q \in Int /\ q * n <= sa /\ sa < (q + 1) * n
    BY <1>5, <1>8
  <2> HIDE DEF q
  <2>2. ASSUME q >= h PROVE FALSE
    <3>1. (q - h) * n >= 0 /\ h * (n - 1) >= 0
      BY <1>6, <2>1, <2>2
    <3>2. (q - h) * n = q * n - h * n /\ h * (n - 1) = h * n - h
      BY <1>6, <2>1
    <3>3. q * n \in Int /\ h * n \in Int
      BY <1>6, <2>1
    <3> QED BY <1>5, <1>6, <2>1, <3>1, <3>2, <3>3
  <2>3. ASSUME q + 1 <= -h PROVE FALSE
    <3>1. (-h - (q + 1)) * n >= 0 /\ h * (n - 1) >= 0
      BY <1>6, <2>1, <2>3
    <3>2. (-h - (q + 1)) * n = -(h * n) - (q + 1) * n /\ h * (n - 1) = h * n - h
      BY <1>6, <2>1
    <3>3. (q + 1) * n \in Int /\ h * n \in Int
      BY <1>6, <2>1
    <3> QED BY <1>5, <1>6, <2>1, <3>1, <3>2, <3>3
  <2>4. -h <= q /\ q < h
    BY <1>6, <2>1, <2>2, <2>3
  <2> QED BY <2>4 DEF q
<1>10. Sg(Us(sa \div n, XLEN), XLEN) = sa \div n
  BY <1>1, <1>5, <1>8, <1>9, SgUs
<1> QED BY <1>5, <1>6, <1>7, <1>8, <1>10

=============================================================================
