------------------------------ MODULE VmcsProofs ------------------------------
(* Theorems about Vmcs, for any processor whose registers hold what those   *)
(* of a 64-bit system do: when VMLAUNCH succeeds, and what the guest then   *)
(* runs on.                                                                 *)
EXTENDS Vmcs, TLAPS

-----------------------------------------------------------------------------
(* The inductive invariant: what each part of StartVMX leaves in the VMCS.  *)

SegsWritten ==
  \A s \in Segs :
    seg[s] = IF s \in {"FS", "GS"}
             THEN [VmxFillGuestSelectorData(m.sel[s]) EXCEPT !.base = m.base[s]]
             ELSE VmxFillGuestSelectorData(m.sel[s])

\* Every control that the code asks for.
Requested == {"msr_bitmap", "secondary", "rdtscp", "ia32e", "ack_intr", "ept"}

\* The control words hold what must be one and no more than may be one, and
\* nothing that was not asked for.
ControlsWritten ==
  /\ DOMAIN ctl = Words
  /\ \A w \in Words : Low(w) \subseteq ctl[w] /\ ctl[w] \subseteq High(w)
  /\ "ia32e" \in ctl["exit"] /\ "ia32e" \in ctl["entry"]
  /\ "msr_bitmap" \in High("cpu") => "msr_bitmap" \in ctl["cpu"]
  /\ "rdtscp" \in High("cpu2") => "rdtscp" \in ctl["cpu2"]
  /\ \A w \in Words : ctl[w] \subseteq Requested \cup Low(w)

RegistersWritten ==
  /\ guest["LINK"] = "ones"
  /\ \A r \in Shared : guest[r] = r /\ host.regs[r] = r
  /\ \A s \in HostSegs : host.sel[s] = HostSelector(m.sel[s])
  /\ \A s \in {"FS", "GS"} : host.base[s] = m.base[s]
  /\ host.base["TR"] = GetSegmentDescriptor(m.sel["TR"]).base
  /\ bitmap = Bitmap

EptWritten ==
  /\ "secondary" \in ctl["cpu"] /\ "ept" \in ctl["cpu2"]
  /\ eptp = [address |-> Pml4Phys, walk |-> 4, memory |-> "WB"]

Accepted == ControlsAccepted /\ HostAccepted /\ GuestAccepted

VmcsInv ==
  /\ m \in Machines
  /\ pc \in {"enable", "unsupported", "segments", "controls", "registers", "ept",
             "launch", "guest", "refused", "fault"}
  /\ pc \notin {"enable", "unsupported"} => "ept" \in Detected
  /\ guest["PENDING_DBG"] = m.left
  /\ pc \in {"controls", "registers", "ept", "launch", "guest", "refused"} => SegsWritten
  /\ pc \in {"registers", "ept", "launch", "guest", "refused"}
       => ControlsWritten /\ "secondary" \in High("cpu")
  /\ pc \in {"ept", "launch", "guest", "refused"} => RegistersWritten
  /\ pc \in {"launch", "guest", "refused"} => EptWritten
  /\ pc = "guest" => Accepted
  /\ pc = "refused" => ~Accepted

-----------------------------------------------------------------------------
(* Controls.                                                               *)

\* A control that is asked for and allowed is set, one that is neither asked
\* for nor forced is not, and the processor accepts the word.
LEMMA AdjustedControls ==
  ASSUME m \in Machines, NEW w \in Words, NEW asked
  PROVE  /\ Low(w) \subseteq VmxAdjustControls(asked, w)
         /\ VmxAdjustControls(asked, w) \subseteq High(w)
         /\ asked \cap High(w) \subseteq VmxAdjustControls(asked, w)
         /\ VmxAdjustControls(asked, w) \subseteq asked \cup Low(w)
<1>1. Low(w) \subseteq High(w)
  BY CapabilityAssumption DEF Low, High
<1>. QED BY <1>1 DEF VmxAdjustControls

\* A processor with secondary controls on which EnableVMX finds EPT allows it:
\* what is found is its own capability, not what another one left.
LEMMA DetectedAllowed ==
  ASSUME m \in Machines, "ept" \in Detected, "secondary" \in High("cpu")
  PROVE  "ept" \in High("cpu2")
<1>1. Low("cpu2") \subseteq Default1["cpu2"] /\ m.before.default1 = {}
  BY CapabilityAssumption DEF Low, Words
<1>2. Default1["cpu2"] = {}
  BY DEF Default1
<1>. QED BY <1>1, <1>2 DEF Detected

-----------------------------------------------------------------------------
(* The steps of StartVMX.                                                  *)

LEMMA VmcsInit == Init => VmcsInv
  BY DEF Init, VmcsInv

LEMMA EnableStep == VmcsInv /\ Enable => VmcsInv'
  BY DEF VmcsInv, Enable, Detected, Low, High

\* What the descriptors say depends on the processor alone.
LEMMA SegmentsKept ==
  ASSUME m' = m, NEW s
  PROVE  /\ GetSegmentDescriptor(m.sel[s])' = GetSegmentDescriptor(m.sel[s])
         /\ VmxFillGuestSelectorData(m.sel[s])' = VmxFillGuestSelectorData(m.sel[s])
<1>1. GetSegmentDescriptor(m.sel[s])' = GetSegmentDescriptor(m.sel[s])
  BY DEF GetSegmentDescriptor
<1>. QED BY <1>1 DEF VmxFillGuestSelectorData

LEMMA WrittenKept ==
  ASSUME m' = m, seg' = seg, SegsWritten
  PROVE  SegsWritten'
<1>. SUFFICES ASSUME NEW s \in Segs
              PROVE  (seg[s] = IF s \in {"FS", "GS"}
                               THEN [VmxFillGuestSelectorData(m.sel[s]) EXCEPT !.base = m.base[s]]
                               ELSE VmxFillGuestSelectorData(m.sel[s]))'
  BY DEF SegsWritten
<1>. QED BY SegmentsKept DEF SegsWritten

LEMMA SegmentsStep == VmcsInv /\ SetupSegments => VmcsInv'
<1>. SUFFICES ASSUME VmcsInv, SetupSegments PROVE VmcsInv'
  OBVIOUS
<1>0. m' = m
  BY DEF SetupSegments
<1>1. SegsWritten'
  <2>. SUFFICES ASSUME NEW s \in Segs
                PROVE  (seg[s] = IF s \in {"FS", "GS"}
                                 THEN [VmxFillGuestSelectorData(m.sel[s]) EXCEPT !.base = m.base[s]]
                                 ELSE VmxFillGuestSelectorData(m.sel[s]))'
    BY DEF SegsWritten
  <2>. QED BY <1>0, SegmentsKept DEF SetupSegments
<1>. QED BY <1>1 DEF VmcsInv, SetupSegments, Detected, Low, High

LEMMA ControlsStep == VmcsInv /\ SetupControls => VmcsInv'
<1>. SUFFICES ASSUME VmcsInv, SetupControls PROVE VmcsInv'
  OBVIOUS
<1>0. m \in Machines /\ Words = {"pin", "cpu", "cpu2", "exit", "entry"}
  BY DEF VmcsInv, Words
<1>1. ctl' = [pin   |-> VmxAdjustControls({}, "pin"),
              cpu   |-> VmxAdjustControls({"msr_bitmap", "secondary"}, "cpu"),
              cpu2  |-> VmxAdjustControls({"rdtscp"}, "cpu2"),
              exit  |-> VmxAdjustControls({"ia32e", "ack_intr"}, "exit"),
              entry |-> VmxAdjustControls({"ia32e"}, "entry")]
  BY DEF SetupControls
<1>2. \A w \in Words : \E asked : ctl'[w] = VmxAdjustControls(asked, w)
  BY <1>0, <1>1
<1>3. \A w \in Words : Low(w) \subseteq ctl'[w] /\ ctl'[w] \subseteq High(w)
  BY <1>0, <1>2, AdjustedControls
<1>4. "ia32e" \in High("exit") /\ "ia32e" \in High("entry")
  BY <1>0, CapabilityAssumption DEF High
<1>5. "ia32e" \in ctl'["exit"] /\ "ia32e" \in ctl'["entry"]
  BY <1>1, <1>4 DEF VmxAdjustControls
<1>6. /\ "msr_bitmap" \in High("cpu") => "msr_bitmap" \in ctl'["cpu"]
      /\ "rdtscp" \in High("cpu2") => "rdtscp" \in ctl'["cpu2"]
  BY <1>1 DEF VmxAdjustControls
<1>7. /\ {"msr_bitmap", "secondary"} \subseteq Requested /\ {"rdtscp"} \subseteq Requested
      /\ {"ia32e", "ack_intr"} \subseteq Requested /\ {"ia32e"} \subseteq Requested
      /\ {} \subseteq Requested
  BY DEF Requested
<1>8. \A w \in Words : ctl'[w] \subseteq Requested \cup Low(w)
  <2>1. ASSUME NEW w \in Words, NEW asked, asked \subseteq Requested
        PROVE  VmxAdjustControls(asked, w) \subseteq Requested \cup Low(w)
    BY <1>0, <2>1, AdjustedControls
  <2>. QED BY <1>0, <1>1, <1>7, <2>1
<1>9. ControlsWritten'
  <2>1. m' = m
    BY DEF SetupControls
  <2>2. \A w : Low(w)' = Low(w) /\ High(w)' = High(w)
    BY <2>1 DEF Low, High
  <2>3. DOMAIN ctl' = Words
    BY <1>0, <1>1
  <2>. QED BY <1>3, <1>5, <1>6, <1>8, <2>2, <2>3 DEF ControlsWritten
<1>10. SegsWritten'
  BY WrittenKept DEF VmcsInv, SetupControls
<1>. QED BY <1>9, <1>10 DEF VmcsInv, SetupControls, Detected, Low, High

\* The processor has no secondary controls, and the machine stops.
LEMMA FaultStep == VmcsInv /\ NoSecondary => VmcsInv'
<1>. SUFFICES ASSUME VmcsInv, NoSecondary PROVE VmcsInv'
  OBVIOUS
<1>1. SegsWritten'
  BY WrittenKept DEF VmcsInv, NoSecondary
<1>. QED BY <1>1 DEF VmcsInv, NoSecondary, Detected, Low, High

LEMMA RegistersStep == VmcsInv /\ SetupRegisters => VmcsInv'
<1>. SUFFICES ASSUME VmcsInv, SetupRegisters PROVE VmcsInv'
  OBVIOUS
<1>1. m' = m /\ seg' = seg /\ ctl' = ctl /\ pc = "registers" /\ pc' = "ept"
  BY DEF SetupRegisters
<1>2. ControlsWritten'
  BY <1>1 DEF VmcsInv, ControlsWritten, Low, High
<1>3. SegsWritten'
  BY <1>1, WrittenKept DEF VmcsInv
<1>4. guest'["PENDING_DBG"] = guest["PENDING_DBG"] /\ guest'["LINK"] = "ones"
      /\ \A r \in Shared : guest'[r] = r
  BY DEF SetupRegisters, Copied, Shared
<1>5. /\ host'.regs = [r \in Shared \cup {"RSP", "RIP"} |->
                         CASE r \in Shared -> r
                           [] r = "RSP" -> "VMMStack"
                           [] r = "RIP" -> "VmxExitHandler"]
      /\ host'.sel = [s \in HostSegs |-> HostSelector(m.sel[s])]
      /\ host'.base = [s \in {"FS", "GS", "TR"} |->
                         IF s = "TR" THEN GetSegmentDescriptor(m.sel[s]).base ELSE m.base[s]]
  BY DEF SetupRegisters
<1>6. \A r \in Shared : host'.regs[r] = r
  BY <1>5 DEF Shared
<1>7. \A s \in HostSegs : host'.sel[s] = HostSelector(m'.sel[s])
  BY <1>1, <1>5
<1>8. \A s \in {"FS", "GS"} : host'.base[s] = m'.base[s]
  BY <1>1, <1>5
<1>9. host'.base["TR"] = (GetSegmentDescriptor(m.sel["TR"]).base)'
  <2>1. host'.base["TR"] = GetSegmentDescriptor(m.sel["TR"]).base
    BY <1>5
  <2>2. GetSegmentDescriptor(m.sel["TR"])' = GetSegmentDescriptor(m.sel["TR"])
    BY <1>1, SegmentsKept
  <2>. QED BY <2>1, <2>2
<1>10. bitmap' = Bitmap
  BY DEF SetupRegisters
<1>11. RegistersWritten'
  BY <1>4, <1>6, <1>7, <1>8, <1>9, <1>10 DEF RegistersWritten
<1>. QED BY <1>1, <1>2, <1>3, <1>4, <1>11 DEF VmcsInv, Detected, Low, High

LEMMA EptStep == VmcsInv /\ EptInit => VmcsInv'
<1>. SUFFICES ASSUME VmcsInv, EptInit PROVE VmcsInv'
  OBVIOUS
<1>1. m' = m /\ seg' = seg /\ guest' = guest /\ host' = host /\ bitmap' = bitmap
      /\ pc = "ept" /\ pc' = "launch" /\ m \in Machines
  BY DEF EptInit, VmcsInv
<1>2. SegsWritten'
  BY <1>1, WrittenKept DEF VmcsInv
<1>3. RegistersWritten'
  <2>1. RegistersWritten
    BY <1>1 DEF VmcsInv
  <2>2. (GetSegmentDescriptor(m.sel["TR"]).base)' = GetSegmentDescriptor(m.sel["TR"]).base
    BY <1>1, SegmentsKept
  <2>. QED BY <1>1, <2>1, <2>2 DEF RegistersWritten
<1>4. ControlsWritten /\ "ept" \in Detected /\ "secondary" \in High("cpu")
  BY <1>1 DEF VmcsInv
<1>5. /\ ctl'["cpu"] = VmxAdjustControls(ctl["cpu"] \cup {"secondary"}, "cpu")
      /\ ctl'["cpu2"] = VmxAdjustControls(ctl["cpu2"] \cup {"ept"}, "cpu2")
      /\ \A w \in Words \ {"cpu", "cpu2"} : ctl'[w] = ctl[w]
      /\ DOMAIN ctl' = Words
  BY <1>4 DEF EptInit, ControlsWritten, Words
<1>6. "secondary" \in ctl'["cpu"] /\ "ept" \in ctl'["cpu2"]
  BY <1>1, <1>4, <1>5, DetectedAllowed DEF VmxAdjustControls
<1>7. EptWritten'
  BY <1>6 DEF EptWritten, EptInit
<1>8. ControlsWritten'
  <2>1. \A w : Low(w)' = Low(w) /\ High(w)' = High(w)
    BY <1>1 DEF Low, High
  <2>2. \A w \in Words : Low(w) \subseteq ctl'[w] /\ ctl'[w] \subseteq High(w)
    <3>1. Low("cpu") \subseteq ctl'["cpu"] /\ ctl'["cpu"] \subseteq High("cpu")
      BY <1>1, <1>5, AdjustedControls DEF Words
    <3>2. Low("cpu2") \subseteq ctl'["cpu2"] /\ ctl'["cpu2"] \subseteq High("cpu2")
      BY <1>1, <1>5, AdjustedControls DEF Words
    <3>. QED BY <1>4, <1>5, <3>1, <3>2 DEF ControlsWritten
  <2>3. "ia32e" \in ctl'["exit"] /\ "ia32e" \in ctl'["entry"]
    BY <1>4, <1>5 DEF ControlsWritten, Words
  <2>4. /\ "msr_bitmap" \in High("cpu") => "msr_bitmap" \in ctl'["cpu"]
        /\ "rdtscp" \in High("cpu2") => "rdtscp" \in ctl'["cpu2"]
    BY <1>4, <1>5 DEF ControlsWritten, VmxAdjustControls
  <2>5. /\ Low("cpu") \subseteq ctl["cpu"] /\ ctl["cpu"] \subseteq Requested \cup Low("cpu")
        /\ Low("cpu2") \subseteq ctl["cpu2"] /\ ctl["cpu2"] \subseteq Requested \cup Low("cpu2")
    BY <1>4 DEF ControlsWritten, Words
  <2>6. \A w \in Words : ctl'[w] \subseteq Requested \cup Low(w)
    <3>1. ctl'["cpu"] \subseteq Requested \cup Low("cpu")
      BY <1>5, <2>5 DEF VmxAdjustControls, Requested
    <3>2. ctl'["cpu2"] \subseteq Requested \cup Low("cpu2")
      BY <1>5, <2>5 DEF VmxAdjustControls, Requested
    <3>. QED BY <1>4, <1>5, <3>1, <3>2 DEF ControlsWritten
  <2>. QED BY <1>5, <2>1, <2>2, <2>3, <2>4, <2>6 DEF ControlsWritten
<1>. QED BY <1>1, <1>2, <1>3, <1>7, <1>8 DEF VmcsInv, Detected, Low, High

\* A step that leaves the VMCS alone leaves what was written.
LEMMA VmcsKept ==
  ASSUME UNCHANGED <<m, ctl, guest, seg, host, eptp, bitmap>>
  PROVE  /\ SegsWritten => SegsWritten'
         /\ ControlsWritten => ControlsWritten'
         /\ RegistersWritten => RegistersWritten'
         /\ EptWritten => EptWritten'
         /\ Accepted' = Accepted
         /\ Detected' = Detected /\ High("cpu")' = High("cpu")
<1>1. SegsWritten => SegsWritten'
  BY WrittenKept
<1>2. ControlsWritten => ControlsWritten'
  BY DEF ControlsWritten, Low, High
<1>3. RegistersWritten => RegistersWritten'
  <2>1. (GetSegmentDescriptor(m.sel["TR"]).base)' = GetSegmentDescriptor(m.sel["TR"]).base
    BY SegmentsKept
  <2>. QED BY <2>1 DEF RegistersWritten
<1>4. EptWritten => EptWritten'
  BY DEF EptWritten
<1>5. Accepted' = Accepted
  BY DEF Accepted, ControlsAccepted, HostAccepted, GuestAccepted, SegmentAccepted, Usable,
         TrueLow, Low, High
<1>6. Detected' = Detected /\ High("cpu")' = High("cpu")
  BY DEF Detected, Low, High
<1>. QED BY <1>1, <1>2, <1>3, <1>4, <1>5, <1>6

LEMMA LaunchStep == VmcsInv /\ Launch => VmcsInv'
<1>. SUFFICES ASSUME VmcsInv, Launch PROVE VmcsInv'
  OBVIOUS
<1>1. /\ UNCHANGED <<m, ctl, guest, seg, host, eptp, bitmap>> /\ pc = "launch"
      /\ pc' = IF Accepted THEN "guest" ELSE "refused"
  BY DEF Launch, Accepted
<1>2. Accepted' = Accepted /\ Detected' = Detected /\ High("cpu")' = High("cpu")
  BY <1>1, VmcsKept
<1>3. SegsWritten' /\ ControlsWritten' /\ RegistersWritten' /\ EptWritten'
  BY <1>1, VmcsKept DEF VmcsInv
<1>. QED BY <1>1, <1>2, <1>3 DEF VmcsInv

LEMMA VmcsInvStep == VmcsInv /\ [Next]_vars => VmcsInv'
<1>1. VmcsInv /\ UNCHANGED vars => VmcsInv'
  <2>. SUFFICES ASSUME VmcsInv, UNCHANGED vars PROVE VmcsInv'
    OBVIOUS
  <2>1. UNCHANGED <<m, ctl, guest, seg, host, eptp, bitmap>> /\ pc' = pc
    BY DEF vars
  <2>. QED BY <2>1, VmcsKept DEF VmcsInv
<1>. QED BY <1>1, EnableStep, SegmentsStep, ControlsStep, FaultStep, RegistersStep,
         EptStep, LaunchStep DEF Next

-----------------------------------------------------------------------------
(* VM entry.                                                               *)

\* The segment registers of the guest, by the selector they were filled from.
LEMMA FilledSegment ==
  ASSUME m \in Machines, SegsWritten, NEW s \in Segs
  PROVE  /\ seg[s].sel = m.sel[s] /\ seg[s].limit = GetSegmentDescriptor(m.sel[s]).limit
         /\ seg[s].base = IF s \in {"FS", "GS"} THEN m.base[s]
                          ELSE GetSegmentDescriptor(m.sel[s]).base
         /\ seg[s].attr = IF m.sel[s] = NullSelector
                          THEN GetSegmentDescriptor(m.sel[s]).attr \cup {"unusable"}
                          ELSE GetSegmentDescriptor(m.sel[s]).attr
<1>. DEFINE f == VmxFillGuestSelectorData(m.sel[s])
<1>1. f = [sel |-> m.sel[s], base |-> GetSegmentDescriptor(m.sel[s]).base,
           limit |-> GetSegmentDescriptor(m.sel[s]).limit,
           attr |-> IF m.sel[s] = NullSelector
                    THEN GetSegmentDescriptor(m.sel[s]).attr \cup {"unusable"}
                    ELSE GetSegmentDescriptor(m.sel[s]).attr]
  BY DEF VmxFillGuestSelectorData
<1>2. seg[s] = IF s \in {"FS", "GS"} THEN [f EXCEPT !.base = m.base[s]] ELSE f
  BY DEF SegsWritten
<1>. HIDE DEF f
<1>. QED BY <1>1, <1>2

\* The descriptor of a segment register that was loaded from the GDT.
LEMMA LoadedSegment ==
  ASSUME m \in Machines, NEW s \in Segs, ~m.sel[s].ldt, m.sel[s].index # 0
  PROVE  LET d == m.gdt[m.sel[s].index] IN
         /\ d \in Descriptor /\ "P" \in d.attr /\ "unusable" \notin d.attr
         /\ "S" \in d.attr <=> s \notin {"LDTR", "TR"}
         /\ GetSegmentDescriptor(m.sel[s])
              = [base |-> DescriptorBase(d), limit |-> DescriptorLimit(d), attr |-> d.attr]
<1>. DEFINE d == m.gdt[m.sel[s].index]
<1>1. /\ m.sel[s].index \in DOMAIN m.gdt /\ "P" \in d.attr
      /\ "S" \in d.attr <=> s \notin {"LDTR", "TR"}
  BY SegmentAssumption
<1>2. d \in Descriptor
  BY <1>1, GdtAssumption
<1>3. "unusable" \notin d.attr
  <2>1. d.attr \in SUBSET (STRING \ {"unusable"})
    BY <1>2 DEF Descriptor
  <2>. QED BY <2>1
<1>4. GetSegmentDescriptor(m.sel[s])
        = [base |-> DescriptorBase(d), limit |-> DescriptorLimit(d), attr |-> d.attr]
  BY DEF GetSegmentDescriptor
<1>. QED BY <1>1, <1>2, <1>3, <1>4

\* The processor accepts a segment register that was loaded from the GDT,
\* except a code or data segment that begins above 2 GB.
LEMMA LoadedAccepted ==
  ASSUME m \in Machines, SegsWritten, NEW s \in Segs, ~m.sel[s].ldt, m.sel[s].index # 0
  PROVE  /\ Usable(s)
         /\ SegmentAccepted(s) <=>
              ~(s \in {"ES", "CS", "SS", "DS"} /\ m.gdt[m.sel[s].index].base2 = "large")
<1>. DEFINE d == m.gdt[m.sel[s].index]
<1>1. /\ d \in Descriptor /\ "P" \in d.attr /\ "unusable" \notin d.attr
      /\ "S" \in d.attr <=> s \notin {"LDTR", "TR"}
      /\ GetSegmentDescriptor(m.sel[s])
           = [base |-> DescriptorBase(d), limit |-> DescriptorLimit(d), attr |-> d.attr]
  BY LoadedSegment
<1>. HIDE DEF d
<1>2. m.sel[s] # NullSelector
  BY DEF NullSelector
<1>3. /\ seg[s].limit = DescriptorLimit(d) /\ seg[s].attr = d.attr
      /\ s \notin {"FS", "GS"} => seg[s].base = DescriptorBase(d)
  <2>. DEFINE g == GetSegmentDescriptor(m.sel[s])
  <2>1. /\ seg[s].limit = g.limit /\ seg[s].attr = g.attr
        /\ s \notin {"FS", "GS"} => seg[s].base = g.base
    BY <1>2, FilledSegment
  <2>. HIDE DEF g
  <2>2. g.limit = DescriptorLimit(d) /\ g.attr = d.attr /\ g.base = DescriptorBase(d)
    BY <1>1 DEF g
  <2>. QED BY <2>1, <2>2
<1>4. Usable(s)
  BY <1>1, <1>3 DEF Usable
<1>5. /\ DescriptorLimit(d)[2] < 4095 => "G" \notin d.attr
      /\ DescriptorLimit(d)[1] > 255 => "G" \in d.attr
  <2>1. d.limit \in (0 .. 255) \X (0 .. 4095)
    BY <1>1 DEF Descriptor
  <2>2. CASE "G" \in d.attr
    <3>1. DescriptorLimit(d)[2] = 4095
      BY <2>2 DEF DescriptorLimit
    <3>. QED BY <2>2, <3>1, SMT
  <2>3. CASE "G" \notin d.attr
    <3>1. DescriptorLimit(d)[1] \in 0 .. 255
      BY <2>1, <2>3 DEF DescriptorLimit
    <3>. QED BY <2>3, <3>1, SMT
  <2>. QED BY <2>2, <2>3
<1>6. "S" \in d.attr => (DescriptorBase(d)[1] = "zero" <=> d.base2 # "large")
  BY DEF DescriptorBase, Base
<1>7. m.gdt[m.sel[s].index].base2 = d.base2
  BY DEF d
<1>. QED BY <1>1, <1>3, <1>4, <1>5, <1>6, <1>7 DEF SegmentAccepted

\* It refuses one that holds a null selector other than 0 or one of the LDT.
LEMMA OddSelector ==
  ASSUME m \in Machines, SegsWritten, NEW s \in Segs,
         m.sel[s] # NullSelector, m.sel[s].ldt \/ m.sel[s].index = 0
  PROVE  ~SegmentAccepted(s)
<1>1. seg[s].attr = GetSegmentDescriptor(m.sel[s]).attr
  BY FilledSegment
<1>2. "P" \notin seg[s].attr /\ "unusable" \notin seg[s].attr
  <2>1. CASE m.sel[s].ldt
    BY <1>1, <2>1 DEF GetSegmentDescriptor, Zeroes
  <2>2. CASE ~m.sel[s].ldt
    <3>1. GetSegmentDescriptor(m.sel[s]).attr = m.gdt[0].attr
      BY <2>2 DEF GetSegmentDescriptor
    <3>2. 0 \in DOMAIN m.gdt /\ "P" \notin m.gdt[0].attr
      BY SegmentAssumption
    <3>3. m.gdt[0].attr \in SUBSET (STRING \ {"unusable"})
      <4>1. m.gdt[0] \in Descriptor
        BY <3>2, GdtAssumption
      <4>. QED BY <4>1 DEF Descriptor
    <3>. QED BY <1>1, <3>1, <3>2, <3>3
  <2>. QED BY <2>1, <2>2
<1>. QED BY <1>2 DEF SegmentAccepted, Usable

\* A selector of the host has no table indicator, level 0 and five bits of its
\* index.
LEMMA HostSelectorFields ==
  ASSUME NEW s
  PROVE  /\ HostSelector(s).index = s.index % 32 /\ HostSelector(s).rpl = 0
         /\ ~HostSelector(s).ldt
         /\ HostSelector(s) = [index |-> s.index % 32, ldt |-> FALSE, rpl |-> 0]
<1>. DEFINE i == s.index % 32
<1>1. HostSelector(s) = [index |-> i, ldt |-> FALSE, rpl |-> 0]
  BY Zenon DEF HostSelector
<1>. HIDE DEF i
<1>2. HostSelector(s).index = i /\ HostSelector(s).rpl = 0 /\ ~HostSelector(s).ldt
  BY <1>1
<1>. QED BY <1>1, <1>2, Zenon DEF i

\* VMLAUNCH succeeds exactly when none of these was loaded.
LEMMA LaunchVerdict ==
  ASSUME VmcsInv, pc \in {"launch", "guest", "refused"}
  PROVE  Accepted <=> ~RefusedWhen
<1>1. /\ m \in Machines /\ SegsWritten /\ ControlsWritten /\ RegistersWritten
      /\ guest["PENDING_DBG"] = m.left
  BY DEF VmcsInv
<1>2. ControlsAccepted
  <2>. SUFFICES ASSUME NEW w \in Words PROVE TrueLow(w) \subseteq ctl[w] /\ ctl[w] \subseteq High(w)
    BY DEF ControlsAccepted
  <2>1. TrueLow(w) \subseteq Low(w)
    BY <1>1, CapabilityAssumption DEF TrueLow, Low
  <2>. QED BY <1>1, <2>1 DEF ControlsWritten
<1>3. \A s \in {"CS", "TR"} : ~m.sel[s].ldt /\ m.sel[s].index # 0
  BY <1>1, SegmentAssumption
<1>4. HostAccepted <=> \A s \in {"CS", "TR"} : m.sel[s].index % 32 # 0
  <2>1. \A s \in HostSegs : host.sel[s] = HostSelector(m.sel[s])
    BY <1>1 DEF RegistersWritten
  <2>2. \A s \in HostSegs : /\ host.sel[s].rpl = 0 /\ ~host.sel[s].ldt
                            /\ host.sel[s].index = m.sel[s].index % 32
    BY <2>1, HostSelectorFields, Zenon
  <2>3. "CS" \in HostSegs /\ "TR" \in HostSegs
    BY DEF HostSegs, Segs
  <2>. QED BY <1>1, <2>2, <2>3 DEF HostAccepted, ControlsWritten
<1>5. GuestAccepted <=> (\A s \in Segs : SegmentAccepted(s)) /\ m.left = "zero"
  <2>1. Usable("CS") /\ Usable("TR")
    BY <1>1, <1>3, LoadedAccepted DEF Segs
  <2>2. ~seg["TR"].sel.ldt
    BY <1>1, <1>3, FilledSegment DEF Segs
  <2>. QED BY <1>1, <2>1, <2>2 DEF GuestAccepted, ControlsWritten, RegistersWritten
<1>6. ASSUME ~RefusedWhen, NEW s \in Segs PROVE SegmentAccepted(s)
  <2>1. CASE m.sel[s] = NullSelector
    <3>1. "unusable" \in seg[s].attr
      BY <1>1, <2>1, FilledSegment
    <3>. QED BY <3>1 DEF SegmentAccepted, Usable
  <2>2. CASE m.sel[s] # NullSelector
    <3>1. ~m.sel[s].ldt /\ m.sel[s].index # 0
      BY <1>3, <1>6, <2>2 DEF RefusedWhen, Segs
    <3>2. ~(s \in {"ES", "SS", "DS"} /\ m.gdt[m.sel[s].index].base2 = "large")
      BY <1>6, <2>2 DEF RefusedWhen
    <3>3. m.gdt[m.sel["CS"].index].base2 # "large"
      BY <1>1, SegmentAssumption
    <3>. QED BY <1>1, <3>1, <3>2, <3>3, LoadedAccepted
  <2>. QED BY <2>1, <2>2
<1>7. ASSUME \A s \in Segs : SegmentAccepted(s), m.left = "zero",
             \A s \in {"CS", "TR"} : m.sel[s].index % 32 # 0
      PROVE  ~RefusedWhen
  <2>1. ASSUME NEW s \in {"ES", "SS", "DS", "FS", "GS", "LDTR"}, m.sel[s] # NullSelector
        PROVE  ~m.sel[s].ldt /\ m.sel[s].index # 0
    <3>1. s \in Segs
      BY DEF Segs
    <3>. QED BY <1>1, <1>7, <2>1, <3>1, OddSelector
  <2>2. ASSUME NEW s \in {"ES", "SS", "DS"}, m.sel[s] # NullSelector
        PROVE  m.gdt[m.sel[s].index].base2 # "large"
    <3>1. s \in Segs
      BY DEF Segs
    <3>2. ~m.sel[s].ldt /\ m.sel[s].index # 0
      BY <2>1, <2>2
    <3>. QED BY <1>1, <1>7, <3>1, <3>2, LoadedAccepted
  <2>. QED BY <1>7, <2>1, <2>2 DEF RefusedWhen
<1>8. ~RefusedWhen => m.left = "zero" /\ \A s \in {"CS", "TR"} : m.sel[s].index % 32 # 0
  BY DEF RefusedWhen
<1>. QED BY <1>2, <1>4, <1>5, <1>6, <1>7, <1>8 DEF Accepted

-----------------------------------------------------------------------------
(* The theorems.                                                           *)

\* What a step of doStartVMX has written is in the VMCS from then on, but for
\* what EptInit adds to the controls (vmx.c:420-466).
THEOREM VmcsInvariance == Spec => []VmcsInv
<1>1. Init => VmcsInv
  BY VmcsInit
<1>2. VmcsInv /\ [Next]_vars => VmcsInv'
  BY VmcsInvStep
<1>. QED BY <1>1, <1>2, PTL DEF Spec

\* VMLAUNCH succeeds on every processor that has EPT, except for selectors of
\* the LDT, null selectors other than 0, segments above 2 GB, a code segment or
\* TSS at a multiple of 32 in the GDT and what the fields nobody writes hold
\* (VmxSetupVMCS, EptInit).
THEOREM LaunchesUnlessRefused == Spec => []LaunchExplained
<1>1. VmcsInv => LaunchExplained
  <2>. SUFFICES ASSUME VmcsInv PROVE LaunchExplained
    OBVIOUS
  <2>1. CASE pc \in {"guest", "refused"}
    BY <2>1, LaunchVerdict DEF VmcsInv, LaunchExplained
  <2>2. CASE pc \notin {"guest", "refused"}
    BY <2>2 DEF LaunchExplained
  <2>. QED BY <2>1, <2>2
<1>. QED BY <1>1, VmcsInvariance, PTL

\* The guest runs under EPT and with the MSR bitmap (EptInit, ept.c:471-499).
THEOREM GuestUnderEpt == Spec => []RunsUnderEpt
<1>1. VmcsInv => RunsUnderEpt
  BY DEF VmcsInv, RunsUnderEpt, EptWritten, ControlsWritten, RegistersWritten
<1>. QED BY <1>1, VmcsInvariance, PTL

\* The exits that controls ask for, whatever the processor forces, are those on
\* EPT violations and accesses to CR3 at most (vmx.c:26, vmxexithandler.c:271).
THEOREM ExitsAreHandled == Spec => []OnlyHandledExits
<1>1. VmcsInv => OnlyHandledExits
  <2>. SUFFICES ASSUME VmcsInv, pc = "guest", NEW w \in Words
                PROVE  ctl[w] \cap Exiting \subseteq Handled
    BY DEF OnlyHandledExits
  <2>1. ctl[w] \subseteq Requested \cup Low(w) /\ Low(w) \subseteq Default1[w]
    BY CapabilityAssumption DEF VmcsInv, ControlsWritten, Low
  <2>2. Requested \cap Exiting \subseteq Handled
    BY DEF Requested, Exiting, Handled
  <2>3. Default1[w] \subseteq {"reserved", "cr3_load", "cr3_store", "debug"}
    BY DEF Default1, Words
  <2>4. {"reserved", "cr3_load", "cr3_store", "debug"} \cap Exiting \subseteq Handled
    BY DEF Exiting, Handled
  <2>. QED BY <2>1, <2>2, <2>3, <2>4
<1>. QED BY <1>1, VmcsInvariance, PTL

\* What the guest is given for a segment register is what the processor had.
LEMMA LoadedTruly ==
  ASSUME m \in Machines, SegsWritten, NEW s \in Segs, ~m.sel[s].ldt, m.sel[s].index # 0,
         ~(s \in {"ES", "CS", "SS", "DS"} /\ m.gdt[m.sel[s].index].base2 = "large")
  PROVE  /\ seg[s].sel = Truly(s).sel /\ seg[s].limit = Truly(s).limit
         /\ seg[s].attr = Truly(s).attr /\ seg[s].base = Truly(s).base
         /\ s \notin {"FS", "GS"} => GetSegmentDescriptor(m.sel[s]).base = Truly(s).base
<1>. DEFINE d == m.gdt[m.sel[s].index]
            g == GetSegmentDescriptor(m.sel[s])
<1>1. /\ "S" \in d.attr <=> s \notin {"LDTR", "TR"}
      /\ g = [base |-> DescriptorBase(d), limit |-> DescriptorLimit(d), attr |-> d.attr]
      /\ d \in Descriptor
  BY LoadedSegment
<1>2. m.sel[s] # NullSelector
  BY DEF NullSelector
<1>3. /\ seg[s].sel = m.sel[s] /\ seg[s].limit = g.limit /\ seg[s].attr = g.attr
      /\ seg[s].base = IF s \in {"FS", "GS"} THEN m.base[s] ELSE g.base
  BY <1>2, FilledSegment
<1>4. Truly(s) =
        [sel   |-> m.sel[s],
         base  |-> IF s \in {"FS", "GS"} THEN m.base[s]
                   ELSE IF "S" \in d.attr THEN Base(d, "zero") ELSE Base(d, d.next),
         limit |-> DescriptorLimit(d), attr |-> d.attr]
  BY DEF Truly, DescriptorLimit
<1>5. s \notin {"FS", "GS", "LDTR", "TR"} => d.base2 # "large"
  BY DEF Segs
<1>. HIDE DEF d, g
<1>6. s \notin {"FS", "GS"} =>
        DescriptorBase(d) = IF "S" \in d.attr THEN Base(d, "zero") ELSE Base(d, d.next)
  BY <1>1, <1>5 DEF DescriptorBase
<1>7. g.base = DescriptorBase(d) /\ g.limit = DescriptorLimit(d) /\ g.attr = d.attr
  BY <1>1
<1>8. s \notin {"FS", "GS"} => g.base = Truly(s).base
  BY <1>4, <1>6, <1>7
<1>9. s \in {"FS", "GS"} => m.base[s] = Truly(s).base
  BY <1>4
<1>10. Truly(s).sel = m.sel[s] /\ Truly(s).limit = DescriptorLimit(d) /\ Truly(s).attr = d.attr
  BY <1>4
<1>. QED BY <1>3, <1>7, <1>8, <1>9, <1>10 DEF g

\* The guest goes on with the segment registers and the tables of the system
\* it was, whatever they hold (VmxSetupVMCS, vmx.c:332-398).
THEOREM GuestIsSameMachine == Spec => []SameMachine
<1>1. VmcsInv => SameMachine
  <2>. SUFFICES ASSUME VmcsInv, pc = "guest" PROVE SameMachine
    BY DEF SameMachine
  <2>1. m \in Machines /\ SegsWritten /\ RegistersWritten /\ ~RefusedWhen
    BY LaunchVerdict DEF VmcsInv
  <2>2. \A s \in {"CS", "TR"} : ~m.sel[s].ldt /\ m.sel[s].index # 0
    BY <2>1, SegmentAssumption
  <2>3. ASSUME NEW s \in Segs, m.sel[s] # NullSelector
        PROVE  /\ ~m.sel[s].ldt /\ m.sel[s].index # 0
               /\ ~(s \in {"ES", "CS", "SS", "DS"} /\ m.gdt[m.sel[s].index].base2 = "large")
    <3>1. ~m.sel[s].ldt /\ m.sel[s].index # 0
      BY <2>1, <2>2, <2>3 DEF RefusedWhen, Segs
    <3>2. m.gdt[m.sel["CS"].index].base2 # "large"
      BY <2>1, SegmentAssumption
    <3>. QED BY <2>1, <2>3, <3>1, <3>2 DEF RefusedWhen
  <2>4. \A s \in Segs : Usable(s) => m.sel[s] # NullSelector
    BY <2>1, FilledSegment DEF Usable
  <2>5. ASSUME NEW s \in Segs, Usable(s) PROVE seg[s] = Truly(s)
    <3>1. /\ seg[s].sel = Truly(s).sel /\ seg[s].limit = Truly(s).limit
          /\ seg[s].attr = Truly(s).attr /\ seg[s].base = Truly(s).base
      BY <2>1, <2>3, <2>4, <2>5, LoadedTruly
    <3>2. seg[s] = [sel |-> seg[s].sel, base |-> seg[s].base, limit |-> seg[s].limit,
                    attr |-> seg[s].attr]
      <4>. DEFINE f == VmxFillGuestSelectorData(m.sel[s])
      <4>1. seg[s] = IF s \in {"FS", "GS"} THEN [f EXCEPT !.base = m.base[s]] ELSE f
        BY <2>1 DEF SegsWritten
      <4>2. f = [sel |-> f.sel, base |-> f.base, limit |-> f.limit, attr |-> f.attr]
        BY DEF VmxFillGuestSelectorData
      <4>. HIDE DEF f
      <4>. QED BY <4>1, <4>2
    <3>3. Truly(s) = [sel |-> Truly(s).sel, base |-> Truly(s).base, limit |-> Truly(s).limit,
                      attr |-> Truly(s).attr]
      BY DEF Truly
    <3>. QED BY <3>1, <3>2, <3>3
  <2>6. \A s \in {"FS", "GS"} : seg[s].base = m.base[s] /\ host.base[s] = m.base[s]
    BY <2>1, FilledSegment DEF RegistersWritten, Segs
  <2>7. host.base["TR"] = Truly("TR").base
    <3>1. "TR" \in Segs
      BY DEF Segs
    <3>2. GetSegmentDescriptor(m.sel["TR"]).base = Truly("TR").base
      BY <2>1, <2>2, <3>1, LoadedTruly
    <3>. QED BY <2>1, <3>2 DEF RegistersWritten
  <2>8. \A r \in Shared : guest[r] = r /\ host.regs[r] = r
    BY <2>1 DEF RegistersWritten
  <2>9. ASSUME NEW s \in HostSegs, m.sel[s].index < 32
        PROVE  host.sel[s] = [index |-> m.sel[s].index, ldt |-> FALSE, rpl |-> 0]
    <3>1. m.sel[s] \in [index : Nat, ldt : BOOLEAN, rpl : 0 .. 3]
      BY <2>1, SelectorAssumption DEF HostSegs
    <3>2. m.sel[s].index \in Nat /\ m.sel[s].index % 32 = m.sel[s].index
      BY <2>9, <3>1
    <3>3. host.sel[s] = HostSelector(m.sel[s])
      BY <2>1 DEF RegistersWritten
    <3>. QED BY <3>2, <3>3, HostSelectorFields, Zenon
  <2>. QED BY <2>5, <2>6, <2>7, <2>8, <2>9 DEF SameMachine
<1>. QED BY <1>1, VmcsInvariance, PTL
=============================================================================
