--------------------------------- MODULE Vmcs ---------------------------------
(***************************************************************************)
(* The VMCS that StartVMX builds on one processor: EnableVMX reads the     *)
(* capabilities of the processor, VmxSetupVMCS and EptInit write the       *)
(* fields, and VMLAUNCH checks them (vmx.c, cpu.c, ept.c:471-499).         *)
(*                                                                         *)
(* The running system becomes the guest, so the guest and the host state   *)
(* are copied from the registers of the processor, segment registers by    *)
(* way of their descriptors, and the controls are what the code asks for,  *)
(* adjusted to what the processor allows.  Whether that is right depends   *)
(* on the processor; the checks of VM entry are the hardware's, stated     *)
(* here as far as a field of this VMCS can fail them.                      *)
(***************************************************************************)
EXTENDS Naturals, Sequences

CONSTANTS
  Machines,   \* the processors, with what their registers hold
  Pml4Phys,   \* g_ept.pml4_phys: its upper and its lower half
  Bitmap      \* PhysicalMsrBitmap, likewise

Words == {"pin", "cpu", "cpu2", "exit", "entry"}
Segs == {"ES", "CS", "SS", "DS", "FS", "GS", "LDTR", "TR"}

\* A selector: its index, its table indicator and its privilege level.
NullSelector == [index |-> 0, ldt |-> FALSE, rpl |-> 0]

\* A descriptor holds bits 0-23 and 24-31 of a base, whose value matters only
\* as far as its top bit is set ("large") or not; a limit of 20 bits, as its
\* upper 8 and its lower 12; attributes, but not the one only a VMCS has; and
\* is followed by 8 bytes that a system descriptor uses for bits 32-63 of its
\* base.
Descriptor == [low : STRING, base2 : {"small", "large"},
               limit : (0 .. 255) \X (0 .. 4095),
               attr : SUBSET (STRING \ {"unusable"}), next : STRING]

ASSUME SelectorAssumption ==
  \A k \in Machines : \A s \in Segs :
    k.sel[s] \in [index : Nat, ldt : BOOLEAN, rpl : 0 .. 3]

ASSUME GdtAssumption ==
  \A k \in Machines : \A j \in DOMAIN k.gdt : k.gdt[j] \in Descriptor

\* The default1 class of the architecture: the controls that a processor may
\* force to one in the MSRs that the code adjusts by.  None of the secondary
\* controls is.
Default1 == [pin |-> {"reserved"}, cpu |-> {"reserved", "cr3_load", "cr3_store"},
             cpu2 |-> {}, exit |-> {"reserved", "debug"}, entry |-> {"reserved", "debug"}]

\* A capability MSR forces no bit that may not be one and none outside the
\* default1 class, the TRUE MSRs force no more than the others, and 64-bit
\* processors have the IA-32e controls.  What an earlier processor left in the
\* globals it read from such an MSR too.
ASSUME CapabilityAssumption ==
  \A k \in Machines :
    /\ \A w \in Words : k.low[w] \subseteq k.high[w] \cap Default1[w]
    /\ k.hasTrue => \A w \in Words \ {"cpu2"} : k.trueLow[w] \subseteq k.low[w]
    /\ "ia32e" \in k.high["exit"] \cap k.high["entry"]
    /\ k.before.default1 = {}

\* A processor in 64-bit mode runs a flat code segment and has a TSS, and a
\* segment register that holds a selector of the GDT was loaded from there:
\* with a present descriptor of its kind, unless the selector is null.
ASSUME SegmentAssumption ==
  \A k \in Machines :
    /\ 0 \in DOMAIN k.gdt /\ "P" \notin k.gdt[0].attr
    /\ \A s \in {"CS", "TR"} : ~k.sel[s].ldt /\ k.sel[s].index # 0
    /\ k.gdt[k.sel["CS"].index].base2 = "small"
    /\ \A s \in Segs : LET i == k.sel[s].index IN
         ~k.sel[s].ldt /\ i # 0 =>
           /\ i \in DOMAIN k.gdt
           /\ "P" \in k.gdt[i].attr
           /\ "S" \in k.gdt[i].attr <=> s \notin {"LDTR", "TR"}

\* A 64-bit base: bits 32-63, 24-31 and 0-23.
Base(d, high) == <<high, d.base2, d.low>>

VARIABLES
  m,         \* the processor, and what its registers hold
  pc,        \* where doStartVMX stands
  secondary, \* vmx_secondary_exec_control, what EnableVMX tests for EPT
  ctl,       \* the control words of the VMCS
  guest,     \* its guest registers
  seg,       \* its guest segment registers
  host,      \* its host registers
  eptp,      \* EPT_POINTER
  bitmap     \* MSR_BITMAP

vars == <<m, pc, secondary, ctl, guest, seg, host, eptp, bitmap>>

-----------------------------------------------------------------------------
(* Capabilities.                                                           *)

\* A capability MSR has a low word, of the bits that must be one, and a high
\* word, of those that may be one.  Processors with the TRUE MSRs (bit 55 of
\* IA32_VMX_BASIC) force fewer bits than the other MSRs say.
High(w) == m.high[w]
Low(w) == m.low[w]
TrueLow(w) == IF m.hasTrue /\ w # "cpu2" THEN m.trueLow[w] ELSE m.low[w]

\* Mutant: the halves of the MSR are swapped.
AdjustSwapped(ctls, w) == (ctls \cap Low(w)) \cup High(w)

\* VmxAdjustControls, which never reads the TRUE MSRs.
VmxAdjustControls(ctls, w) == (ctls \cap High(w)) \cup Low(w)

\* vmx_detect_capability, as far as its result is used: with the TRUE MSRs
\* the global gets what may be one, without them what must be one.  Where the
\* secondary controls are not found, vmx_secondary_exec_default0 and _default1
\* (vmx.c:42-43) are not written, and hold what the processor that ran this
\* code before left in them, or 0.
Detected ==
  IF m.hasTrue
  THEN IF "secondary" \in High("cpu") THEN High("cpu2") ELSE m.before.default0
  ELSE IF "secondary" \in Low("cpu") THEN Low("cpu2") ELSE m.before.default1

-----------------------------------------------------------------------------
(* Segments.                                                               *)

\* Mutant: the base of a system descriptor has 32 bits.
BaseShort(d) == Base(d, "zero")

\* The base GetSegmentDescriptor computes: base2 << 24 is an int, so that its
\* top bit is extended (cpu.c:26), but a system descriptor's is masked.
DescriptorBase(d) ==
  CASE "S" \notin d.attr -> Base(d, d.next)
    [] "S" \in d.attr /\ d.base2 = "large" -> Base(d, "ones")
    [] OTHER -> Base(d, "zero")

\* The limit, scaled to pages when the granularity bit is set.
DescriptorLimit(d) ==
  IF "G" \in d.attr THEN <<d.limit[1] * 4096 + d.limit[2], 4095>> ELSE d.limit

Zeroes == [base |-> <<"zero", "small", "0">>, limit |-> <<0, 0>>, attr |-> {}]

\* GetSegmentDescriptor: a selector of the LDT is refused, and the caller
\* ignores that and goes on with zeroes.
GetSegmentDescriptor(s) ==
  LET d == m.gdt[s.index] IN
  IF s.ldt THEN Zeroes
  ELSE [base |-> DescriptorBase(d), limit |-> DescriptorLimit(d), attr |-> d.attr]

\* Mutant: a null selector is not marked as unusable.
FillUsable(s) ==
  LET d == GetSegmentDescriptor(s) IN
  [sel |-> s, base |-> d.base, limit |-> d.limit, attr |-> d.attr]

\* VmxFillGuestSelectorData: only the selector 0 is unusable, not the null
\* selectors 1 to 3.
VmxFillGuestSelectorData(s) ==
  LET d == GetSegmentDescriptor(s) IN
  [sel |-> s, base |-> d.base, limit |-> d.limit,
   attr |-> IF s = NullSelector THEN d.attr \cup {"unusable"} ELSE d.attr]

-----------------------------------------------------------------------------

\* The registers that guest and host both take over, and the guest's alone.
Shared == {"CR0", "CR3", "CR4", "GDTR_BASE", "IDTR_BASE", "SYSENTER_CS",
           "SYSENTER_EIP", "SYSENTER_ESP"}
Copied == Shared \cup {"GDTR_LIMIT", "IDTR_LIMIT", "RFLAGS", "DEBUGCTL"}
HostSegs == Segs \ {"LDTR"}

\* What the VMCS region holds before, which nobody clears
\* (vmminitstate.c:27), is what the fields hold that nobody writes:
\* EXCEPTION_BITMAP and the masks and shadows of CR0 and CR4, which VM entry
\* takes as they are and VmExit has as MayExit, and
\* GUEST_PENDING_DBG_EXCEPTIONS, where it refuses all but a few bits.
Init ==
  /\ m \in Machines
  /\ pc = "enable"
  /\ secondary = {}
  /\ ctl = [w \in Words |-> {}]
  /\ guest = [r \in {"PENDING_DBG"} |-> m.left]
  /\ seg = << >>
  /\ host = << >>
  /\ eptp = << >>
  /\ bitmap = << >>

\* EnableVMX, up to the check for EPT.
Enable ==
  /\ pc = "enable"
  /\ secondary' = Detected
  /\ pc' = IF "ept" \in Detected THEN "segments" ELSE "unsupported"
  /\ UNCHANGED <<m, ctl, guest, seg, host, eptp, bitmap>>

\* VmxSetupVMCS: the guest's segment registers; the bases of FS and GS are
\* MSRs.
SetupSegments ==
  /\ pc = "segments"
  /\ seg' = [s \in Segs |->
               IF s \in {"FS", "GS"}
               THEN [VmxFillGuestSelectorData(m.sel[s]) EXCEPT !.base = m.base[s]]
               ELSE VmxFillGuestSelectorData(m.sel[s])]
  /\ pc' = "controls"
  /\ UNCHANGED <<m, secondary, ctl, guest, host, eptp, bitmap>>

\* VmxSetupVMCS: the control words.
SetupControls ==
  /\ pc = "controls"
  /\ "secondary" \in High("cpu")
  /\ ctl' = [pin   |-> VmxAdjustControls({}, "pin"),
             cpu   |-> VmxAdjustControls({"msr_bitmap", "secondary"}, "cpu"),
             cpu2  |-> VmxAdjustControls({"rdtscp"}, "cpu2"),
             exit  |-> VmxAdjustControls({"ia32e", "ack_intr"}, "exit"),
             entry |-> VmxAdjustControls({"ia32e"}, "entry")]
  /\ pc' = "registers"
  /\ UNCHANGED <<m, secondary, guest, seg, host, eptp, bitmap>>

\* On a processor without secondary controls, which passed the test for EPT by
\* what another one had left in the globals, there is no
\* MSR_IA32_VMX_PROCBASED_CTLS2 to adjust them by: RDMSR faults (vmx.c:351).
NoSecondary ==
  /\ pc = "controls"
  /\ "secondary" \notin High("cpu")
  /\ ctl' = [ctl EXCEPT !["cpu"] = VmxAdjustControls({"msr_bitmap", "secondary"}, "cpu")]
  /\ pc' = "fault"
  /\ UNCHANGED <<m, secondary, guest, seg, host, eptp, bitmap>>

\* The selector of a host segment: & 0xF8 clears the table indicator and the
\* privilege level, and all but five bits of the index (vmx.c:303-309).
HostSelector(s) == [index |-> s.index % 32, ldt |-> FALSE, rpl |-> 0]

\* VmxSetupVMCS: the other guest and host registers.  The value of a register
\* is its name.
SetupRegisters ==
  /\ pc = "registers"
  /\ guest' = [r \in Copied \cup {"PENDING_DBG", "DR7", "RSP", "RIP", "LINK"} |->
                 CASE r \in Copied -> r
                   [] r = "PENDING_DBG" -> guest[r]
                   [] r = "DR7" -> "0x400"
                   [] r = "RSP" -> "GuestRsp"
                   [] r = "RIP" -> "StartVMXBack"
                   [] r = "LINK" -> "ones"]
  /\ host' = [regs |-> [r \in Shared \cup {"RSP", "RIP"} |->
                          CASE r \in Shared -> r
                            [] r = "RSP" -> "VMMStack"
                            [] r = "RIP" -> "VmxExitHandler"],
              sel  |-> [s \in HostSegs |-> HostSelector(m.sel[s])],
              base |-> [s \in {"FS", "GS", "TR"} |->
                          IF s = "TR" THEN GetSegmentDescriptor(m.sel[s]).base
                          ELSE m.base[s]]]
  /\ bitmap' = Bitmap
  /\ pc' = "ept"
  /\ UNCHANGED <<m, secondary, ctl, seg, eptp>>

\* Mutant: the controls are set anew instead of added to.
EptInitAnew ==
  /\ pc = "ept"
  /\ ctl' = [ctl EXCEPT !["cpu"]  = VmxAdjustControls({"secondary"}, "cpu"),
                        !["cpu2"] = VmxAdjustControls({"ept"}, "cpu2")]
  /\ eptp' = [address |-> Pml4Phys, walk |-> 4, memory |-> "WB"]
  /\ pc' = "launch"
  /\ UNCHANGED <<m, secondary, guest, seg, host, bitmap>>

\* EptInit: both words are read back, extended and adjusted again.  EPT_POINTER
\* is written with the lower half of the address, which clears the upper one,
\* and then EPT_POINTER_HIGH.
EptInit ==
  /\ pc = "ept"
  /\ ctl' = [ctl EXCEPT !["cpu"]  = VmxAdjustControls(@ \cup {"secondary"}, "cpu"),
                        !["cpu2"] = VmxAdjustControls(@ \cup {"ept"}, "cpu2")]
  /\ eptp' = [address |-> Pml4Phys, walk |-> 4, memory |-> "WB"]
  /\ pc' = "launch"
  /\ UNCHANGED <<m, secondary, guest, seg, host, bitmap>>

-----------------------------------------------------------------------------
(* VM entry and exits.                                                     *)

\* The controls that make a guest exit (vmx.h:51-72 and others of the
\* architecture), and those of them whose exits doVmxExitHandler emulates.
Exiting ==
  {"ext_intr", "nmi", "preempt_timer"}
  \cup {"intr_pending", "hlt", "invlpg", "mwait", "rdpmc", "rdtsc", "cr3_load",
        "cr3_store", "cr8_load", "cr8_store", "tpr_shadow", "nmi_pending", "mov_dr",
        "io", "io_bitmap", "trap_flag", "monitor", "pause"}
  \cup {"apic_accesses", "ept", "desc_table", "wbinvd", "pause_loop", "rdrand"}
Handled == {"ept", "cr3_load", "cr3_store"}

ControlsAccepted ==
  \A w \in Words : TrueLow(w) \subseteq ctl[w] /\ ctl[w] \subseteq High(w)

Usable(s) == "unusable" \notin seg[s].attr

\* A usable segment is present; its limit fits its granularity; that of a
\* code or data segment has no upper half of a base.
SegmentAccepted(s) ==
  Usable(s) =>
    /\ "P" \in seg[s].attr
    /\ seg[s].limit[2] < 4095 => "G" \notin seg[s].attr
    /\ seg[s].limit[1] > 255 => "G" \in seg[s].attr
    /\ s \in {"ES", "CS", "SS", "DS"} => seg[s].base[1] = "zero"

HostAccepted ==
  /\ "ia32e" \in ctl["exit"]
  /\ \A s \in HostSegs : host.sel[s].rpl = 0 /\ ~host.sel[s].ldt
  /\ host.sel["CS"].index # 0 /\ host.sel["TR"].index # 0

GuestAccepted ==
  /\ "ia32e" \in ctl["entry"]
  /\ \A s \in Segs : SegmentAccepted(s)
  /\ Usable("CS") /\ Usable("TR") /\ ~seg["TR"].sel.ldt
  /\ guest["LINK"] = "ones"
  /\ guest["PENDING_DBG"] = "zero"

\* VMLAUNCH.
Launch ==
  /\ pc = "launch"
  /\ pc' = IF ControlsAccepted /\ HostAccepted /\ GuestAccepted THEN "guest" ELSE "refused"
  /\ UNCHANGED <<m, secondary, ctl, guest, seg, host, eptp, bitmap>>

Next == Enable \/ SetupSegments \/ SetupControls \/ NoSecondary \/ SetupRegisters
        \/ EptInit \/ Launch

Spec == Init /\ [][Next]_vars

-----------------------------------------------------------------------------
(* Correctness.                                                            *)

\* The processor's own view of a segment register that was loaded from the
\* GDT: 32 bits of base for code and data, 64 for the others.
Truly(s) ==
  LET d == m.gdt[m.sel[s].index] IN
  [sel   |-> m.sel[s],
   base  |-> IF s \in {"FS", "GS"} THEN m.base[s]
             ELSE IF "S" \in d.attr THEN Base(d, "zero") ELSE Base(d, d.next),
   limit |-> IF "G" \in d.attr THEN <<d.limit[1] * 4096 + d.limit[2], 4095>> ELSE d.limit,
   attr  |-> d.attr]

\* The processor refuses the guest only for what a system may really have
\* loaded and the code does not expect: a segment of the LDT, a null selector
\* other than 0, a data segment that begins above 2 GB, a code segment or TSS
\* whose index is a multiple of 32 and so becomes the null selector of the host
\* (vmx.c:304, 309), or something in the fields that are never written; never
\* for a control it does not know.
RefusedWhen ==
  \/ \E s \in {"ES", "SS", "DS", "FS", "GS", "LDTR"} :
       m.sel[s] # NullSelector /\ (m.sel[s].ldt \/ m.sel[s].index = 0)
  \/ \E s \in {"ES", "SS", "DS"} :
       m.sel[s] # NullSelector /\ m.gdt[m.sel[s].index].base2 = "large"
  \/ \E s \in {"CS", "TR"} : m.sel[s].index % 32 = 0
  \/ m.left # "zero"
LaunchExplained ==
  /\ pc = "guest" => ~RefusedWhen
  /\ pc = "refused" => RefusedWhen

\* A guest runs under the tree of Ept from its first instruction on, also when
\* EPT was found in the globals of another processor, and with the MSR bitmap
\* it was given before EptInit rewrote the controls.
RunsUnderEpt ==
  pc = "guest" =>
    /\ "secondary" \in ctl["cpu"] /\ "ept" \in ctl["cpu2"]
    /\ eptp = [address |-> Pml4Phys, walk |-> 4, memory |-> "WB"]
    /\ "msr_bitmap" \in High("cpu") => "msr_bitmap" \in ctl["cpu"] /\ bitmap = Bitmap
    /\ "rdtscp" \in High("cpu2") => "rdtscp" \in ctl["cpu2"]

\* The guest goes on with the machine it had, and the exit handler runs in
\* the same address space with the same tables (vmx.c:332-398): only DR7
\* differs, and in the host the selectors beyond the first 32 descriptors.
SameMachine ==
  pc = "guest" =>
    /\ \A s \in Segs : Usable(s) => seg[s] = Truly(s)
    /\ \A s \in {"FS", "GS"} : seg[s].base = m.base[s] /\ host.base[s] = m.base[s]
    /\ host.base["TR"] = Truly("TR").base
    /\ \A r \in Shared : guest[r] = r /\ host.regs[r] = r
    /\ \A s \in HostSegs :
         m.sel[s].index < 32 =>
           host.sel[s] = [index |-> m.sel[s].index, ldt |-> FALSE, rpl |-> 0]

\* Of all exits that a control may ask for, the guest is given those on EPT
\* violations, which the code asks for, and on moves to and from CR3, which
\* VmxAdjustControls lets the processor force on it (vmx.c:26): for every other
\* one the handler has only its default case, which never ends
\* (vmxexithandler.c:271).
OnlyHandledExits ==
  pc = "guest" => \A w \in Words : ctl[w] \cap Exiting \subseteq Handled
=============================================================================
