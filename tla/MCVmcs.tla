-------------------------------- MODULE MCVmcs --------------------------------
(* Processors for TLC: with and without the TRUE MSRs, EPT, RDTSCP and the  *)
(* acknowledgement of interrupts, after one with EPT or as the first, and   *)
(* with every kind of selector in ES, FS and LDTR and any place of CS and   *)
(* TR in the GDT.                                                           *)
EXTENDS Vmcs

D(low, base2, limit, attr, next) ==
  [low |-> low, base2 |-> base2, limit |-> limit, attr |-> attr, next |-> next]

\* The null descriptor and what follows it, code, data, a data segment above
\* 2 GB, an LDT and the TSS; code and the TSS once more behind the first 32.
MCGdt == [i \in 0 .. 5 \cup {32, 37, 64} |->
  CASE i = 0 -> D("0", "small", <<0, 0>>, {}, "other")
    [] i \in {1, 32} -> D("0", "small", <<255, 4095>>, {"P", "S", "G", "code"}, "zero")
    [] i = 2 -> D("0", "small", <<255, 4095>>, {"P", "S", "G"}, "zero")
    [] i = 3 -> D("teb", "large", <<0, 3072>>, {"P", "S"}, "zero")
    [] i = 4 -> D("ldt", "large", <<0, 103>>, {"P", "ldt"}, "kernel")
    [] i \in {5, 37, 64} -> D("tss", "large", <<0, 103>>, {"P", "tss"}, "kernel")]

S(i, t, r) == [index |-> i, ldt |-> t, rpl |-> r]

MCSelectors == { S(0, FALSE, 0), S(0, FALSE, 3), S(2, FALSE, 3), S(3, FALSE, 3), S(1, TRUE, 3) }

MCSel(es, fs, ldtr, cs, tr) ==
  [ES |-> es, CS |-> S(cs, FALSE, 0), SS |-> S(2, FALSE, 0), DS |-> S(2, FALSE, 3),
   FS |-> fs, GS |-> S(2, FALSE, 3), LDTR |-> ldtr, TR |-> S(tr, FALSE, 0)]

MCLow == Default1
MCTrueLow == [w \in Words \ {"cpu2"} |-> {}]
MCHigh(sec, cpu2, ack) ==
  [pin |-> {"reserved", "ext_intr", "nmi"},
   cpu |-> {"reserved", "msr_bitmap", "cr3_load", "cr3_store", "hlt", "rdtsc", "invlpg"} \cup sec,
   cpu2 |-> cpu2,
   exit |-> {"reserved", "ia32e", "debug"} \cup ack,
   entry |-> {"reserved", "ia32e", "debug"}]

\* What vmx_secondary_exec_default1 and _default0 hold from an earlier processor.
MCBefore == { [default1 |-> {}, default0 |-> d] : d \in {{}, {"ept", "rdtscp"}} }

MCBase == [FS |-> <<"zero", "small", "teb64">>, GS |-> <<"kernel", "large", "pcr">>]

Processors(trueMsrs, selectors, places) ==
  { [hasTrue |-> t, low |-> MCLow, trueLow |-> MCTrueLow, high |-> MCHigh(sec, cpu2, ack),
     before |-> before, gdt |-> MCGdt, sel |-> MCSel(es, fs, ldtr, place[1], place[2]),
     base |-> MCBase, left |-> left] :
      t \in trueMsrs, sec \in {{}, {"secondary"}}, before \in MCBefore,
      cpu2 \in { {"wbinvd", "ept"}, {"vpid", "rdtscp"}, {"wbinvd", "ept", "rdtscp", "vpid"} },
      ack \in {{}, {"ack_intr"}},
      es \in selectors, fs \in selectors,
      ldtr \in {S(0, FALSE, 0), S(4, FALSE, 0)}, place \in places,
      left \in {"zero", "other"} }

\* Where CS and TR are in the GDT.
MCPlaces == { <<1, 5>>, <<32, 5>>, <<1, 64>>, <<1, 37>> }

MCMachines == Processors(BOOLEAN, MCSelectors, MCPlaces)

MCPml4Phys == <<1, 128>>
MCBitmap == <<2, 64>>
=============================================================================
