-------------------------------- MODULE EptTlb --------------------------------
(***************************************************************************)
(* Ept with the translations that processors cache.  A processor in guest  *)
(* mode may keep the result of a walk of the tree and use it later without *)
(* looking at the tree again; only INVEPT, or a violation on the same      *)
(* page, makes it forget, and the code has no INVEPT (ept.c:283-286).      *)
(*                                                                         *)
(* A processor keeps one translation here.  It may replace or drop it at   *)
(* any time, and what is said of a cached translation is said of each by   *)
(* itself, so more of them add no behaviour to any.                        *)
(***************************************************************************)
EXTENDS Ept

VARIABLE tlb   \* the translations each processor has cached

tlbVars == <<cnt, mem, lock, running, bootNext, pc, page, lvl, cur, owner, tlb>>

Translation == [page : GuestPages, perm : SUBSET Rights, frame : Page, mt : CacheType]

\* What a walk to p finds now.
Walk(p) ==
  [page |-> p, perm |-> {a \in Rights : Granted(p, a)},
   frame |-> Pte(p).frame, mt |-> Pte(p).mt]

TlbInit == Init /\ tlb = [c \in Cpus |-> {}]

\* A processor that runs as a guest walks to p, and keeps what it finds; an
\* entry that grants nothing is not cached.
Fill(c, p) ==
  /\ c \in running
  /\ pc[c] = "idle"
  /\ Walk(p).perm # {}
  /\ tlb' = [tlb EXCEPT ![c] = {Walk(p)}]
  /\ UNCHANGED vars

\* It drops the translation for another one, or at a switch of CR3.
Evict(c) ==
  /\ tlb[c] # {}
  /\ tlb' = [tlb EXCEPT ![c] = {}]
  /\ UNCHANGED vars

\* A violation on p makes the processor forget p.
Forget(c, p) == tlb' = [tlb EXCEPT ![c] = {x \in @ : x.page # p}]

\* An access that no cached translation grants, nor the tree.
TlbViolation(c, p, a) ==
  /\ \A x \in tlb[c] : x.page = p => a \notin x.perm
  /\ Violation(c, p, a)
  /\ Forget(c, p)

\* An access to a page whose cached translation does not grant it, although
\* by now the tree may: the exit and the handler are the same.
StaleViolation(c, p, a) ==
  /\ c \in running
  /\ pc[c] = "idle"
  /\ \E x \in tlb[c] : x.page = p /\ a \notin x.perm
  /\ pc' = [pc EXCEPT ![c] = "acquire"]
  /\ page' = [page EXCEPT ![c] = p]
  /\ Forget(c, p)
  /\ UNCHANGED <<cnt, mem, lock, running, bootNext, lvl, cur, owner>>

TreeStep ==
  /\ \/ BootPage
     \/ \E c \in Procs : MapStep(c)
     \/ \E c \in Cpus : Launch(c) \/ Acquire(c) \/ Release(c)
  /\ UNCHANGED tlb

TlbNext ==
  \/ TreeStep
  \/ \E c \in Cpus :
       \/ Evict(c)
       \/ \E p \in GuestPages :
            \/ Fill(c, p)
            \/ \E a \in Rights : TlbViolation(c, p, a) \/ StaleViolation(c, p, a)

TlbSpec == TlbInit /\ [][TlbNext]_tlbVars

-----------------------------------------------------------------------------
(* Correctness.                                                            *)

\* Rights need no INVEPT: whatever a processor has cached, the tree grants
\* too, because EptMapPage only ever adds rights to an entry (ept.c:247-272).
CachedRightsGranted ==
  PoolLasts =>
    \A c \in Cpus : \A x \in tlb[c] : \A a \in x.perm : Granted(x.page, a)

\* A wrong translation can be cached only of a page that was mapped on
\* demand, and leads to physical page 0: of RAM, processors have cached the
\* right page, with all rights and write-back, however late they read it.
CachedRamIsRight ==
  PoolLasts =>
    \A c \in Cpus : \A x \in tlb[c] :
      IF x.page \in Ram
      THEN x = [page |-> x.page, perm |-> Rights, frame |-> x.page, mt |-> "WB"]
      ELSE x.frame \in {x.page, ZeroPage} /\ x.mt = "UC"

\* The tree is "11mapping", one to one (ept.c:320, 507): a page that nobody is
\* writing is reached as itself, also through a cached translation.
CachedIdentity ==
  \A c \in Cpus : \A x \in tlb[c] :
    (\A d \in Procs : page[d] # x.page \/ pc[d] = "idle") => x.frame = x.page
=============================================================================
