---------------------------- MODULE RegionProofs ----------------------------
(***************************************************************************)
(* Proof about module Region: why the order of the publisher's stores is   *)
(* enough for a subscriber that loads magic late, or meets no old region.  *)
(***************************************************************************)
EXTENDS Region, TLAPS

(* The publisher: what its place in axivc_region_init_publisher says of    *)
(* the page.  Once the clear is visible, magic is back only at the end.    *)
PubInv ==
  /\ pub \in {"start", "error"} <=> clear = "no"
  /\ pub \in {"publish", "done"} => clear = "visible" /\ version = "V3"
  /\ clear = "visible" /\ pub # "done" => magic = "other"
  /\ pub \in {"ring2", "header", "version", "publish", "done"} =>
       rings[1] = "reset"
  /\ pub \in {"header", "version", "publish", "done"} => rings[2] = "reset"
  /\ page.before # "V3" /\ pub \notin {"publish", "done"} => version = "other"

(* The subscriber: what it has seen tells how far the publisher has come.  *)
SubInv ==
  /\ sub \in {"version", "layout", "ring1", "ring2", "accepted"} /\ ~early =>
       pub = "done"
  /\ sub \in {"layout", "ring1", "ring2", "accepted"} /\ page.before # "V3" =>
       pub \in {"publish", "done"}

RegionInv == TypeOK /\ PubInv /\ SubInv

(* The page as the hypervisor hands it over.                               *)
LEMMA RegionInit == Init => RegionInv
  <1> SUFFICES ASSUME Init PROVE RegionInv
    OBVIOUS
  <1>1. TypeOK
    BY DEF Init, TypeOK
  <1>2. PubInv /\ SubInv
    BY DEF Init, PubInv, SubInv
  <1> QED
    BY <1>1, <1>2 DEF RegionInv

(* Every store of the publisher and every load of the subscriber.          *)
LEMMA RegionStep == RegionInv /\ [Next]_vars => RegionInv'
  <1> SUFFICES ASSUME RegionInv, [Next]_vars PROVE RegionInv'
    OBVIOUS
  <1> USE DEF RegionInv, TypeOK, PubInv, SubInv
  <1>1. CASE PubRefuse
    BY <1>1 DEF PubRefuse, shared
  <1>2. CASE PubClear
    BY <1>2 DEF PubClear, shared
  <1>3. CASE ClearVisible
    BY <1>3 DEF ClearVisible
  <1>4. CASE \E i \in {1, 2} : PubResetRing(i)
    BY <1>4 DEF PubResetRing
  <1>5. CASE PubHeader
    BY <1>5 DEF PubHeader
  <1>6. CASE PubVersion
    BY <1>6 DEF PubVersion
  <1>7. CASE PubPublish
    BY <1>7 DEF PubPublish
  <1>8. CASE SubRefuse \/ SubRetry \/ SubGiveUp
    BY <1>8 DEF SubRefuse, SubRetry, SubGiveUp, shared
  <1>9. CASE SubMagic
    BY <1>9 DEF SubMagic, shared
  <1>10. CASE SubVersion \/ SubLayout \/ SubRing1 \/ SubRing2
    BY <1>10 DEF SubVersion, SubLayout, SubRing1, SubRing2, SubCheck, shared
  <1>11. CASE UNCHANGED vars
    BY <1>11 DEF vars
  <1> QED
    BY <1>1, <1>2, <1>3, <1>4, <1>5, <1>6, <1>7, <1>8, <1>9, <1>10, <1>11
    DEF Next

-----------------------------------------------------------------------------
(* The invariant holds in every state of the hand-over.                    *)
THEOREM RegionInvariant == Spec => []RegionInv
  BY RegionInit, RegionStep, PTL DEF Spec

(* A subscriber that loads magic once the clear is visible, or finds no    *)
(* complete region of an earlier session, is let in only to rings that are *)
(* reset for good (region.c:43-80).                                        *)
THEOREM AcceptedReady == Spec => []AcceptedIsReady
  <1>1. RegionInv => AcceptedIsReady
    BY DEF RegionInv, PubInv, SubInv, AcceptedIsReady
  <1> QED
    BY <1>1, RegionInvariant, PTL

(* The comment at region.c:43 is right wherever no complete region of an   *)
(* earlier session can be met: nobody is let in during the reset.          *)
THEOREM NoAcceptOnFreshPage ==
  ASSUME "V3" \notin Before
  PROVE  Spec => NoAcceptWhileResetting
  <1>1. RegionInv /\ RegionInv' /\ [Next]_vars =>
          [(sub # "accepted" /\ sub' = "accepted") =>
             pub \notin {"ring1", "ring2", "header", "version"}]_vars
    <2> SUFFICES ASSUME RegionInv, RegionInv', Next,
                        sub # "accepted", sub' = "accepted"
                 PROVE  pub \notin {"ring1", "ring2", "header", "version"}
      BY DEF vars
    <2>1. pub' = pub
      BY DEF Next, PubRefuse, PubClear, ClearVisible, PubResetRing, PubHeader,
             PubVersion, PubPublish, SubRefuse, SubMagic, SubRetry, SubGiveUp,
             SubVersion, SubLayout, SubRing1, SubRing2, SubCheck, shared
    <2>2. page'.before # "V3"
      BY DEF RegionInv, TypeOK
    <2> QED
      BY <2>1, <2>2 DEF RegionInv, SubInv
  <1> QED
    BY <1>1, RegionInvariant, PTL DEF Spec, NoAcceptWhileResetting
============================================================================
