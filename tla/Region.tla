------------------------------- MODULE Region -------------------------------
(***************************************************************************)
(* The hand-over of the shared region from the publisher, which lays it    *)
(* out in axivc_region_init_publisher, to a subscriber, which polls        *)
(* axivc_region_validate (src/ivc/region.c, src/ivc/ivc.c:310).  The       *)
(* hypervisor has created the channel and written its identity; from then  *)
(* on both guests run, without any lock.                                   *)
(*                                                                         *)
(* Each step is one group of accesses to the shared page.  Plain stores    *)
(* that a later release store orders are one step.  The first store, which *)
(* clears magic, is a release store: it is ordered after earlier accesses  *)
(* but not before the later ones, so it may reach memory after the rings   *)
(* have been reset; it does so before the final release store.             *)
(***************************************************************************)
CONSTANT
  Before    \* what the page may hold when the channel is created: "blank",
            \* a complete "V3" region or a "V2" region of an earlier session

ASSUME RegionAssumption == Before \subseteq {"blank", "V2", "V3"}

VARIABLES
  page,      \* fixed by the hypervisor: old contents, size, identities
  magic,     \* "MAGIC" or "other"
  version,   \* "V3" or "other"
  layout,    \* the other header fields: "V3" or "other"
  rings,     \* the two rings, in order: of an "old" session, "reset" by
             \* this publisher, or "other"
  pub,       \* the publisher inside axivc_region_init_publisher
  clear,     \* the store that clears magic: "no", "pending" or "visible"
  sub,       \* the subscriber inside axivc_region_validate
  early      \* its magic was loaded before the clear was visible

vars == <<page, magic, version, layout, rings, pub, clear, sub, early>>
shared == <<page, magic, version, layout, rings>>

TypeOK ==
  /\ page \in [before : Before, sizeOK : BOOLEAN, keyOK : BOOLEAN,
               identityOK : BOOLEAN]
  /\ magic \in {"MAGIC", "other"}
  /\ version \in {"V3", "other"}
  /\ layout \in {"V3", "other"}
  /\ rings \in [{1, 2} -> {"old", "reset", "other"}]
  /\ pub \in {"start", "ring1", "ring2", "header", "version", "publish",
              "done", "error"}
  /\ clear \in {"no", "pending", "visible"}
  /\ sub \in {"start", "version", "layout", "ring1", "ring2", "accepted",
              "again", "error"}
  /\ early \in BOOLEAN

Init ==
  /\ page \in [before : Before, sizeOK : BOOLEAN, keyOK : BOOLEAN,
               identityOK : BOOLEAN]
  /\ magic = IF page.before = "blank" THEN "other" ELSE "MAGIC"
  /\ version = IF page.before = "V3" THEN "V3" ELSE "other"
  /\ layout = version
  /\ rings = [i \in {1, 2} |-> IF page.before = "V3" THEN "old" ELSE "other"]
  /\ pub = "start"
  /\ clear = "no"
  /\ sub = "start"
  /\ early = TRUE

-----------------------------------------------------------------------------
(* axivc_region_init_publisher.                                            *)

\* Too small a page (-EINVAL) or a foreign key (-EPROTO).
PubRefuse ==
  /\ pub = "start"
  /\ ~page.sizeOK \/ ~page.keyOK
  /\ pub' = "error"
  /\ UNCHANGED <<shared, clear, sub, early>>

\* smp_store_release(&header->magic, 0) is issued.
PubClear ==
  /\ pub = "start"
  /\ page.sizeOK /\ page.keyOK
  /\ pub' = "ring1"
  /\ clear' = "pending"
  /\ UNCHANGED <<shared, sub, early>>

\* Mutant: the clear is forgotten.
ClearLost ==
  /\ clear = "pending"
  /\ clear' = "visible"
  /\ UNCHANGED <<shared, pub, sub, early>>

\* ... and reaches memory.
ClearVisible ==
  /\ clear = "pending"
  /\ magic' = "other"
  /\ clear' = "visible"
  /\ UNCHANGED <<page, version, layout, rings, pub, sub, early>>

\* axivc_ring_initialize for one direction, then for the other.
PubResetRing(i) ==
  /\ pub = IF i = 1 THEN "ring1" ELSE "ring2"
  /\ rings' = [rings EXCEPT ![i] = "reset"]
  /\ pub' = IF i = 1 THEN "ring2" ELSE "header"
  /\ UNCHANGED <<page, magic, version, layout, clear, sub, early>>

\* The layout fields of the header.
PubHeader ==
  /\ pub = "header"
  /\ layout' = "V3"
  /\ pub' = "version"
  /\ UNCHANGED <<page, magic, version, rings, clear, sub, early>>

\* smp_store_release(&header->version, AXIVC_REGION_VERSION), which orders
\* every earlier store before itself, the clear included.
PubVersion ==
  /\ pub = "version"
  /\ clear = "visible"
  /\ version' = "V3"
  /\ pub' = "publish"
  /\ UNCHANGED <<page, magic, layout, rings, clear, sub, early>>

\* Mutant: the header is never published.
PubPublishNot ==
  /\ pub = "publish"
  /\ pub' = "done"
  /\ UNCHANGED <<shared, clear, sub, early>>

\* smp_store_release(&header->magic, AXIVC_REGION_MAGIC).
PubPublish ==
  /\ pub = "publish"
  /\ magic' = "MAGIC"
  /\ pub' = "done"
  /\ UNCHANGED <<page, version, layout, rings, clear, sub, early>>

-----------------------------------------------------------------------------
(* axivc_region_validate, and the loop of ivc_subscribe_channel around it. *)

\* Too small a page or a foreign identity: -EINVAL.
SubRefuse ==
  /\ sub = "start"
  /\ ~page.sizeOK \/ ~page.identityOK
  /\ sub' = "error"
  /\ UNCHANGED <<shared, pub, clear, early>>

\* smp_load_acquire(&header->magic); without the magic, -EAGAIN.
SubMagic ==
  /\ sub = "start"
  /\ page.sizeOK /\ page.identityOK
  /\ sub' = IF magic = "MAGIC" THEN "version" ELSE "again"
  /\ early' = (clear # "visible")
  /\ UNCHANGED <<shared, pub, clear>>

\* The caller sleeps and validates again.
SubRetry ==
  /\ sub = "again"
  /\ sub' = "start"
  /\ UNCHANGED <<shared, pub, clear, early>>

\* The caller's deadline has passed or a signal came: it gives up.
SubGiveUp ==
  /\ sub = "again"
  /\ sub' = "error"
  /\ UNCHANGED <<shared, pub, clear, early>>

(* One check of the sequence: the next one, or -EPROTO.                    *)
SubCheck(at, ok, next) ==
  /\ sub = at
  /\ sub' = IF ok THEN next ELSE "error"
  /\ UNCHANGED <<shared, pub, clear, early>>

SubVersion == SubCheck("version", version = "V3", "layout")
SubLayout == SubCheck("layout", layout = "V3", "ring1")
SubRing1 == SubCheck("ring1", rings[1] # "other", "ring2")
SubRing2 == SubCheck("ring2", rings[2] # "other", "accepted")

-----------------------------------------------------------------------------
Next ==
  \/ PubRefuse
  \/ PubClear
  \/ ClearVisible
  \/ \E i \in {1, 2} : PubResetRing(i)
  \/ PubHeader
  \/ PubVersion
  \/ PubPublish
  \/ SubRefuse
  \/ SubMagic
  \/ SubRetry
  \/ SubGiveUp
  \/ SubVersion
  \/ SubLayout
  \/ SubRing1
  \/ SubRing2

Spec == Init /\ [][Next]_vars

(* Both guests keep running; nothing says that the subscriber gives up.    *)
Running ==
  /\ WF_vars(PubClear) /\ WF_vars(PubHeader) /\ WF_vars(PubVersion)
  /\ WF_vars(PubPublish) /\ WF_vars(ClearVisible)
  /\ \A i \in {1, 2} : WF_vars(PubResetRing(i))
  /\ WF_vars(SubRefuse) /\ WF_vars(SubMagic) /\ WF_vars(SubRetry)
  /\ WF_vars(SubVersion) /\ WF_vars(SubLayout)
  /\ WF_vars(SubRing1) /\ WF_vars(SubRing2)

LiveSpec == Spec /\ Running

-----------------------------------------------------------------------------
(* No subscriber accepts the region while the publisher is resetting it:   *)
(* publication is cleared first "so a racing subscriber cannot accept      *)
(* stale layout metadata while the rings are being reinitialized"          *)
(* (region.c:43).                                                          *)
NoAcceptWhileResetting ==
  [][(sub # "accepted" /\ sub' = "accepted") =>
        pub \notin {"ring1", "ring2", "header", "version"}]_vars

(* What the order of the publisher's stores does achieve, on any page: a   *)
(* subscriber that loads magic once the clear is visible, or that finds no *)
(* complete region of an earlier session, accepts only when both rings are *)
(* reset for good.                                                         *)
AcceptedIsReady ==
  /\ TypeOK
  /\ sub = "accepted" /\ (~early \/ page.before # "V3") =>
       /\ pub \in {"publish", "done"}
       /\ \A i \in {1, 2} : rings[i] = "reset"

(* A subscriber that keeps polling a sound page is not left waiting once   *)
(* the publisher is through: it is let in or told why not (ivc.c:310).     *)
SubscriberSettles == (pub = "done") ~> (sub \in {"accepted", "error"})
============================================================================
