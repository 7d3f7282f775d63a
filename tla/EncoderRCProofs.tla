-------------------------- MODULE EncoderRCProofs --------------------------
(***************************************************************************)
(* Proofs about EncoderRC, for every panel and every combination of faults *)
(* in which seamless switches meet neither video mode nor failing          *)
(* reservations.                                                           *)
(***************************************************************************)
EXTENDS EncoderRC, TLAPS

\* Seamless switches (PRE_MODESET) meet neither the IDLE state of video mode nor a
\* reservation that fails before POST_MODESET.
NoClash == cfg.dms => ~cfg.vid /\ ~cfg.reserve

\* Nor do they clear esd_recovery_pending under a status work that runs.
NoRecoveryClash == cfg.dms => ~cfg.esd
-----------------------------------------------------------------------------
(* The inductive invariant.                                                *)

\* r has power and clock votes p and c, v references of the vblank irq, and the
\* frame irqs as on says
Holdings == [power : Nat, clk : Nat, vbl : Nat, irqs : BOOLEAN, rsc : BOOLEAN]
Has(r, p, c, v, on) ==
    /\ r \in Holdings
    /\ r.power = p /\ r.clk = c /\ r.vbl = v /\ (r.irqs <=> on)

\* What the encoder holds is a function of rc_state, the panel and the vblank
\* request; only references of the vblank irq may be missing, after a failed KICKOFF
\* or without a hw_pp, where none is counted.
Votes == IF rc = "OFF" \/ (rc = "IDLE" /\ ~cfg.vid) THEN 0 ELSE 1
VblankRefs ==
    IF rc = "MODESET" THEN 0
    ELSE (IF rc \in {"ON", "PRE_OFF"} THEN 1 ELSE 0) + (IF vblank_enabled THEN 1 ELSE 0)
Counts == cfg.vid \/ hw_pp
Exact == ~rcError /\ Counts
Sound(v, refs, exact, counts) ==
    v <= refs /\ (exact => v = refs) /\ (~counts => v = 0)
Held ==
    /\ Has(res, Votes, Votes, res.vbl, rc \in {"ON", "PRE_OFF"})
    /\ Sound(res.vbl, VblankRefs, Exact, Counts)

\* The crtc's request is in force while the crtc is enabled.
Requests == vblank_enabled <=> enabled /\ vblank_requested

\* The display thread in one of its waits that timed out.
Waiting == disp \in {"esd_check", "esd_cancel", "frame_done"}

\* The display thread disables the display; the waits for frames are over.
Disabling == \/ disp \in {"waittx", "pre_stop", "phys_disable", "stop", "crtc_disable"}
             \/ Waiting /\ ret = "waittx"
Stopping == disp \in {"pre_stop", "phys_disable", "stop", "crtc_disable"}

\* Where the display thread is in a commit.
DispPlaces ==
    /\ disp = "idle" <=> mode = "none"
    /\ Waiting <=> ret # "none"
    /\ mode = "disable" <=> Disabling \/ disp = "bridge_disable"
    /\ disp \in {"pre_modeset", "pmwait"} \/ ret = "pmwait" => mode = "dms"
    /\ disp \in {"mode_set", "crtc_enable", "virt_enable", "virt_kickoff"} =>
         mode \in {"enable", "dms"}
    /\ mode = "dms" => cfg.dms
    /\ disp = "vsync" => cfg.vid
    /\ disp = "esd_cancel" => cfg.esd
    /\ inputReg \/ inputWork => ~cfg.vid

\* Whether the display is up: the encoder has a master from virt_enable to STOP, the
\* crtc is enabled from sde_crtc_enable to sde_crtc_disable.
Upness ==
    /\ disp \in {"mode_set", "crtc_enable"} /\ mode = "enable" => ~enabled
    /\ disp \notin {"idle", "mode_set", "crtc_enable"} \/ mode = "dms" => enabled
    /\ cur_master <=> /\ enabled /\ disp # "crtc_disable"
                      /\ ~(disp = "virt_enable" /\ mode = "enable")

\* What each state of the resource control says of the display thread.
RcPlaces ==
    /\ rc = "MODESET" => disp = "mode_set"
    /\ rc = "PRE_OFF" => disp \in {"phys_disable", "stop"}
    /\ ~cur_master => rc = "OFF"
    /\ RcLocked => rc = "ON"
    /\ disp \in {"phys_disable", "stop"} =>
         rc \in {"OFF", "PRE_OFF"} \/ (rc = "IDLE" /\ ~cfg.vid)

\* While the display is down nothing of it runs.
Quiet ==
    /\ ~cur_master \/ disp \in {"phys_disable", "stop"} => offWork = "none"
    /\ ~cur_master \/ Stopping => irq = "none" /\ ~busy
    /\ ~cur_master => ~EsdRunning
    /\ Disabling => esd \in {"off", "dead"}
    /\ esd # "off" => cfg.esd
    /\ NoRecoveryClash => esd # "self_cancel" /\ (EsdRunning => pending)

\* Frames in flight, and who will report them.
Frames ==
    /\ irq # "none" => tx > 0 /\ physOn /\ ~busy
    /\ busy => physOn
    /\ busy => \/ tx > 0 \/ Waiting \/ disp = "vsync"
               \/ esd \in {"esd_check", "frame_done", "self_cancel"}
    /\ disp \in {"rc_kickoff", "commit"} \/ Waiting => tx = 0
    /\ Stopping => tx = 0 \/ ~physOn
    /\ cfg.vid => irq = "none" /\ (tx > 0 \/ busy => disp = "vsync")

\* Every frame event on its way to the event thread is a frame that is counted.
Tokens ==
    /\ fevents + (IF busy THEN 1 ELSE 0) + (IF irq \in {"check", "arm", "event"} THEN 1 ELSE 0)
               + (IF esd \in {"arm", "event"} THEN 1 ELSE 0) <= frame_pending
    /\ mode \in {"enable", "frame", "dms"} /\ disp # "vsync" => frame_pending < MaxPending

\* A frame in flight keeps the resources on, and a display that is up has none only
\* after a failed KICKOFF: a mode switch finds them otherwise, and sets the mode in
\* MODESET.
Powered ==
    /\ disp = "commit" /\ ~rcError => rc = "ON"
    /\ NoRecoveryClash /\ busy /\ ~rcError => rc = "ON"
    /\ /\ rc = "OFF" /\ enabled /\ mode # "disable"
       /\ ~(mode = "enable" /\ disp \in {"virt_enable", "virt_kickoff"})
       => rcError
    /\ disp = "mode_set" /\ mode = "dms" => rc = "MODESET" \/ rcError
    /\ attached \/ rc # "OFF" => hw_pp

IInv ==
    /\ TypeOK /\ Held /\ Requests /\ DispPlaces /\ Upness /\ RcPlaces
    /\ Quiet /\ Frames /\ Tokens /\ Powered
-----------------------------------------------------------------------------
(* What the encoder holds, field by field.                                 *)

\* Assigning a field leaves the others alone.
LEMMA Assigned ==
    ASSUME NEW r \in Holdings, NEW n \in Nat, NEW m \in Nat, NEW b \in BOOLEAN
    PROVE  /\ Has([r EXCEPT !.vbl = n], r.power, r.clk, n, r.irqs)
           /\ Has([r EXCEPT !.irqs = b], r.power, r.clk, r.vbl, b)
           /\ Has([r EXCEPT !.rsc = b], r.power, r.clk, r.vbl, r.irqs)
           /\ Has([r EXCEPT !.power = n, !.clk = m], n, m, r.vbl, r.irqs)
BY Zenon DEF Has, Holdings

Raised(v) == IF Counts THEN v + 1 ELSE v
Lowered(v) == IF Counts /\ v > 0 THEN v - 1 ELSE v

\* control_vblank_irq: the refcount goes up, or down to zero at most, if it counts.
LEMMA VblankIrqEffect ==
    ASSUME NEW r \in Holdings
    PROVE  /\ Has(VblankIrq(r, TRUE), r.power, r.clk, Raised(r.vbl), r.irqs)
           /\ Has(VblankIrq(r, FALSE), r.power, r.clk, Lowered(r.vbl), r.irqs)
<1>1. CASE Counts
  <2>1. PICK n : n = r.vbl + 1
    OBVIOUS
  <2>2. PICK m : m = IF r.vbl = 0 THEN 0 ELSE r.vbl - 1
    OBVIOUS
  <2>3. n \in Nat /\ m \in Nat
    BY <2>1, <2>2 DEF Holdings
  <2>4. VblankIrq(r, TRUE) = [r EXCEPT !.vbl = n] /\ VblankIrq(r, FALSE) = [r EXCEPT !.vbl = m]
    BY <1>1, <2>1, <2>2, Zenon DEF VblankIrq, Holdings, Counts
  <2>5. /\ Has([r EXCEPT !.vbl = n], r.power, r.clk, n, r.irqs)
        /\ Has([r EXCEPT !.vbl = m], r.power, r.clk, m, r.irqs)
    BY <2>3, Assigned, Zenon
  <2>6. n = Raised(r.vbl) /\ m = Lowered(r.vbl)
    BY <1>1, <2>1, <2>2 DEF Raised, Lowered, Holdings
  <2> QED
    BY <2>4, <2>5, <2>6, Zenon
<1>2. CASE ~Counts
  <2>1. VblankIrq(r, TRUE) = r /\ VblankIrq(r, FALSE) = r
    BY <1>2, Zenon DEF VblankIrq, Counts
  <2>2. Raised(r.vbl) = r.vbl /\ Lowered(r.vbl) = r.vbl
    BY <1>2, Zenon DEF Raised, Lowered
  <2> QED
    BY <2>1, <2>2, Zenon DEF Has
<1> QED
  BY <1>1, <1>2

\* What a reference more or less does to the account of references.
LEMMA RaisedSound ==
    ASSUME NEW v \in Nat, NEW refs \in Nat, Sound(v, refs, Exact, Counts),
           NEW exact, exact => Exact
    PROVE  /\ Raised(v) \in Nat /\ Lowered(v) \in Nat
           /\ Sound(Raised(v), refs + 1, exact, Counts)
           /\ refs > 0 => Sound(Lowered(v), refs - 1, exact, Counts)
BY DEF Sound, Exact, Raised, Lowered

\* _sde_encoder_irq_control: the irqs, and a reference of the vblank irq with them.
LEMMA IrqControlEffect ==
    ASSUME NEW r \in Holdings
    PROVE  /\ Has(IrqControl(r, TRUE), r.power, r.clk, Raised(r.vbl), TRUE)
           /\ Has(IrqControl(r, FALSE), r.power, r.clk, Lowered(r.vbl), FALSE)
<1>1. PICK a : a = VblankIrq(r, TRUE)
  OBVIOUS
<1>2. PICK b : b = VblankIrq(r, FALSE)
  OBVIOUS
<1>3. /\ IrqControl(r, TRUE) = [a EXCEPT !.irqs = TRUE]
      /\ IrqControl(r, FALSE) = [b EXCEPT !.irqs = FALSE]
  BY <1>1, <1>2, Zenon DEF IrqControl
<1>4. a \in Holdings /\ a.power = r.power /\ a.clk = r.clk /\ a.vbl = Raised(r.vbl)
  BY <1>1, VblankIrqEffect, Zenon DEF Has
<1>5. b \in Holdings /\ b.power = r.power /\ b.clk = r.clk
      /\ b.vbl = Lowered(r.vbl)
  BY <1>2, VblankIrqEffect, Zenon DEF Has
<1>6. Has([a EXCEPT !.irqs = TRUE], a.power, a.clk, a.vbl, TRUE)
  <2>1. a.vbl \in Nat /\ TRUE \in BOOLEAN
    BY <1>4 DEF Holdings
  <2> QED
    BY <1>4, <2>1, Assigned, Zenon
<1>7. Has([b EXCEPT !.irqs = FALSE], b.power, b.clk, b.vbl, FALSE)
  <2>1. b.vbl \in Nat /\ FALSE \in BOOLEAN
    BY <1>5 DEF Holdings
  <2> QED
    BY <1>5, <2>1, Assigned, Zenon
<1> QED
  BY <1>3, <1>4, <1>5, <1>6, <1>7, Zenon

\* _sde_encoder_resource_control_helper: a vote each for power and clocks, and irqs.
LEMMA HelperEffect ==
    ASSUME NEW r \in Holdings
    PROVE  /\ Has(HelperOn(r), r.power + 1, r.clk + 1, Raised(r.vbl), TRUE)
           /\ r.power > 0 /\ r.clk > 0 =>
                Has(HelperOff(r), r.power - 1, r.clk - 1,
                    Lowered(r.vbl), FALSE)
<1>1. PICK p : p = r.power + 1
  OBVIOUS
<1>2. PICK c : c = r.clk + 1
  OBVIOUS
<1>3. PICK a : a = [r EXCEPT !.power = p, !.clk = c]
  OBVIOUS
<1>4. p \in Nat /\ c \in Nat
  BY <1>1, <1>2 DEF Holdings
<1>5. Has(a, p, c, r.vbl, r.irqs)
  BY <1>3, <1>4, Assigned, Zenon
<1>6. HelperOn(r) = IrqControl(a, TRUE)
  BY <1>1, <1>2, <1>3, Zenon DEF HelperOn, Holdings
<1>7. a \in Holdings /\ a.power = p /\ a.clk = c /\ a.vbl = r.vbl
  BY <1>5, Zenon DEF Has
<1>8. Has(IrqControl(a, TRUE), a.power, a.clk, Raised(a.vbl), TRUE)
  BY <1>7, IrqControlEffect, Zenon
<1>9. Has(HelperOn(r), r.power + 1, r.clk + 1, Raised(r.vbl), TRUE)
  BY <1>1, <1>2, <1>6, <1>7, <1>8, Zenon
<1>10. ASSUME r.power > 0, r.clk > 0
       PROVE  Has(HelperOff(r), r.power - 1, r.clk - 1,
                  Lowered(r.vbl), FALSE)
  <2>1. PICK g : g = IrqControl(r, FALSE)
    OBVIOUS
  <2>2. Has(g, r.power, r.clk, Lowered(r.vbl), FALSE)
    BY <2>1, IrqControlEffect, Zenon
  <2>3. /\ g \in Holdings /\ g.power = r.power /\ g.clk = r.clk
        /\ g.vbl = Lowered(r.vbl) /\ (g.irqs <=> FALSE)
    BY <2>2, Zenon DEF Has
  <2>4. PICK n : n = g.power - 1
    OBVIOUS
  <2>5. PICK m : m = g.clk - 1
    OBVIOUS
  <2>6. n \in Nat /\ m \in Nat
    BY <1>10, <2>3, <2>4, <2>5 DEF Holdings
  <2>7. HelperOff(r) = [g EXCEPT !.power = n, !.clk = m]
    BY <2>1, <2>3, <2>4, <2>5, Zenon DEF HelperOff, Holdings
  <2>8. Has([g EXCEPT !.power = n, !.clk = m], n, m, g.vbl, g.irqs)
    BY <2>3, <2>6, Assigned, Zenon
  <2>9. Has(HelperOff(r), n, m, g.vbl, FALSE)
    BY <2>3, <2>7, <2>8, Zenon DEF Has
  <2> QED
    BY <2>3, <2>4, <2>5, <2>9, Zenon
<1> QED
  BY <1>9, <1>10, Zenon

\* _sde_encoder_resource_control_rsc_update touches only the vote of the RSC client.
LEMMA RscUpdateEffect ==
    ASSUME NEW r \in Holdings, NEW en \in BOOLEAN
    PROVE  Has(RscUpdate(r, en), r.power, r.clk, r.vbl, r.irqs)
BY Assigned, Zenon DEF RscUpdate, Has, Holdings
-----------------------------------------------------------------------------
(* The events of sde_encoder_resource_control keep what the encoder holds. *)

\* The fields of what is held, as Held says.
LEMMA HeldFields ==
    ASSUME Held
    PROVE  /\ res \in Holdings /\ res.power = Votes /\ res.clk = Votes
           /\ Sound(res.vbl, VblankRefs, Exact, Counts) /\ res.vbl \in Nat
           /\ (res.irqs <=> rc \in {"ON", "PRE_OFF"})
BY Zenon DEF Held, Has, Holdings

\* The account of references while a step adds a user, takes one away, or neither.
LEMMA References ==
    ASSUME Held, vblank_enabled \in BOOLEAN, vblank_enabled' \in BOOLEAN,
           UNCHANGED <<cfg, hw_pp>>, Exact' => Exact
    PROVE  /\ VblankRefs' = VblankRefs + 1 =>
                Sound(Raised(res.vbl), VblankRefs', Exact', Counts')
           /\ VblankRefs' = VblankRefs - 1 =>
                Sound(Lowered(res.vbl), VblankRefs', Exact', Counts')
           /\ VblankRefs' = VblankRefs =>
                Sound(res.vbl, VblankRefs', Exact', Counts')
<1>1. PICK refs : refs = VblankRefs
  OBVIOUS
<1>2. PICK next : next = VblankRefs'
  OBVIOUS
<1>3. PICK exact \in BOOLEAN : exact <=> Exact'
  BY DEF Exact
<1>4. refs \in Nat /\ next \in Nat
  BY <1>1, <1>2 DEF VblankRefs
<1>5. res.vbl \in Nat /\ Sound(res.vbl, refs, Exact, Counts) /\ (Counts' <=> Counts)
  BY <1>1, HeldFields DEF Counts
<1>6. exact => Exact
  BY <1>3
<1>7. /\ Sound(Raised(res.vbl), refs + 1, exact, Counts)
      /\ refs > 0 => Sound(Lowered(res.vbl), refs - 1, exact, Counts)
  BY <1>4, <1>5, <1>6, RaisedSound
<1>8. Sound(res.vbl, refs, exact, Counts)
  BY <1>5, <1>6, Zenon DEF Sound
<1>9. next = refs - 1 => refs > 0
  BY <1>4
<1>10. /\ next = refs + 1 => Sound(Raised(res.vbl), next, exact, Counts)
       /\ next = refs - 1 => Sound(Lowered(res.vbl), next, exact, Counts)
       /\ next = refs => Sound(res.vbl, next, exact, Counts)
  BY <1>7, <1>8, <1>9, Zenon
<1> QED
  BY <1>1, <1>2, <1>3, <1>5, <1>10, Zenon DEF Sound

\* ... and back, after a step.
LEMMA HeldPrimed ==
    ASSUME NEW p, NEW c, NEW v, NEW on, Has(res', p, c, v, on),
           p = Votes', c = Votes', Sound(v, VblankRefs', Exact', Counts'),
           on <=> rc' \in {"ON", "PRE_OFF"}
    PROVE  Held'
BY Zenon DEF Held, Has

\* Steps that touch none of what the resource control keeps.
LEMMA HeldSame ==
    ASSUME Held, UNCHANGED <<cfg, hw_pp, rc, res, vblank_enabled>>, Exact' => Exact
    PROVE  Held'
<1>1. /\ Votes' = Votes /\ VblankRefs' = VblankRefs /\ (Counts' <=> Counts)
      /\ rc' = rc /\ res' = res
  BY DEF Votes, VblankRefs, Counts
<1>2. Sound(res'.vbl, VblankRefs', Exact', Counts')
  BY <1>1, Zenon DEF Held, Sound
<1>3. Has(res', Votes', Votes', res'.vbl, rc' \in {"ON", "PRE_OFF"})
  BY <1>1, Zenon DEF Held, Has
<1> QED
  BY <1>2, <1>3 DEF Held

\* Resources are taken from a state in which there are none.
LEMMA HelperEnableHeld ==
    ASSUME Held, vblank_enabled \in BOOLEAN, NEW ok \in BOOLEAN, HelperEnable(ok),
           rc = "OFF" \/ (rc = "IDLE" /\ ~cfg.vid),
           UNCHANGED <<cfg, hw_pp, vblank_enabled>>, Exact' => Exact
    PROVE  /\ Held'
           /\ \/ ok /\ rc' = "ON" /\ cur_master /\ attached
              \/ ~ok /\ rc' = rc
<1>1. CASE /\ ok /\ rc' = "ON" /\ res' = RscUpdate(HelperOn(res), TRUE)
           /\ cur_master /\ attached
  <2>1. PICK h : h = HelperOn(res)
    OBVIOUS
  <2>2. Has(h, res.power + 1, res.clk + 1, Raised(res.vbl), TRUE)
    BY <2>1, HelperEffect, HeldFields, Zenon
  <2>3. h \in Holdings /\ h.power = res.power + 1 /\ h.clk = res.clk + 1
        /\ h.vbl = Raised(res.vbl) /\ (h.irqs <=> TRUE)
    BY <2>2, Zenon DEF Has
  <2>4. Has(res', h.power, h.clk, h.vbl, h.irqs)
    BY <1>1, <2>1, <2>3, RscUpdateEffect, Zenon
  <2>5. h.power = 1 /\ h.clk = 1 /\ Sound(h.vbl, VblankRefs', Exact', Counts')
    BY <1>1, <2>3, HeldFields, References DEF Votes, VblankRefs
  <2>6. Votes' = 1 /\ rc' \in {"ON", "PRE_OFF"}
    BY <1>1 DEF Votes
  <2> QED
    BY <1>1, <2>3, <2>4, <2>5, <2>6, HeldPrimed, Zenon
<1>2. CASE ~ok /\ UNCHANGED <<rc, res>>
  BY <1>2, HeldSame
<1> QED
  BY <1>1, <1>2 DEF HelperEnable

\* KICKOFF ends in ON, or fails and changes nothing.
LEMMA KickoffEffect ==
    ASSUME Held, vblank_enabled \in BOOLEAN, NEW ok \in BOOLEAN, RcKickoff(ok),
           UNCHANGED <<cfg, hw_pp, vblank_enabled>>, Exact' => Exact
    PROVE  /\ Held' /\ offWork' = "none"
           /\ \/ ok /\ rc' = "ON" /\ (rc \in {"ON", "IDLE"} \/ (cur_master /\ attached))
              \/ ~ok /\ rc' = rc /\ rc # "ON"
<1>1. CASE /\ UNCHANGED <<rc, res>>
           /\ ((rc = "ON" /\ ok) \/ (rc \in {"PRE_OFF", "MODESET"} /\ ~ok))
  <2>1. Held'
    BY <1>1, HeldSame
  <2> QED
    BY <1>1, <2>1 DEF RcKickoff, CancelOffWork
<1>2. CASE cfg.vid /\ rc = "IDLE" /\ ok /\ rc' = "ON" /\ res' = IrqControl(res, TRUE)
  <2>1. Has(res', res.power, res.clk, Raised(res.vbl), TRUE)
    BY <1>2, IrqControlEffect, HeldFields, Zenon
  <2>2. /\ res.power = Votes' /\ res.clk = Votes'
        /\ Sound(Raised(res.vbl), VblankRefs', Exact', Counts')
    BY <1>2, HeldFields, References DEF Votes, VblankRefs
  <2>3. Held'
    BY <1>2, <2>1, <2>2, HeldPrimed, Zenon
  <2> QED
    BY <1>2, <2>3 DEF RcKickoff, CancelOffWork
<1>3. CASE (rc = "OFF" \/ (rc = "IDLE" /\ ~cfg.vid)) /\ HelperEnable(ok)
  <2>1. /\ Held'
        /\ \/ ok /\ rc' = "ON" /\ cur_master /\ attached
           \/ ~ok /\ rc' = rc
    BY <1>3, HelperEnableHeld, Zenon
  <2> QED
    BY <1>3, <2>1 DEF RcKickoff, CancelOffWork
<1> QED
  BY <1>1, <1>2, <1>3 DEF RcKickoff

\* PRE_STOP ends in PRE_OFF with the resources on, or finds none.
LEMMA PreStopEffect ==
    ASSUME Held, vblank_enabled \in BOOLEAN, rc \notin {"PRE_OFF", "MODESET"},
           rc \in {"OFF", "ON", "IDLE"}, RcPreStop,
           UNCHANGED <<cfg, hw_pp, vblank_enabled>>, Exact' => Exact
    PROVE  /\ Held' /\ offWork' = "none"
           /\ \/ rc' = "PRE_OFF" /\ rc # "OFF"
              \/ rc' = rc /\ (rc = "OFF" \/ (rc = "IDLE" /\ ~cfg.vid))
<1>1. CASE /\ cfg.vid /\ rc = "IDLE" /\ rc' = "PRE_OFF"
           /\ res' = RscUpdate(IrqControl(res, TRUE), FALSE)
  <2>1. PICK h : h = IrqControl(res, TRUE)
    OBVIOUS
  <2>2. Has(h, res.power, res.clk, Raised(res.vbl), TRUE)
    BY <2>1, IrqControlEffect, HeldFields, Zenon
  <2>3. h \in Holdings /\ h.power = res.power /\ h.clk = res.clk
        /\ h.vbl = Raised(res.vbl) /\ (h.irqs <=> TRUE)
    BY <2>2, Zenon DEF Has
  <2>4. Has(res', h.power, h.clk, h.vbl, h.irqs)
    BY <1>1, <2>1, <2>3, RscUpdateEffect, Zenon
  <2>5. h.power = Votes' /\ h.clk = Votes' /\ Sound(h.vbl, VblankRefs', Exact', Counts')
    BY <1>1, <2>3, HeldFields, References DEF Votes, VblankRefs
  <2>6. Held'
    BY <1>1, <2>3, <2>4, <2>5, HeldPrimed, Zenon
  <2> QED
    BY <1>1, <2>6 DEF RcPreStop, CancelOffWork
<1>2. CASE (rc = "OFF" \/ (rc = "IDLE" /\ ~cfg.vid)) /\ UNCHANGED <<rc, res>>
  <2>1. Held'
    BY <1>2, HeldSame
  <2> QED
    BY <1>2, <2>1 DEF RcPreStop, CancelOffWork
<1>3. CASE rc \notin {"OFF", "IDLE"} /\ rc' = "PRE_OFF" /\ res' = RscUpdate(res, FALSE)
  <2>1. Has(res', res.power, res.clk, res.vbl, res.irqs)
    BY <1>3, HeldFields, RscUpdateEffect, Zenon
  <2>2. res.power = Votes' /\ res.clk = Votes' /\ Sound(res.vbl, VblankRefs', Exact', Counts')
    BY <1>3, HeldFields, References DEF Votes, VblankRefs
  <2>3. res.irqs <=> rc' \in {"ON", "PRE_OFF"}
    BY <1>3, HeldFields
  <2>4. Held'
    BY <2>1, <2>2, <2>3, Zenon DEF Held, Has
  <2> QED
    BY <1>3, <2>4 DEF RcPreStop, CancelOffWork
<1> QED
  BY <1>1, <1>2, <1>3 DEF RcPreStop

\* STOP releases what PRE_STOP left on.
LEMMA StopEffect ==
    ASSUME Held, vblank_enabled \in BOOLEAN, cur_master, RcStop,
           rc \in {"OFF", "PRE_OFF"} \/ (rc = "IDLE" /\ ~cfg.vid),
           UNCHANGED <<cfg, hw_pp, vblank_enabled>>, Exact' => Exact
    PROVE  Held' /\ rc' = "OFF"
<1>1. CASE rc = "OFF" /\ UNCHANGED <<rc, res>>
  BY <1>1, HeldSame
<1>2. CASE rc = "PRE_OFF" /\ rc' = "OFF" /\ res' = HelperOff(res)
  <2>1. res.power = 1 /\ res.clk = 1
    BY <1>2, HeldFields DEF Votes
  <2>2. res.power > 0 /\ res.clk > 0
    BY <2>1
  <2>3. Has(res', res.power - 1, res.clk - 1, Lowered(res.vbl), FALSE)
    BY <1>2, <2>2, HelperEffect, HeldFields, Zenon
  <2>4. res.power - 1 = Votes' /\ res.clk - 1 = Votes'
    BY <1>2, <2>1 DEF Votes
  <2>5. Sound(Lowered(res.vbl), VblankRefs', Exact', Counts')
    BY <1>2, HeldFields, References DEF VblankRefs
  <2>6. FALSE <=> rc' \in {"ON", "PRE_OFF"}
    BY <1>2
  <2> QED
    BY <1>2, <2>3, <2>4, <2>5, <2>6, HeldPrimed, Zenon
<1>3. CASE rc = "IDLE" /\ rc' = "OFF" /\ UNCHANGED res /\ ~cfg.vid
  <2>1. Has(res', res.power, res.clk, res.vbl, res.irqs)
    BY <1>3, HeldFields, Zenon DEF Has
  <2>2. res.power = Votes' /\ res.clk = Votes' /\ Sound(res.vbl, VblankRefs', Exact', Counts')
    BY <1>3, HeldFields, References DEF Votes, VblankRefs
  <2>3. res.irqs <=> rc' \in {"ON", "PRE_OFF"}
    BY <1>3, HeldFields
  <2> QED
    BY <1>3, <2>1, <2>2, <2>3, Zenon DEF Held, Has
<1> QED
  BY <1>1, <1>2, <1>3 DEF RcStop

\* The first part of PRE_MODESET, in command mode: resources on if they are idle.
LEMMA PreModesetOnEffect ==
    ASSUME Held, vblank_enabled \in BOOLEAN, NEW ok \in BOOLEAN, RcPreModesetOn(ok),
           rc \in {"OFF", "ON", "IDLE"}, ~cfg.vid,
           UNCHANGED <<cfg, hw_pp, vblank_enabled>>, Exact' => Exact
    PROVE  /\ Held' /\ offWork' = "none"
           /\ \/ ok /\ rc' = rc /\ rc \in {"OFF", "ON"}
              \/ ok /\ rc' = "ON" /\ rc = "IDLE"
              \/ ~ok /\ rc' = rc /\ rc = "IDLE"
<1>1. CASE rc \in {"OFF", "ON"} /\ ok /\ UNCHANGED <<rc, res>>
  <2>1. Held'
    BY <1>1, HeldSame
  <2> QED
    BY <1>1, <2>1 DEF RcPreModesetOn, CancelOffWork
<1>2. CASE rc = "IDLE" /\ HelperEnable(ok)
  <2>1. /\ Held'
        /\ \/ ok /\ rc' = "ON" /\ cur_master /\ attached
           \/ ~ok /\ rc' = rc
    BY <1>2, HelperEnableHeld, Zenon
  <2> QED
    BY <1>2, <2>1 DEF RcPreModesetOn, CancelOffWork
<1> QED
  BY <1>1, <1>2 DEF RcPreModesetOn

\* ... the second part gives the irqs and the crtc's vblank reference away ...
LEMMA PreModesetOffEffect ==
    ASSUME Held, vblank_enabled \in BOOLEAN, RcPreModesetOff, rc = "ON",
           UNCHANGED <<cfg, hw_pp, vblank_enabled>>, Exact' => Exact
    PROVE  Held' /\ rc' = "MODESET"
<1>1. PICK h : h = IrqControl(res, FALSE)
  OBVIOUS
<1>2. Has(h, res.power, res.clk, Lowered(res.vbl), FALSE)
  BY <1>1, IrqControlEffect, HeldFields, Zenon
<1>3. h \in Holdings /\ h.power = res.power /\ h.clk = res.clk
      /\ h.vbl = Lowered(res.vbl) /\ (h.irqs <=> FALSE)
  BY <1>2, Zenon DEF Has
<1>4. res.power = Votes' /\ res.clk = Votes' /\ VblankRefs' = 0 /\ rc' = "MODESET"
  BY HeldFields DEF Votes, VblankRefs, RcPreModesetOff
<1>5. CASE vblank_enabled
  <2>1. h.vbl \in {0, 1} /\ (h.vbl = 1 => Counts)
    BY <1>3, <1>5, HeldFields DEF VblankRefs, Sound, Lowered
  <2>2. res' = VblankIrq(h, FALSE)
    BY <1>1, <1>5, Zenon DEF RcPreModesetOff
  <2>3. Has(res', h.power, h.clk, Lowered(h.vbl), h.irqs)
    BY <1>3, <2>2, VblankIrqEffect, Zenon
  <2>4. Sound(Lowered(h.vbl), VblankRefs', Exact', Counts')
    BY <1>4, <2>1 DEF Lowered, Sound
  <2>5. h.irqs <=> rc' \in {"ON", "PRE_OFF"}
    BY <1>3, <1>4
  <2> QED
    BY <1>3, <1>4, <2>3, <2>4, <2>5, Zenon DEF Held, Has
<1>6. CASE ~vblank_enabled
  <2>1. h.vbl = 0
    BY <1>3, <1>6, HeldFields DEF VblankRefs, Sound, Lowered
  <2>2. res' = h
    BY <1>1, <1>6, Zenon DEF RcPreModesetOff
  <2>3. Sound(h.vbl, VblankRefs', Exact', Counts')
    BY <1>4, <2>1 DEF Sound
  <2>5. h.irqs <=> rc' \in {"ON", "PRE_OFF"}
    BY <1>3, <1>4
  <2> QED
    BY <1>3, <1>4, <2>2, <2>3, <2>5, Zenon DEF Held, Has
<1> QED
  BY <1>5, <1>6

\* ... and POST_MODESET takes both back, once mode_set has started the count again.
LEMMA PostModesetEffect ==
    ASSUME Held, vblank_enabled \in BOOLEAN, rc = "MODESET", Counts, Counts',
           NEW r, Has(r, res.power, res.clk, 0, FALSE), RcPostModeset(r),
           UNCHANGED <<cfg, vblank_enabled>>
    PROVE  Held' /\ rc' = "ON"
<1>1. PICK h : h = IF vblank_enabled THEN VblankIrq(r, TRUE) ELSE r
  OBVIOUS
<1>2. r \in Holdings /\ r.power = res.power /\ r.clk = res.clk /\ r.vbl = 0
  BY Zenon DEF Has
<1>3. h \in Holdings /\ h.power = res.power /\ h.clk = res.clk
      /\ h.vbl = IF vblank_enabled THEN Raised(r.vbl) ELSE r.vbl
  BY <1>1, <1>2, VblankIrqEffect, Zenon DEF Has
<1>4. h.vbl = IF vblank_enabled THEN 1 ELSE 0
  BY <1>2, <1>3 DEF Raised
<1>5. PICK k : k = IrqControl(h, TRUE)
  OBVIOUS
<1>6. Has(k, h.power, h.clk, Raised(h.vbl), TRUE)
  BY <1>3, <1>5, IrqControlEffect, Zenon
<1>7. /\ k \in Holdings /\ k.power = h.power /\ k.clk = h.clk
      /\ k.vbl = Raised(h.vbl) /\ (k.irqs <=> TRUE)
  BY <1>6, Zenon DEF Has
<1>8. rc' = "ON" /\ res' = [k EXCEPT !.rsc = TRUE]
  BY <1>1, <1>5, Zenon DEF RcPostModeset
<1>9. Has([k EXCEPT !.rsc = TRUE], k.power, k.clk, k.vbl, k.irqs)
  BY <1>7, Assigned, Zenon
<1>10. k.power = Votes' /\ k.clk = Votes'
  BY <1>3, <1>7, <1>8, HeldFields DEF Votes
<1>11. k.vbl = VblankRefs'
  BY <1>4, <1>7, <1>8 DEF VblankRefs, Raised
<1>12. Sound(k.vbl, VblankRefs', Exact', Counts')
  <2>1. VblankRefs' \in Nat
    BY <1>8 DEF VblankRefs
  <2> QED
    BY <1>11, <2>1 DEF Sound
<1>13. k.irqs <=> rc' \in {"ON", "PRE_OFF"}
  BY <1>7, <1>8
<1> QED
  BY <1>8, <1>9, <1>10, <1>12, <1>13, Zenon DEF Held, Has

\* A mode set outside MODESET loses what was counted: nothing while the display is
\* off, whatever there was after a failed KICKOFF.
LEMMA ModeSetEffect ==
    ASSUME Held, vblank_enabled \in BOOLEAN, Has(res', res.power, res.clk, 0, res.irqs),
           UNCHANGED <<cfg, rc, vblank_enabled>>, Exact' => VblankRefs = 0
    PROVE  Held'
<1>1. res.power = Votes' /\ res.clk = Votes' /\ VblankRefs' = VblankRefs
  BY HeldFields DEF Votes, VblankRefs
<1>2. VblankRefs \in Nat
  BY DEF VblankRefs
<1>3. Sound(0, VblankRefs', Exact', Counts')
  BY <1>1, <1>2 DEF Sound
<1>4. res.irqs <=> rc' \in {"ON", "PRE_OFF"}
  BY HeldFields
<1> QED
  BY <1>1, <1>3, <1>4, HeldPrimed, Zenon

\* ENTER_IDLE gives up the irqs, and in command mode everything.
LEMMA EnterIdleEffect ==
    ASSUME Held, vblank_enabled \in BOOLEAN, cfg.vid \in BOOLEAN, RcEnterIdle,
           UNCHANGED <<cfg, hw_pp, vblank_enabled>>, Exact' => Exact
    PROVE  Held' /\ (rc' = rc \/ (rc = "ON" /\ rc' = "IDLE" /\ ~busy))
<1>1. CASE UNCHANGED <<rc, res>>
  BY <1>1, HeldSame
<1>2. ASSUME rc = "ON", ~busy, rc' = "IDLE", cfg.vid, res' = IrqControl(res, FALSE)
      PROVE  Held'
  <2>1. Has(res', res.power, res.clk, Lowered(res.vbl), FALSE)
    BY <1>2, IrqControlEffect, HeldFields, Zenon
  <2>2. /\ res.power = Votes' /\ res.clk = Votes'
        /\ Sound(Lowered(res.vbl), VblankRefs', Exact', Counts')
    BY <1>2, HeldFields, References DEF Votes, VblankRefs
  <2>3. FALSE <=> rc' \in {"ON", "PRE_OFF"}
    BY <1>2
  <2> QED
    BY <2>1, <2>2, <2>3, Zenon DEF Held, Has
<1>3. ASSUME rc = "ON", ~busy, rc' = "IDLE", ~cfg.vid, res' = HelperOff(RscUpdate(res, FALSE))
      PROVE  Held'
  <2>1. PICK h : h = RscUpdate(res, FALSE)
    OBVIOUS
  <2>2. Has(h, res.power, res.clk, res.vbl, res.irqs)
    BY <2>1, HeldFields, RscUpdateEffect, Zenon
  <2>3. h \in Holdings /\ h.power = res.power /\ h.clk = res.clk /\ h.vbl = res.vbl
    BY <2>2, Zenon DEF Has
  <2>4. h.power = 1 /\ h.clk = 1
    BY <1>3, <2>3, HeldFields DEF Votes
  <2>5. h.power > 0 /\ h.clk > 0
    BY <2>4
  <2>6. Has(res', h.power - 1, h.clk - 1, Lowered(h.vbl), FALSE)
    BY <1>3, <2>1, <2>3, <2>5, HelperEffect, Zenon
  <2>7. h.power - 1 = Votes' /\ h.clk - 1 = Votes'
    BY <1>3, <2>4 DEF Votes
  <2>8. Sound(Lowered(h.vbl), VblankRefs', Exact', Counts')
    BY <1>3, <2>3, HeldFields, References DEF VblankRefs
  <2>9. FALSE <=> rc' \in {"ON", "PRE_OFF"}
    BY <1>3
  <2> QED
    BY <2>6, <2>7, <2>8, <2>9, Zenon DEF Held, Has
<1> QED
  BY <1>1, <1>2, <1>3 DEF RcEnterIdle

\* EARLY_WAKEUP from the input handler of a command mode panel.
LEMMA EarlyWakeupEffect ==
    ASSUME Held, vblank_enabled \in BOOLEAN, ~cfg.vid, RcEarlyWakeup,
           UNCHANGED <<cfg, hw_pp, vblank_enabled>>, Exact' => Exact
    PROVE  /\ Held'
           /\ rc' = rc \/ (rc = "IDLE" /\ rc' = "ON" /\ cur_master)
           /\ offWork' = offWork \/ (offWork' = "armed" /\ rc' = "ON")
<1>1. CASE UNCHANGED <<rc, res>>
  <2>1. Held'
    BY <1>1, HeldSame
  <2>2. offWork' = offWork \/ (offWork' = "armed" /\ rc' = "ON")
    BY <1>1 DEF RcEarlyWakeup, HelperEnable
  <2> QED
    BY <1>1, <2>1, <2>2
<1>2. ASSUME NEW ok \in BOOLEAN, rc = "IDLE", HelperEnable(ok),
             offWork' = IF ok THEN "armed" ELSE offWork
      PROVE  /\ Held'
             /\ rc' = rc \/ (rc = "IDLE" /\ rc' = "ON" /\ cur_master)
             /\ offWork' = offWork \/ (offWork' = "armed" /\ rc' = "ON")
  <2>1. /\ Held'
        /\ \/ ok /\ rc' = "ON" /\ cur_master /\ attached
           \/ ~ok /\ rc' = rc
    BY <1>2, HelperEnableHeld, Zenon
  <2> QED
    BY <1>2, <2>1
<1> QED
  BY <1>1, <1>2 DEF RcEarlyWakeup

\* The crtc's own reference of the vblank irq comes and goes with its request.
LEMMA VblankEffect ==
    ASSUME Held, rc # "MODESET", vblank_enabled \in BOOLEAN, vblank_enabled' \in BOOLEAN,
           UNCHANGED <<cfg, hw_pp, rc>>, Exact' => Exact,
           \/ ~vblank_enabled /\ vblank_enabled' /\ res' = VblankIrq(res, TRUE)
           \/ vblank_enabled /\ ~vblank_enabled' /\ res' = VblankIrq(res, FALSE)
    PROVE  Held'
<1>1. CASE ~vblank_enabled /\ vblank_enabled' /\ res' = VblankIrq(res, TRUE)
  <2>1. Has(res', res.power, res.clk, Raised(res.vbl), res.irqs)
    BY <1>1, VblankIrqEffect, HeldFields, Zenon
  <2>2. /\ res.power = Votes' /\ res.clk = Votes'
        /\ Sound(Raised(res.vbl), VblankRefs', Exact', Counts')
    BY <1>1, HeldFields, References DEF Votes, VblankRefs
  <2>3. res.irqs <=> rc' \in {"ON", "PRE_OFF"}
    BY HeldFields
  <2> QED
    BY <2>1, <2>2, <2>3, Zenon DEF Held, Has
<1>2. CASE vblank_enabled /\ ~vblank_enabled' /\ res' = VblankIrq(res, FALSE)
  <2>1. Has(res', res.power, res.clk, Lowered(res.vbl), res.irqs)
    BY <1>2, VblankIrqEffect, HeldFields, Zenon
  <2>2. /\ res.power = Votes' /\ res.clk = Votes'
        /\ Sound(Lowered(res.vbl), VblankRefs', Exact', Counts')
    BY <1>2, HeldFields, References DEF Votes, VblankRefs
  <2>3. res.irqs <=> rc' \in {"ON", "PRE_OFF"}
    BY HeldFields
  <2> QED
    BY <2>1, <2>2, <2>3, Zenon DEF Held, Has
<1> QED
  BY <1>1, <1>2

-----------------------------------------------------------------------------
(* The steps.                                                              *)

\* The types, variable by variable.
LEMMA TypeFacts ==
    ASSUME TypeOK
    PROVE  /\ cfg.vid \in BOOLEAN /\ cfg.dms \in BOOLEAN /\ cfg.esd \in BOOLEAN
           /\ cfg.votes \in BOOLEAN /\ cfg.reserve \in BOOLEAN /\ cfg.tmo \in BOOLEAN
           /\ cur_master \in BOOLEAN /\ crtc \in BOOLEAN /\ attached \in BOOLEAN
           /\ hw_pp \in BOOLEAN
           /\ physOn \in BOOLEAN /\ enabled \in BOOLEAN /\ idle_pc \in BOOLEAN
           /\ vblank_enabled \in BOOLEAN /\ vblank_requested \in BOOLEAN
           /\ inputReg \in BOOLEAN /\ inputWork \in BOOLEAN /\ busy \in BOOLEAN
           /\ pending \in BOOLEAN /\ rcError \in BOOLEAN
<1>1. cfg \in ConfigType
  BY RCConstants DEF TypeOK
<1>2. /\ cfg.vid \in BOOLEAN /\ cfg.dms \in BOOLEAN /\ cfg.esd \in BOOLEAN
      /\ cfg.votes \in BOOLEAN /\ cfg.reserve \in BOOLEAN /\ cfg.tmo \in BOOLEAN
  BY <1>1, Zenon DEF ConfigType
<1> QED
  BY <1>2, Zenon DEF TypeOK

USE DEF dispvars, workvars, txvars, evvars, encvars, vblvars, esdvars, Goto, Done

\* The type invariant in parts: flags, places and counts, and what is held.
Flags == {cur_master, crtc, attached, hw_pp, physOn, enabled, idle_pc, vblank_enabled,
          vblank_requested, inputReg, inputWork, busy, pending, rcError}
Ranges ==
    /\ cfg \in Configs
    /\ rc \in {"OFF", "PRE_OFF", "ON", "MODESET", "IDLE"}
    /\ offWork \in {"none", "armed", "queued"}
    /\ mode \in {"none", "enable", "frame", "dms", "disable"}
    /\ disp \in {"idle", "mode_set", "pre_modeset", "pmwait", "crtc_enable",
                 "virt_enable", "virt_kickoff", "prepare", "rc_kickoff", "commit",
                 "vsync", "bridge_disable", "waittx", "pre_stop", "phys_disable", "stop",
                 "crtc_disable", "esd_check", "esd_cancel", "frame_done"}
    /\ ret \in {"none", "prepare", "waittx", "pmwait"}
    /\ tx \in 0 .. 1 /\ frame_pending \in 0 .. MaxPending /\ fevents \in 0 .. MaxPending
    /\ irq \in {"none", "check", "arm", "event", "dec"}
    /\ esd \in {"off", "armed", "trigger", "waittx", "esd_check", "self_cancel",
                "frame_done", "arm", "event", "dead"}

\* A step that keeps the parts keeps the type invariant: the votes and references
\* that Held speaks of are within the bounds.
LEMMA TypeParts ==
    ASSUME Held', Flags' \subseteq BOOLEAN, Ranges'
    PROVE  TypeOK'
<1>1. vblank_enabled' \in BOOLEAN
  BY Zenon DEF Flags
<1>2. /\ res' \in Holdings /\ res'.power = Votes' /\ res'.clk = Votes'
      /\ res'.vbl <= VblankRefs' /\ res'.vbl \in Nat
  BY Zenon DEF Held, Has, Sound, Holdings
<1>3. res'.power \in 0 .. 2 /\ res'.clk \in 0 .. 2 /\ res'.vbl \in 0 .. 2
  BY <1>1, <1>2 DEF Votes, VblankRefs
<1>4. res' \in [power : 0 .. 2, clk : 0 .. 2, vbl : 0 .. 2, irqs : BOOLEAN, rsc : BOOLEAN]
  BY <1>2, <1>3, Zenon DEF Holdings
<1> QED
  BY <1>4, Zenon DEF TypeOK, Flags, Ranges

\* A commit reaches the display thread.
LEMMA CommitStep ==
    ASSUME IInv, NoClash, NEW m \in {"enable", "frame", "dms", "disable"}, Commit(m)
    PROVE  IInv'
<1>1. Held'
  <2>1. CASE m = "enable"
    <3>1. ~enabled /\ UNCHANGED <<cfg, hw_pp, rc, res, vblank_enabled>>
      BY <2>1 DEF Commit
    <3>2. ~vblank_enabled /\ rc = "OFF"
      BY <3>1 DEF IInv, Requests, Upness, RcPlaces
    <3>3. VblankRefs' = 0 /\ VblankRefs = 0 /\ Votes' = Votes /\ (Counts' <=> Counts)
      BY <3>1, <3>2 DEF VblankRefs, Votes, Counts
    <3>4. res.vbl \in Nat /\ res.vbl <= 0
      BY <3>3, HeldFields DEF IInv, Sound
    <3>5. Sound(res'.vbl, VblankRefs', Exact', Counts')
      BY <3>1, <3>3, <3>4 DEF Sound
    <3>6. Has(res', Votes', Votes', res'.vbl, rc' \in {"ON", "PRE_OFF"})
      BY <3>1, <3>3 DEF IInv, Held, Has
    <3> QED
      BY <3>5, <3>6 DEF Held
  <2>2. CASE m # "enable"
    BY <2>2, HeldSame DEF IInv, Exact, Counts, Commit
  <2> QED
    BY <2>1, <2>2
<1>2. Flags' \subseteq BOOLEAN
  BY TypeFacts, Zenon DEF IInv, Flags, Commit
<1>3. Ranges'
  BY DEF IInv, TypeOK, Ranges, Commit
<1>4. TypeOK'
  BY <1>1, <1>2, <1>3, TypeParts
<1>5. Requests'
  BY DEF IInv, Requests, Commit
<1>6. DispPlaces'
  BY DEF IInv, DispPlaces, Disabling, Waiting, Commit
<1>7. Upness'
  BY DEF IInv, Upness, Commit
<1>8. RcPlaces'
  BY DEF IInv, RcPlaces, RcLocked, Commit
<1>9. Quiet'
  BY DEF IInv, Quiet, Disabling, EsdRunning, NoRecoveryClash, Stopping, Waiting, Commit
<1>10. Frames'
  BY DEF IInv, Frames, Stopping, Waiting, Commit
<1>11. Tokens'
  BY DEF IInv, Tokens, MaxPending, Commit
<1>12. Powered'
  <2>1. /\ disp' = "commit" /\ ~rcError' => rc' = "ON"
        /\ NoRecoveryClash' /\ busy' /\ ~rcError' => rc' = "ON"
    BY DEF IInv, Powered, Upness, Quiet, Disabling, EsdRunning, NoRecoveryClash, Stopping,
       Waiting, Commit
  <2>2. /\ mode = "none" /\ rc' = rc /\ enabled' = enabled /\ attached' = attached
        /\ hw_pp' = hw_pp /\ (mode' # "enable" => disp' # "mode_set" /\ rcError' = rcError)
        /\ (mode' = "enable" => ~enabled)
    BY DEF IInv, DispPlaces, Commit
  <2> QED
    BY <2>1, <2>2 DEF IInv, Powered
<1> QED
  BY <1>1, <1>4, <1>5, <1>6, <1>7, <1>8, <1>9, <1>10, <1>11, <1>12 DEF IInv

\* The encoder has a master again; nothing of the display ran before.
LEMMA VirtEnableStep ==
    ASSUME IInv, NoClash, virt_enable
    PROVE  IInv'
<1>1. Held'
  BY HeldSame DEF IInv, Exact, Counts, virt_enable
<1>2. Flags' \subseteq BOOLEAN
  BY TypeFacts, Zenon DEF IInv, Flags, virt_enable
<1>3. Ranges'
  BY DEF IInv, TypeOK, Ranges, virt_enable
<1>4. TypeOK'
  BY <1>1, <1>2, <1>3, TypeParts
<1>5. Requests'
  BY DEF IInv, Requests, virt_enable
<1>6. DispPlaces'
  BY TypeFacts DEF IInv, DispPlaces, Disabling, Waiting, virt_enable
<1>7. Upness'
  BY TypeFacts DEF IInv, Upness, virt_enable
<1>8. RcPlaces'
  BY DEF IInv, RcPlaces, RcLocked, virt_enable
<1>9. Quiet'
  BY DEF IInv, Quiet, DispPlaces, Upness, Disabling, EsdRunning, NoRecoveryClash, Stopping,
     Waiting, NoClash, virt_enable
<1>10. Frames'
  BY DEF IInv, Frames, Stopping, Waiting, virt_enable
<1>11. Tokens'
  BY DEF IInv, Tokens, MaxPending, virt_enable
<1>12. Powered'
  BY DEF IInv, Powered, NoRecoveryClash, virt_enable
<1> QED
  BY <1>1, <1>4, <1>5, <1>6, <1>7, <1>8, <1>9, <1>10, <1>11, <1>12 DEF IInv

\* The previous frame is out.
LEMMA PrepareStep ==
    ASSUME IInv, NoClash, PrepareForKickoff
    PROVE  IInv'
<1>1. Held'
  BY HeldSame DEF IInv, Exact, Counts, PrepareForKickoff
<1>2. Flags' \subseteq BOOLEAN
  BY TypeFacts, Zenon DEF IInv, Flags, PrepareForKickoff
<1>3. Ranges'
  BY DEF IInv, TypeOK, Ranges, Frames, Waiting, PrepareForKickoff
<1>4. TypeOK'
  BY <1>1, <1>2, <1>3, TypeParts
<1>5. Requests'
  BY DEF IInv, Requests, PrepareForKickoff
<1>6. DispPlaces'
  BY DEF IInv, DispPlaces, Disabling, Waiting, PrepareForKickoff
<1>7. Upness'
  BY DEF IInv, Upness, PrepareForKickoff
<1>8. RcPlaces'
  BY DEF IInv, RcPlaces, RcLocked, PrepareForKickoff
<1>9. Quiet'
  BY DEF IInv, Quiet, Disabling, EsdRunning, NoRecoveryClash, Stopping, Waiting,
     PrepareForKickoff
<1>10. Frames'
  BY DEF IInv, Frames, TypeOK, Stopping, Waiting, PrepareForKickoff
<1>11. Tokens'
  BY DEF IInv, Tokens, MaxPending, PrepareForKickoff
<1>12. Powered'
  BY DEF IInv, Powered, NoRecoveryClash, PrepareForKickoff
<1> QED
  BY <1>1, <1>4, <1>5, <1>6, <1>7, <1>8, <1>9, <1>10, <1>11, <1>12 DEF IInv

\* A frame is counted and kicked off.
LEMMA CommitKickoffStep ==
    ASSUME IInv, NoClash, commit_kickoff
    PROVE  IInv'
<1>1. Held'
  BY HeldSame DEF IInv, Exact, Counts, commit_kickoff
<1>2. Flags' \subseteq BOOLEAN
  BY TypeFacts, Zenon DEF IInv, Flags, commit_kickoff
<1>3. Ranges'
  BY DEF IInv, TypeOK, Ranges, Tokens, MaxPending, Frames, Waiting, DispPlaces, Disabling,
     commit_kickoff
<1>4. TypeOK'
  BY <1>1, <1>2, <1>3, TypeParts
<1>5. Requests'
  BY DEF IInv, Requests, commit_kickoff
<1>6. DispPlaces'
  BY DEF IInv, DispPlaces, Disabling, Waiting, commit_kickoff
<1>7. Upness'
  BY DEF IInv, Upness, commit_kickoff
<1>8. RcPlaces'
  BY DEF IInv, RcPlaces, RcLocked, commit_kickoff
<1>9. Quiet'
  BY DEF IInv, Quiet, Upness, Disabling, EsdRunning, NoRecoveryClash, Stopping, Waiting,
     commit_kickoff
<1>10. Frames'
  BY DEF IInv, Frames, Stopping, Waiting, commit_kickoff
<1>11. Tokens'
  BY DEF IInv, Tokens, TypeOK, MaxPending, commit_kickoff
<1>12. Powered'
  BY DEF IInv, Powered, NoRecoveryClash, commit_kickoff
<1> QED
  BY <1>1, <1>4, <1>5, <1>6, <1>7, <1>8, <1>9, <1>10, <1>11, <1>12 DEF IInv

\* Video mode: the commit reports its frame.
LEMMA VidFrameDoneStep ==
    ASSUME IInv, NoClash, VidFrameDone
    PROVE  IInv'
<1>1. Held'
  BY HeldSame DEF IInv, Exact, Counts, VidFrameDone
<1>2. Flags' \subseteq BOOLEAN
  BY TypeFacts, Zenon DEF IInv, Flags, VidFrameDone, FrameDoneArms
<1>3. Ranges'
  BY DEF IInv, TypeOK, Ranges, Tokens, MaxPending, VidFrameDone, FrameDoneArms
<1>4. TypeOK'
  BY <1>1, <1>2, <1>3, TypeParts
<1>5. Requests'
  BY DEF IInv, Requests, VidFrameDone, FrameDoneArms
<1>6. DispPlaces'
  BY DEF IInv, DispPlaces, Disabling, Waiting, VidFrameDone, FrameDoneArms
<1>7. Upness'
  BY DEF IInv, Upness, VidFrameDone, FrameDoneArms
<1>8. RcPlaces'
  BY DEF IInv, RcPlaces, RcLocked, VidFrameDone, FrameDoneArms
<1>9. Quiet'
  BY DEF IInv, Quiet, Disabling, EsdRunning, NoRecoveryClash, Stopping, Waiting,
     VidFrameDone, FrameDoneArms
<1>10. Frames'
  BY DEF IInv, Frames, Stopping, Waiting, VidFrameDone, FrameDoneArms
<1>11. Tokens'
  BY DEF IInv, Tokens, MaxPending, VidFrameDone, FrameDoneArms
<1>12. Powered'
  BY DEF IInv, Powered, DispPlaces, Disabling, Waiting, NoRecoveryClash, VidFrameDone,
     FrameDoneArms
<1> QED
  BY <1>1, <1>4, <1>5, <1>6, <1>7, <1>8, <1>9, <1>10, <1>11, <1>12 DEF IInv

\* No ESD check runs while the display goes down.
LEMMA BridgeDisableStep ==
    ASSUME IInv, NoClash, bridge_disable
    PROVE  IInv'
<1>1. Held'
  BY HeldSame DEF IInv, Exact, Counts, bridge_disable
<1>2. Flags' \subseteq BOOLEAN
  BY TypeFacts, Zenon DEF IInv, Flags, bridge_disable, EsdRunning
<1>3. Ranges'
  BY DEF IInv, TypeOK, Ranges, bridge_disable, EsdRunning
<1>4. TypeOK'
  BY <1>1, <1>2, <1>3, TypeParts
<1>5. Requests'
  BY DEF IInv, Requests, bridge_disable, EsdRunning
<1>6. DispPlaces'
  BY DEF IInv, DispPlaces, Disabling, Waiting, bridge_disable, EsdRunning
<1>7. Upness'
  BY DEF IInv, Upness, bridge_disable, EsdRunning
<1>8. RcPlaces'
  BY DEF IInv, RcPlaces, RcLocked, bridge_disable, EsdRunning
<1>9. Quiet'
  BY DEF IInv, Quiet, Disabling, NoRecoveryClash, Stopping, Waiting, bridge_disable,
     EsdRunning
<1>10. Frames'
  BY DEF IInv, Frames, Stopping, Waiting, bridge_disable, EsdRunning
<1>11. Tokens'
  BY DEF IInv, Tokens, MaxPending, bridge_disable, EsdRunning
<1>12. Powered'
  BY DEF IInv, Powered, NoRecoveryClash, bridge_disable, EsdRunning
<1> QED
  BY <1>1, <1>4, <1>5, <1>6, <1>7, <1>8, <1>9, <1>10, <1>11, <1>12 DEF IInv

\* The last frame is out before the display stops.
LEMMA DisableWaitStep ==
    ASSUME IInv, NoClash, DisableWait
    PROVE  IInv'
<1>1. Held'
  BY HeldSame DEF IInv, Exact, Counts, DisableWait
<1>2. Flags' \subseteq BOOLEAN
  BY TypeFacts, Zenon DEF IInv, Flags, DisableWait
<1>3. Ranges'
  BY DEF IInv, TypeOK, Ranges, DisableWait
<1>4. TypeOK'
  BY <1>1, <1>2, <1>3, TypeParts
<1>5. Requests'
  BY DEF IInv, Requests, DisableWait
<1>6. DispPlaces'
  BY DEF IInv, DispPlaces, Disabling, Waiting, DisableWait
<1>7. Upness'
  BY DEF IInv, Upness, DisableWait
<1>8. RcPlaces'
  BY DEF IInv, RcPlaces, RcLocked, DisableWait
<1>9. Quiet'
  BY DEF IInv, Quiet, Frames, Disabling, EsdRunning, NoRecoveryClash, Stopping, Waiting,
     DisableWait
<1>10. Frames'
  BY DEF IInv, Frames, Stopping, Waiting, DisableWait
<1>11. Tokens'
  BY DEF IInv, Tokens, MaxPending, DisableWait
<1>12. Powered'
  BY DEF IInv, Powered, NoRecoveryClash, DisableWait
<1> QED
  BY <1>1, <1>4, <1>5, <1>6, <1>7, <1>8, <1>9, <1>10, <1>11, <1>12 DEF IInv

\* The physical encoder is disabled.
LEMMA DisablePhysStep ==
    ASSUME IInv, NoClash, DisablePhys
    PROVE  IInv'
<1>1. Held'
  BY HeldSame DEF IInv, Exact, Counts, DisablePhys
<1>2. Flags' \subseteq BOOLEAN
  BY TypeFacts, Zenon DEF IInv, Flags, DisablePhys
<1>3. Ranges'
  BY DEF IInv, TypeOK, Ranges, DisablePhys
<1>4. TypeOK'
  BY <1>1, <1>2, <1>3, TypeParts
<1>5. Requests'
  BY DEF IInv, Requests, DisablePhys
<1>6. DispPlaces'
  BY DEF IInv, DispPlaces, Disabling, Waiting, DisablePhys
<1>7. Upness'
  BY DEF IInv, Upness, DisablePhys
<1>8. RcPlaces'
  BY DEF IInv, RcPlaces, RcLocked, DisablePhys
<1>9. Quiet'
  BY DEF IInv, Quiet, Disabling, EsdRunning, NoRecoveryClash, Stopping, Waiting,
     DisablePhys
<1>10. Frames'
  BY DEF IInv, Frames, Quiet, Disabling, EsdRunning, NoRecoveryClash, Stopping, Waiting,
     DisablePhys
<1>11. Tokens'
  BY DEF IInv, Tokens, MaxPending, DisablePhys
<1>12. Powered'
  BY DEF IInv, Powered, NoRecoveryClash, DisablePhys
<1> QED
  BY <1>1, <1>4, <1>5, <1>6, <1>7, <1>8, <1>9, <1>10, <1>11, <1>12 DEF IInv

\* The timer queues the delayed off work.
LEMMA OffTimerStep ==
    ASSUME IInv, NoClash, OffTimer
    PROVE  IInv'
<1>1. Held'
  BY HeldSame DEF IInv, Exact, Counts, OffTimer
<1>2. Flags' \subseteq BOOLEAN
  BY TypeFacts, Zenon DEF IInv, Flags, OffTimer
<1>3. Ranges'
  BY DEF IInv, TypeOK, Ranges, OffTimer
<1>4. TypeOK'
  BY <1>1, <1>2, <1>3, TypeParts
<1>5. Requests' /\ DispPlaces' /\ Upness' /\ RcPlaces' /\ Frames' /\ Tokens' /\ Powered'
  BY DEF IInv, Requests, DispPlaces, Upness, RcPlaces, Frames, Tokens, Powered, Disabling,
     MaxPending, NoRecoveryClash, RcLocked, Stopping, Waiting, OffTimer
<1>6. Quiet'
  BY DEF IInv, Quiet, Disabling, EsdRunning, NoRecoveryClash, Stopping, Waiting, OffTimer
<1> QED
  BY <1>1, <1>4, <1>5, <1>6 DEF IInv

\* Input queues its work, in command mode only.
LEMMA InputEventStep ==
    ASSUME IInv, NoClash, input_event_handler
    PROVE  IInv'
<1>1. Held'
  BY HeldSame DEF IInv, Exact, Counts, input_event_handler
<1>2. Flags' \subseteq BOOLEAN
  BY TypeFacts, Zenon DEF IInv, Flags, input_event_handler
<1>3. Ranges'
  BY DEF IInv, TypeOK, Ranges, input_event_handler
<1>4. TypeOK'
  BY <1>1, <1>2, <1>3, TypeParts
<1>5. Requests' /\ Upness' /\ RcPlaces' /\ Quiet' /\ Frames' /\ Tokens' /\ Powered'
  BY DEF IInv, Requests, Upness, RcPlaces, Quiet, Frames, Tokens, Powered, Disabling,
     EsdRunning, MaxPending, NoRecoveryClash, RcLocked, Stopping, Waiting,
     input_event_handler
<1>6. DispPlaces'
  BY DEF IInv, DispPlaces, Disabling, Waiting, input_event_handler
<1> QED
  BY <1>1, <1>4, <1>5, <1>6 DEF IInv

\* A wait of the display thread times out.
LEMMA DispTimeoutStep ==
    ASSUME IInv, NoClash, DispTimeout
    PROVE  IInv'
<1>1. Held'
  BY HeldSame DEF IInv, Exact, Counts, DispTimeout
<1>2. Flags' \subseteq BOOLEAN
  BY TypeFacts, Zenon DEF IInv, Flags, DispTimeout, FrameLost
<1>3. Ranges'
  BY DEF IInv, TypeOK, Ranges, Frames, Waiting, DispTimeout, FrameLost
<1>4. TypeOK'
  BY <1>1, <1>2, <1>3, TypeParts
<1>5. Requests'
  BY DEF IInv, Requests, DispTimeout, FrameLost
<1>6. DispPlaces'
  BY DEF IInv, DispPlaces, Disabling, Waiting, DispTimeout, FrameLost
<1>7. Upness'
  BY DEF IInv, Upness, DispTimeout, FrameLost
<1>8. RcPlaces'
  BY DEF IInv, RcPlaces, RcLocked, DispTimeout, FrameLost
<1>9. Quiet'
  BY DEF IInv, Quiet, Disabling, EsdRunning, NoRecoveryClash, Stopping, Waiting,
     DispTimeout, FrameLost
<1>10. Frames'
  BY DEF IInv, Frames, TypeOK, Stopping, Waiting, DispTimeout, FrameLost
<1>11. Tokens'
  BY DEF IInv, Tokens, MaxPending, DispTimeout, FrameLost
<1>12. Powered'
  BY DEF IInv, Powered, NoRecoveryClash, DispTimeout, FrameLost
<1> QED
  BY <1>1, <1>4, <1>5, <1>6, <1>7, <1>8, <1>9, <1>10, <1>11, <1>12 DEF IInv

\* ... and asks whether the panel is alive ...
LEMMA DispEsdStatusStep ==
    ASSUME IInv, NoClash, DispEsdStatus
    PROVE  IInv'
<1>1. Held'
  BY HeldSame DEF IInv, Exact, Counts, DispEsdStatus
<1>2. Flags' \subseteq BOOLEAN
  BY TypeFacts, Zenon DEF IInv, Flags, DispEsdStatus
<1>3. Ranges'
  BY DEF IInv, TypeOK, Ranges, DispEsdStatus
<1>4. TypeOK'
  BY <1>1, <1>2, <1>3, TypeParts
<1>5. Requests'
  BY DEF IInv, Requests, DispEsdStatus
<1>6. DispPlaces'
  BY DEF IInv, DispPlaces, Disabling, Waiting, DispEsdStatus
<1>7. Upness'
  BY DEF IInv, Upness, DispEsdStatus
<1>8. RcPlaces'
  BY DEF IInv, RcPlaces, RcLocked, DispEsdStatus
<1>9. Quiet'
  BY DEF IInv, Quiet, Disabling, EsdRunning, NoRecoveryClash, Stopping, Waiting,
     DispEsdStatus
<1>10. Frames'
  BY DEF IInv, Frames, Stopping, Waiting, DispEsdStatus
<1>11. Tokens'
  BY DEF IInv, Tokens, MaxPending, DispEsdStatus
<1>12. Powered'
  BY DEF IInv, Powered, NoRecoveryClash, DispEsdStatus
<1> QED
  BY <1>1, <1>4, <1>5, <1>6, <1>7, <1>8, <1>9, <1>10, <1>11, <1>12 DEF IInv

\* ... a dead one is reported ...
LEMMA DispEsdCancelStep ==
    ASSUME IInv, NoClash, DispEsdCancel
    PROVE  IInv'
<1>1. Held'
  BY HeldSame DEF IInv, Exact, Counts, DispEsdCancel
<1>2. Flags' \subseteq BOOLEAN
  BY TypeFacts, Zenon DEF IInv, Flags, DispEsdCancel
<1>3. Ranges'
  BY DEF IInv, TypeOK, Ranges, DispEsdCancel
<1>4. TypeOK'
  BY <1>1, <1>2, <1>3, TypeParts
<1>5. Requests'
  BY DEF IInv, Requests, DispEsdCancel
<1>6. DispPlaces'
  BY DEF IInv, DispPlaces, Disabling, Waiting, DispEsdCancel
<1>7. Upness'
  BY DEF IInv, Upness, DispEsdCancel
<1>8. RcPlaces'
  BY DEF IInv, RcPlaces, RcLocked, DispEsdCancel
<1>9. Quiet'
  BY DEF IInv, Quiet, DispPlaces, Disabling, EsdRunning, NoRecoveryClash, Stopping,
     Waiting, DispEsdCancel
<1>10. Frames'
  BY DEF IInv, Frames, Stopping, Waiting, DispEsdCancel
<1>11. Tokens'
  BY DEF IInv, Tokens, TypeOK, MaxPending, DispEsdCancel
<1>12. Powered'
  BY DEF IInv, Powered, NoRecoveryClash, DispEsdCancel
<1> QED
  BY <1>1, <1>4, <1>5, <1>6, <1>7, <1>8, <1>9, <1>10, <1>11, <1>12 DEF IInv

\* ... and the lost frame with it.
LEMMA DispFrameDoneStep ==
    ASSUME IInv, NoClash, DispFrameDone
    PROVE  IInv'
<1>1. Held'
  BY HeldSame DEF IInv, Exact, Counts, DispFrameDone
<1>2. Flags' \subseteq BOOLEAN
  BY TypeFacts, Zenon DEF IInv, Flags, DispFrameDone, AfterTimeout, FrameDoneArms
<1>3. Ranges'
  BY DEF IInv, TypeOK, Ranges, Tokens, MaxPending, Frames, Waiting, DispPlaces, Disabling,
     DispFrameDone, AfterTimeout, FrameDoneArms
<1>4. TypeOK'
  BY <1>1, <1>2, <1>3, TypeParts
<1>5. Requests'
  BY DEF IInv, Requests, DispFrameDone, AfterTimeout, FrameDoneArms
<1>6. DispPlaces'
  BY DEF IInv, DispPlaces, TypeOK, Disabling, Waiting, DispFrameDone, AfterTimeout,
     FrameDoneArms
<1>7. Upness'
  BY DEF IInv, Upness, DispPlaces, TypeOK, Disabling, Waiting, DispFrameDone, AfterTimeout,
     FrameDoneArms
<1>8. RcPlaces'
  BY DEF IInv, RcPlaces, DispPlaces, TypeOK, Disabling, RcLocked, Waiting, DispFrameDone,
     AfterTimeout, FrameDoneArms
<1>9. Quiet'
  BY DEF IInv, Quiet, DispPlaces, Frames, TypeOK, Disabling, EsdRunning, NoRecoveryClash,
     Stopping, Waiting, DispFrameDone, AfterTimeout, FrameDoneArms
<1>10. Frames'
  BY DEF IInv, Frames, Stopping, Waiting, DispFrameDone, AfterTimeout, FrameDoneArms
<1>11. Tokens'
  BY DEF IInv, Tokens, TypeOK, MaxPending, DispFrameDone, AfterTimeout, FrameDoneArms
<1>12. Powered'
  BY DEF IInv, Powered, DispPlaces, TypeOK, Disabling, NoRecoveryClash, Waiting,
     DispFrameDone, AfterTimeout, FrameDoneArms
<1> QED
  BY <1>1, <1>4, <1>5, <1>6, <1>7, <1>8, <1>9, <1>10, <1>11, <1>12 DEF IInv

\* The ping-pong interrupt of a display that is up takes the frame.
LEMMA PpDoneStep ==
    ASSUME IInv, NoClash, PpDone
    PROVE  IInv'
<1>1. rc \in {"ON", "PRE_OFF"}
  BY HeldFields DEF IInv, PpDone
<1>2. Held'
  BY HeldSame DEF IInv, Exact, Counts, PpDone
<1>3. Flags' \subseteq BOOLEAN
  BY <1>1, TypeFacts, Zenon DEF IInv, Flags, PpDone
<1>4. Ranges'
  BY <1>1 DEF IInv, TypeOK, Ranges, PpDone
<1>5. TypeOK'
  BY <1>2, <1>3, <1>4, TypeParts
<1>6. Requests' /\ DispPlaces' /\ Upness' /\ RcPlaces'
  BY <1>1 DEF IInv, Requests, DispPlaces, Upness, RcPlaces, Disabling, RcLocked, Waiting,
     PpDone
<1>7. Quiet'
  BY <1>1 DEF IInv, Quiet, RcPlaces, Frames, Disabling, EsdRunning, NoRecoveryClash,
     RcLocked, Stopping, Waiting, PpDone
<1>8. Frames'
  BY <1>1 DEF IInv, Frames, Stopping, Waiting, PpDone
<1>9. Tokens'
  BY <1>1 DEF IInv, Tokens, TypeOK, MaxPending, PpDone
<1>10. Powered'
  BY <1>1 DEF IInv, Powered, NoRecoveryClash, PpDone
<1> QED
  BY <1>2, <1>5, <1>6, <1>7, <1>8, <1>9, <1>10 DEF IInv

\* Its FRAME_DONE reads the conditions ...
LEMMA PpFrameDoneStep ==
    ASSUME IInv, NoClash, PpFrameDone
    PROVE  IInv'
<1>1. Held'
  BY HeldSame DEF IInv, Exact, Counts, PpFrameDone
<1>2. Flags' \subseteq BOOLEAN
  BY TypeFacts, Zenon DEF IInv, Flags, PpFrameDone
<1>3. Ranges'
  BY DEF IInv, TypeOK, Ranges, PpFrameDone
<1>4. TypeOK'
  BY <1>1, <1>2, <1>3, TypeParts
<1>5. Requests' /\ DispPlaces' /\ Upness' /\ RcPlaces' /\ Powered'
  BY DEF IInv, Requests, DispPlaces, Upness, RcPlaces, Powered, Disabling, NoRecoveryClash,
     RcLocked, Waiting, PpFrameDone
<1>6. Quiet'
  BY DEF IInv, Quiet, Disabling, EsdRunning, NoRecoveryClash, Stopping, Waiting,
     PpFrameDone
<1>7. Frames'
  BY DEF IInv, Frames, Stopping, Waiting, PpFrameDone
<1>8. Tokens'
  BY DEF IInv, Tokens, MaxPending, PpFrameDone
<1> QED
  BY <1>1, <1>4, <1>5, <1>6, <1>7, <1>8 DEF IInv

\* ... arms the timer ...
LEMMA PpArmStep ==
    ASSUME IInv, NoClash, PpArm
    PROVE  IInv'
<1>1. Held'
  BY HeldSame DEF IInv, Exact, Counts, PpArm
<1>2. Flags' \subseteq BOOLEAN
  BY TypeFacts, Zenon DEF IInv, Flags, PpArm
<1>3. Ranges'
  BY DEF IInv, TypeOK, Ranges, PpArm
<1>4. TypeOK'
  BY <1>1, <1>2, <1>3, TypeParts
<1>5. Requests' /\ DispPlaces' /\ Upness' /\ RcPlaces' /\ Powered'
  BY DEF IInv, Requests, DispPlaces, Upness, RcPlaces, Powered, Disabling, NoRecoveryClash,
     RcLocked, Waiting, PpArm
<1>6. Quiet'
  BY DEF IInv, Quiet, Disabling, EsdRunning, NoRecoveryClash, Stopping, Waiting, PpArm
<1>7. Frames'
  BY DEF IInv, Frames, Stopping, Waiting, PpArm
<1>8. Tokens'
  BY DEF IInv, Tokens, MaxPending, PpArm
<1> QED
  BY <1>1, <1>4, <1>5, <1>6, <1>7, <1>8 DEF IInv

\* ... tells the crtc ...
LEMMA PpNotifyStep ==
    ASSUME IInv, NoClash, PpNotify
    PROVE  IInv'
<1>1. Held'
  BY HeldSame DEF IInv, Exact, Counts, PpNotify
<1>2. Flags' \subseteq BOOLEAN
  BY TypeFacts, Zenon DEF IInv, Flags, PpNotify
<1>3. Ranges'
  BY DEF IInv, TypeOK, Ranges, Tokens, MaxPending, PpNotify
<1>4. TypeOK'
  BY <1>1, <1>2, <1>3, TypeParts
<1>5. Requests' /\ DispPlaces' /\ Upness' /\ RcPlaces' /\ Powered'
  BY DEF IInv, Requests, DispPlaces, Upness, RcPlaces, Powered, Disabling, NoRecoveryClash,
     RcLocked, Waiting, PpNotify
<1>6. Quiet'
  BY DEF IInv, Quiet, Disabling, EsdRunning, NoRecoveryClash, Stopping, Waiting, PpNotify
<1>7. Frames'
  BY DEF IInv, Frames, Stopping, Waiting, PpNotify
<1>8. Tokens'
  BY DEF IInv, Tokens, TypeOK, MaxPending, PpNotify
<1> QED
  BY <1>1, <1>4, <1>5, <1>6, <1>7, <1>8 DEF IInv

\* ... and lets the waiters go.
LEMMA PpDecStep ==
    ASSUME IInv, NoClash, PpDec
    PROVE  IInv'
<1>1. Held'
  BY HeldSame DEF IInv, Exact, Counts, PpDec
<1>2. Flags' \subseteq BOOLEAN
  BY TypeFacts, Zenon DEF IInv, Flags, PpDec
<1>3. Ranges'
  BY DEF IInv, TypeOK, Ranges, Frames, Waiting, PpDec
<1>4. TypeOK'
  BY <1>1, <1>2, <1>3, TypeParts
<1>5. Requests' /\ DispPlaces' /\ Upness' /\ RcPlaces' /\ Powered'
  BY DEF IInv, Requests, DispPlaces, Upness, RcPlaces, Powered, Disabling, NoRecoveryClash,
     RcLocked, Waiting, PpDec
<1>6. Quiet'
  BY DEF IInv, Quiet, Disabling, EsdRunning, NoRecoveryClash, Stopping, Waiting, PpDec
<1>7. Frames'
  BY DEF IInv, Frames, Stopping, Waiting, PpDec
<1>8. Tokens'
  BY DEF IInv, Tokens, MaxPending, PpDec
<1> QED
  BY <1>1, <1>4, <1>5, <1>6, <1>7, <1>8 DEF IInv

\* Video mode: the vsync takes the frame.
LEMMA VidVblankStep ==
    ASSUME IInv, NoClash, VidVblankIrq
    PROVE  IInv'
<1>1. Held'
  BY HeldSame DEF IInv, Exact, Counts, VidVblankIrq
<1>2. Flags' \subseteq BOOLEAN
  BY TypeFacts, Zenon DEF IInv, Flags, VidVblankIrq
<1>3. Ranges'
  BY DEF IInv, TypeOK, Ranges, Frames, Waiting, VidVblankIrq
<1>4. TypeOK'
  BY <1>1, <1>2, <1>3, TypeParts
<1>5. Requests' /\ DispPlaces' /\ Upness' /\ RcPlaces' /\ Quiet' /\ Tokens' /\ Powered'
  BY DEF IInv, Requests, DispPlaces, Upness, RcPlaces, Quiet, Tokens, Powered, Disabling,
     EsdRunning, MaxPending, NoRecoveryClash, RcLocked, Stopping, Waiting, VidVblankIrq
<1>6. Frames'
  BY DEF IInv, Frames, Stopping, Waiting, VidVblankIrq
<1> QED
  BY <1>1, <1>4, <1>5, <1>6 DEF IInv

\* The event thread handles a frame event.
LEMMA FrameEventStep ==
    ASSUME IInv, NoClash, frame_event_work
    PROVE  IInv'
<1>1. Held'
  BY HeldSame DEF IInv, Exact, Counts, frame_event_work
<1>2. Flags' \subseteq BOOLEAN
  BY TypeFacts, Zenon DEF IInv, Flags, frame_event_work
<1>3. Ranges'
  BY DEF IInv, TypeOK, Ranges, Tokens, MaxPending, frame_event_work
<1>4. TypeOK'
  BY <1>1, <1>2, <1>3, TypeParts
<1>5. Requests' /\ DispPlaces' /\ Upness' /\ RcPlaces' /\ Quiet' /\ Frames' /\ Powered'
  BY DEF IInv, Requests, DispPlaces, Upness, RcPlaces, Quiet, Frames, Powered, Disabling,
     EsdRunning, NoRecoveryClash, RcLocked, Stopping, Waiting, frame_event_work
<1>6. Tokens'
  BY DEF IInv, Tokens, TypeOK, MaxPending, frame_event_work
<1> QED
  BY <1>1, <1>4, <1>5, <1>6 DEF IInv

\* The status work finds the panel dead.
LEMMA EsdFailsStep ==
    ASSUME IInv, NoClash, EsdFails
    PROVE  IInv'
<1>1. Held'
  BY HeldSame DEF IInv, Exact, Counts, EsdFails
<1>2. Flags' \subseteq BOOLEAN
  BY TypeFacts, Zenon DEF IInv, Flags, EsdFails
<1>3. Ranges'
  BY DEF IInv, TypeOK, Ranges, EsdFails
<1>4. TypeOK'
  BY <1>1, <1>2, <1>3, TypeParts
<1>5. Requests' /\ DispPlaces' /\ Upness' /\ RcPlaces' /\ Powered'
  BY DEF IInv, Requests, DispPlaces, Upness, RcPlaces, Powered, Disabling, NoRecoveryClash,
     RcLocked, Waiting, EsdFails
<1>6. Quiet'
  BY DEF IInv, Quiet, Disabling, EsdRunning, NoRecoveryClash, Stopping, Waiting, EsdFails
<1>7. Frames'
  BY DEF IInv, Frames, Stopping, Waiting, EsdFails
<1>8. Tokens'
  BY DEF IInv, Tokens, MaxPending, EsdFails
<1> QED
  BY <1>1, <1>4, <1>5, <1>6, <1>7, <1>8 DEF IInv

\* It waits for the frame in flight ...
LEMMA EsdWaitDoneStep ==
    ASSUME IInv, NoClash, EsdWaitDone
    PROVE  IInv'
<1>1. Held'
  BY HeldSame DEF IInv, Exact, Counts, EsdWaitDone
<1>2. Flags' \subseteq BOOLEAN
  BY TypeFacts, Zenon DEF IInv, Flags, EsdWaitDone
<1>3. Ranges'
  BY DEF IInv, TypeOK, Ranges, EsdWaitDone
<1>4. TypeOK'
  BY <1>1, <1>2, <1>3, TypeParts
<1>5. Requests' /\ DispPlaces' /\ Upness' /\ RcPlaces' /\ Powered'
  BY DEF IInv, Requests, DispPlaces, Upness, RcPlaces, Powered, Disabling, NoRecoveryClash,
     RcLocked, Waiting, EsdWaitDone
<1>6. Quiet'
  BY DEF IInv, Quiet, Disabling, EsdRunning, NoRecoveryClash, Stopping, Waiting,
     EsdWaitDone
<1>7. Frames'
  BY DEF IInv, Frames, Stopping, Waiting, EsdWaitDone
<1>8. Tokens'
  BY DEF IInv, Tokens, MaxPending, EsdWaitDone
<1> QED
  BY <1>1, <1>4, <1>5, <1>6, <1>7, <1>8 DEF IInv

\* ... or times out ...
LEMMA EsdTimeoutStep ==
    ASSUME IInv, NoClash, EsdTimeout
    PROVE  IInv'
<1>1. Held'
  BY HeldSame DEF IInv, Exact, Counts, EsdTimeout
<1>2. Flags' \subseteq BOOLEAN
  BY TypeFacts, Zenon DEF IInv, Flags, EsdTimeout, FrameLost
<1>3. Ranges'
  BY DEF IInv, TypeOK, Ranges, Frames, Waiting, EsdTimeout, FrameLost
<1>4. TypeOK'
  BY <1>1, <1>2, <1>3, TypeParts
<1>5. Requests' /\ DispPlaces' /\ Upness' /\ RcPlaces' /\ Powered'
  BY DEF IInv, Requests, DispPlaces, Upness, RcPlaces, Powered, Disabling, NoRecoveryClash,
     RcLocked, Waiting, EsdTimeout, FrameLost
<1>6. Quiet'
  BY DEF IInv, Quiet, Disabling, EsdRunning, NoRecoveryClash, Stopping, Waiting,
     EsdTimeout, FrameLost
<1>7. Frames'
  BY DEF IInv, Frames, Stopping, Waiting, EsdTimeout, FrameLost
<1>8. Tokens'
  BY DEF IInv, Tokens, MaxPending, EsdTimeout, FrameLost
<1> QED
  BY <1>1, <1>4, <1>5, <1>6, <1>7, <1>8 DEF IInv

\* ... does not check the panel again, since its recovery is pending ...
LEMMA EsdOwnStatusStep ==
    ASSUME IInv, NoClash, EsdOwnStatus
    PROVE  IInv'
<1>1. Held'
  BY HeldSame DEF IInv, Exact, Counts, EsdOwnStatus
<1>2. Flags' \subseteq BOOLEAN
  BY TypeFacts, Zenon DEF IInv, Flags, EsdOwnStatus
<1>3. Ranges'
  BY DEF IInv, TypeOK, Ranges, EsdOwnStatus
<1>4. TypeOK'
  BY <1>1, <1>2, <1>3, TypeParts
<1>5. Requests' /\ DispPlaces' /\ Upness' /\ RcPlaces' /\ Powered'
  BY DEF IInv, Requests, DispPlaces, Upness, RcPlaces, Powered, Disabling, NoRecoveryClash,
     RcLocked, Waiting, EsdOwnStatus
<1>6. Quiet'
  BY DEF IInv, Quiet, Disabling, EsdRunning, NoRecoveryClash, Stopping, Waiting,
     EsdOwnStatus
<1>7. Frames'
  BY DEF IInv, Frames, Quiet, Disabling, EsdRunning, NoRecoveryClash, Stopping, Waiting,
     EsdOwnStatus
<1>8. Tokens'
  BY DEF IInv, Tokens, MaxPending, EsdOwnStatus
<1> QED
  BY <1>1, <1>4, <1>5, <1>6, <1>7, <1>8 DEF IInv

\* ... and reports the lost frame ...
LEMMA EsdFrameDoneStep ==
    ASSUME IInv, NoClash, EsdFrameDone
    PROVE  IInv'
<1>1. Held'
  BY HeldSame DEF IInv, Exact, Counts, EsdFrameDone
<1>2. Flags' \subseteq BOOLEAN
  BY TypeFacts, Zenon DEF IInv, Flags, EsdFrameDone
<1>3. Ranges'
  BY DEF IInv, TypeOK, Ranges, EsdFrameDone
<1>4. TypeOK'
  BY <1>1, <1>2, <1>3, TypeParts
<1>5. Requests' /\ DispPlaces' /\ Upness' /\ RcPlaces'
  BY DEF IInv, Requests, DispPlaces, Upness, RcPlaces, Disabling, RcLocked, Waiting,
     EsdFrameDone
<1>6. Quiet'
  BY DEF IInv, Quiet, Disabling, EsdRunning, NoRecoveryClash, Stopping, Waiting,
     EsdFrameDone
<1>7. Frames'
  BY DEF IInv, Frames, Stopping, Waiting, EsdFrameDone
<1>8. Tokens'
  BY DEF IInv, Tokens, TypeOK, MaxPending, EsdFrameDone
<1>9. Powered'
  BY DEF IInv, Powered, NoRecoveryClash, EsdFrameDone
<1> QED
  BY <1>1, <1>4, <1>5, <1>6, <1>7, <1>8, <1>9 DEF IInv

\* ... to the crtc.
LEMMA EsdNotifyStep ==
    ASSUME IInv, NoClash, EsdNotify
    PROVE  IInv'
<1>1. Held'
  BY HeldSame DEF IInv, Exact, Counts, EsdNotify
<1>2. Flags' \subseteq BOOLEAN
  BY TypeFacts, Zenon DEF IInv, Flags, EsdNotify
<1>3. Ranges'
  BY DEF IInv, TypeOK, Ranges, Tokens, MaxPending, EsdNotify
<1>4. TypeOK'
  BY <1>1, <1>2, <1>3, TypeParts
<1>5. Requests' /\ DispPlaces' /\ Upness' /\ RcPlaces' /\ Powered'
  BY DEF IInv, Requests, DispPlaces, Upness, RcPlaces, Powered, Disabling, NoRecoveryClash,
     RcLocked, Waiting, EsdNotify
<1>6. Quiet'
  BY DEF IInv, Quiet, Disabling, EsdRunning, NoRecoveryClash, Stopping, Waiting, EsdNotify
<1>7. Frames'
  BY DEF IInv, Frames, Stopping, Waiting, EsdNotify
<1>8. Tokens'
  BY DEF IInv, Tokens, TypeOK, MaxPending, EsdNotify
<1> QED
  BY <1>1, <1>4, <1>5, <1>6, <1>7, <1>8 DEF IInv

\* mode_set, and POST_MODESET after a seamless switch, which finds its resources.
LEMMA ModeSetStep ==
    ASSUME IInv, NoClash, virt_mode_set
    PROVE  IInv'
<1>1. rc = "MODESET" => mode = "dms" /\ ~cfg.reserve
  BY TypeFacts DEF IInv, TypeOK, NoClash, DispPlaces, Upness, RcPlaces
<1>2. Held' /\ rc' = (IF rc = "MODESET" THEN "ON" ELSE rc)
  <2>1. PICK r : r = cmd_mode_set(res)
    OBVIOUS
  <2>2. UNCHANGED <<cfg, vblank_enabled>> /\ vblank_enabled \in BOOLEAN
    BY TypeFacts DEF IInv, virt_mode_set
  <2>3. Has(r, res.power, res.clk, IF cfg.vid THEN res.vbl ELSE 0, res.irqs)
    <3>1. res \in Holdings /\ 0 \in Nat /\ TRUE \in BOOLEAN
      BY HeldFields DEF IInv
    <3>2. Has([res EXCEPT !.vbl = 0], res.power, res.clk, 0, res.irqs)
      BY <3>1, Assigned, Zenon
    <3> QED
      BY <2>1, <3>1, <3>2, Zenon DEF cmd_mode_set, Has
  <2>4. CASE UNCHANGED <<attached, hw_pp, rc, res>> /\ cfg.reserve
    BY <1>1, <2>4, HeldSame DEF IInv, Exact, Counts, virt_mode_set
  <2>5. CASE hw_pp' /\ mode = "dms" /\ RcPostModeset(r) /\ rc = "MODESET"
    <3>1. ~cfg.vid /\ hw_pp /\ ~res.irqs
      BY <2>5, TypeFacts, HeldFields DEF IInv, NoClash, DispPlaces, Powered
    <3>2. Has(r, res.power, res.clk, 0, FALSE)
      BY <2>3, <3>1, Zenon DEF Has
    <3>3. Counts /\ Counts'
      BY <2>5, <3>1 DEF Counts
    <3> QED
      BY <2>2, <2>5, <3>2, <3>3, PostModesetEffect DEF IInv
  <2>6. CASE UNCHANGED rc /\ res' = r /\ rc # "MODESET"
    <3>1. Exact' => VblankRefs = 0
      BY <2>6, TypeFacts DEF IInv, Exact, Powered, DispPlaces, Upness, RcPlaces, Requests,
         VblankRefs, virt_mode_set
    <3>2. cfg.vid => VblankRefs = 0
      BY <2>6, TypeFacts DEF IInv, NoClash, DispPlaces, Upness, RcPlaces, Requests,
         VblankRefs, virt_mode_set
    <3>3. cfg.vid => res.vbl = 0
      BY <3>2, HeldFields DEF IInv, Sound
    <3>4. Has(res', res.power, res.clk, 0, res.irqs)
      BY <2>3, <2>6, <3>3, Zenon DEF Has
    <3> QED
      BY <2>2, <2>6, <3>1, <3>4, ModeSetEffect DEF IInv
  <2> QED
    BY <1>1, <2>1, <2>4, <2>5, <2>6 DEF virt_mode_set, RcPostModeset
<1>3. Flags' \subseteq BOOLEAN
  BY <1>1, <1>2, TypeFacts, Zenon DEF IInv, Flags, virt_mode_set
<1>4. Ranges'
  BY <1>1, <1>2 DEF IInv, TypeOK, Ranges, virt_mode_set
<1>5. TypeOK'
  BY <1>2, <1>3, <1>4, TypeParts
<1>6. Requests'
  BY <1>1, <1>2 DEF IInv, Requests, virt_mode_set
<1>7. DispPlaces'
  BY <1>1, <1>2 DEF IInv, DispPlaces, Disabling, Waiting, virt_mode_set
<1>8. Upness'
  BY <1>1, <1>2 DEF IInv, Upness, virt_mode_set
<1>9. RcPlaces'
  BY <1>1, <1>2 DEF IInv, RcPlaces, RcLocked, virt_mode_set
<1>10. Quiet'
  BY <1>1, <1>2 DEF IInv, Quiet, Disabling, EsdRunning, NoRecoveryClash, Stopping, Waiting,
     virt_mode_set
<1>11. Frames'
  BY <1>1, <1>2 DEF IInv, Frames, Stopping, Waiting, virt_mode_set
<1>12. Tokens'
  BY <1>1, <1>2 DEF IInv, Tokens, MaxPending, virt_mode_set
<1>13. Powered'
  BY <1>1, <1>2 DEF IInv, Powered, NoRecoveryClash, virt_mode_set
<1> QED
  BY <1>2, <1>5, <1>6, <1>7, <1>8, <1>9, <1>10, <1>11, <1>12, <1>13 DEF IInv

\* PRE_MODESET: the resources are on before the wait for the last frame.
LEMMA PreModesetStep ==
    ASSUME IInv, NoClash, PreModeset
    PROVE  IInv'
<1>1. ~cfg.vid /\ rc \in {"OFF", "ON", "IDLE"}
  BY TypeFacts DEF IInv, TypeOK, NoClash, DispPlaces, RcPlaces, PreModeset
<1>2. PICK ok \in BOOLEAN : /\ RcPreModesetOn(ok)
                           /\ disp' = IF ~ok THEN "crtc_enable"
                                      ELSE IF rc = "OFF" THEN "mode_set" ELSE "pmwait"
  BY DEF PreModeset
<1>3. /\ Held' /\ offWork' = "none"
      /\ \/ ok /\ rc' = rc /\ rc \in {"OFF", "ON"}
         \/ ok /\ rc' = "ON" /\ rc = "IDLE"
         \/ ~ok /\ rc' = rc /\ rc = "IDLE"
  BY <1>1, <1>2, PreModesetOnEffect, TypeFacts DEF IInv, Exact, Counts, PreModeset
<1>4. Flags' \subseteq BOOLEAN
  BY <1>1, <1>2, <1>3, TypeFacts, Zenon DEF IInv, Flags, PreModeset
<1>5. Ranges'
  BY <1>1, <1>2, <1>3 DEF IInv, TypeOK, Ranges, PreModeset
<1>6. TypeOK'
  BY <1>3, <1>4, <1>5, TypeParts
<1>7. Requests'
  BY <1>1, <1>2, <1>3 DEF IInv, Requests, PreModeset
<1>8. DispPlaces'
  BY <1>1, <1>2, <1>3 DEF IInv, DispPlaces, Disabling, Waiting, PreModeset
<1>9. Upness'
  BY <1>1, <1>2, <1>3 DEF IInv, Upness, DispPlaces, Disabling, Waiting, PreModeset
<1>10. RcPlaces'
  BY <1>1, <1>2, <1>3 DEF IInv, RcPlaces, RcLocked, PreModeset
<1>11. Quiet'
  BY <1>1, <1>2, <1>3 DEF IInv, Quiet, Disabling, EsdRunning, NoRecoveryClash, Stopping,
     Waiting, PreModeset
<1>12. Frames'
  BY <1>1, <1>2, <1>3 DEF IInv, Frames, Stopping, Waiting, PreModeset
<1>13. Tokens'
  BY <1>1, <1>2, <1>3 DEF IInv, Tokens, MaxPending, PreModeset
<1>14. Powered'
  BY <1>1, <1>2, <1>3 DEF IInv, Powered, DispPlaces, Upness, NoRecoveryClash, PreModeset
<1> QED
  BY <1>3, <1>6, <1>7, <1>8, <1>9, <1>10, <1>11, <1>12, <1>13, <1>14 DEF IInv

\* ... and are given away when that is out.
LEMMA PreModesetDoneStep ==
    ASSUME IInv, NoClash, PreModesetDone
    PROVE  IInv'
<1>1. ~cfg.vid /\ rc = "ON" /\ cfg.dms
  BY TypeFacts DEF IInv, NoClash, DispPlaces, RcPlaces, RcLocked, PreModesetDone
<1>2. Held' /\ rc' = "MODESET"
  BY <1>1, PreModesetOffEffect, TypeFacts DEF IInv, Exact, Counts, PreModesetDone
<1>3. Flags' \subseteq BOOLEAN
  BY <1>1, <1>2, TypeFacts, Zenon DEF IInv, Flags, PreModesetDone
<1>4. Ranges'
  BY <1>1, <1>2 DEF IInv, TypeOK, Ranges, PreModesetDone
<1>5. TypeOK'
  BY <1>2, <1>3, <1>4, TypeParts
<1>6. Requests'
  BY <1>1, <1>2 DEF IInv, Requests, PreModesetDone
<1>7. DispPlaces'
  BY <1>1, <1>2 DEF IInv, DispPlaces, Disabling, Waiting, PreModesetDone
<1>8. Upness'
  BY <1>1, <1>2 DEF IInv, Upness, DispPlaces, Disabling, Waiting, PreModesetDone
<1>9. RcPlaces'
  BY <1>1, <1>2 DEF IInv, RcPlaces, DispPlaces, Disabling, RcLocked, Waiting,
     PreModesetDone
<1>10. Quiet'
  BY <1>1, <1>2 DEF IInv, Quiet, Disabling, EsdRunning, NoRecoveryClash, Stopping, Waiting,
     PreModesetDone
<1>11. Frames'
  BY <1>1, <1>2 DEF IInv, Frames, Stopping, Waiting, PreModesetDone
<1>12. Tokens'
  BY <1>1, <1>2 DEF IInv, Tokens, MaxPending, PreModesetDone
<1>13. Powered'
  BY <1>1, <1>2 DEF IInv, Powered, Quiet, Frames, Disabling, EsdRunning, NoRecoveryClash,
     Stopping, Waiting, PreModesetDone
<1> QED
  BY <1>2, <1>5, <1>6, <1>7, <1>8, <1>9, <1>10, <1>11, <1>12, <1>13 DEF IInv

\* sde_crtc_enable applies the vblank request and arms the ESD check.
LEMMA CrtcEnableStep ==
    ASSUME IInv, NoClash, crtc_enable
    PROVE  IInv'
<1>1. rc # "MODESET" /\ (enabled \/ ~vblank_enabled)
  BY TypeFacts DEF IInv, Requests, RcPlaces, crtc_enable
<1>2. /\ vblank_enabled' \in BOOLEAN
      /\ (vblank_enabled' <=> vblank_enabled \/ (~enabled /\ vblank_requested))
  BY TypeFacts, Zenon DEF IInv, crtc_enable
<1>3. Held'
  <2>1. CASE enabled \/ ~vblank_requested
    <3>1. UNCHANGED <<cfg, rc, res>>
      BY <2>1 DEF crtc_enable
    <3>2. vblank_enabled' <=> vblank_enabled
      BY <1>2, <2>1
    <3>3. Votes' = Votes /\ VblankRefs' = VblankRefs
      BY <3>1, <3>2 DEF Votes, VblankRefs
    <3> QED
      BY <3>1, <3>3, Zenon DEF IInv, Held, Has, Sound, Exact, Counts, crtc_enable
  <2>2. CASE ~enabled /\ vblank_requested
    BY <1>1, <1>2, <2>2, VblankEffect, TypeFacts DEF IInv, Exact, Counts, crtc_enable
  <2> QED
    BY <2>1, <2>2, TypeFacts DEF IInv
<1>4. /\ enabled' /\ (esd' = esd \/ (cfg.esd /\ esd' = "armed" /\ ~enabled))
      /\ UNCHANGED <<cfg, rc>>
  BY TypeFacts DEF IInv, crtc_enable
<1>5. Flags' \subseteq BOOLEAN
  BY <1>2, <1>4, TypeFacts, Zenon DEF IInv, Flags, crtc_enable
<1>6. Ranges'
  BY <1>2, <1>4 DEF IInv, TypeOK, Ranges, crtc_enable
<1>7. TypeOK'
  BY <1>3, <1>5, <1>6, TypeParts
<1>8. Requests'
  BY <1>2, <1>4 DEF IInv, Requests, crtc_enable
<1>9. DispPlaces'
  BY <1>2, <1>4 DEF IInv, DispPlaces, Disabling, Waiting, crtc_enable
<1>10. Upness'
  BY <1>2, <1>4 DEF IInv, Upness, DispPlaces, Disabling, Waiting, crtc_enable
<1>11. RcPlaces'
  BY <1>2, <1>4 DEF IInv, RcPlaces, RcLocked, crtc_enable
<1>12. Quiet'
  BY <1>2, <1>4 DEF IInv, Quiet, Disabling, EsdRunning, NoRecoveryClash, Stopping, Waiting,
     crtc_enable
<1>13. Frames'
  BY <1>2, <1>4 DEF IInv, Frames, Upness, Quiet, Disabling, EsdRunning, NoRecoveryClash,
     Stopping, Waiting, crtc_enable
<1>14. Tokens'
  BY <1>2, <1>4 DEF IInv, Tokens, TypeOK, MaxPending, crtc_enable
<1>15. Powered'
  BY <1>2, <1>4 DEF IInv, Powered, DispPlaces, Upness, NoRecoveryClash, crtc_enable
<1> QED
  BY <1>3, <1>7, <1>8, <1>9, <1>10, <1>11, <1>12, <1>13, <1>14, <1>15 DEF IInv

\* KICKOFF of sde_encoder_virt_enable.
LEMMA VirtKickoffStep ==
    ASSUME IInv, NoClash, VirtEnableKickoff
    PROVE  IInv'
<1>1. PICK ok \in BOOLEAN : /\ RcKickoff(ok)
                           /\ physOn' = (physOn \/ (ok /\ mode = "enable"))
                           /\ rcError' = (rcError \/ ~ok)
  BY DEF VirtEnableKickoff
<1>2. /\ Held' /\ offWork' = "none"
      /\ \/ ok /\ rc' = "ON" /\ (rc \in {"ON", "IDLE"} \/ (cur_master /\ attached))
         \/ ~ok /\ rc' = rc /\ rc # "ON"
  BY <1>1, KickoffEffect, TypeFacts DEF IInv, Exact, Counts, VirtEnableKickoff
<1>3. /\ physOn' \in BOOLEAN /\ (physOn' <=> physOn \/ (ok /\ mode = "enable"))
      /\ rcError' \in BOOLEAN /\ (rcError' <=> rcError \/ ~ok)
  BY <1>1, TypeFacts, Zenon DEF IInv
<1>4. Flags' \subseteq BOOLEAN
  BY <1>2, <1>3, TypeFacts, Zenon DEF IInv, Flags, VirtEnableKickoff
<1>5. Ranges'
  BY <1>2, <1>3 DEF IInv, TypeOK, Ranges, VirtEnableKickoff
<1>6. TypeOK'
  BY <1>2, <1>4, <1>5, TypeParts
<1>7. Requests'
  BY <1>2, <1>3 DEF IInv, Requests, VirtEnableKickoff
<1>8. DispPlaces'
  BY <1>2, <1>3 DEF IInv, DispPlaces, Disabling, Waiting, VirtEnableKickoff
<1>9. Upness'
  BY <1>2, <1>3 DEF IInv, Upness, VirtEnableKickoff
<1>10. RcPlaces'
  BY <1>2, <1>3 DEF IInv, RcPlaces, RcLocked, VirtEnableKickoff
<1>11. Quiet'
  BY <1>2, <1>3 DEF IInv, Quiet, Disabling, EsdRunning, NoRecoveryClash, Stopping, Waiting,
     VirtEnableKickoff
<1>12. Frames'
  BY <1>2, <1>3 DEF IInv, Frames, Stopping, Waiting, VirtEnableKickoff
<1>13. Tokens'
  BY <1>2, <1>3 DEF IInv, Tokens, MaxPending, VirtEnableKickoff
<1>14. Powered'
  BY <1>2, <1>3 DEF IInv, Powered, NoRecoveryClash, VirtEnableKickoff
<1> QED
  BY <1>2, <1>6, <1>7, <1>8, <1>9, <1>10, <1>11, <1>12, <1>13, <1>14 DEF IInv

\* KICKOFF of a frame.
LEMMA RcKickoffStep ==
    ASSUME IInv, NoClash, PrepareRcKickoff
    PROVE  IInv'
<1>1. PICK ok \in BOOLEAN : RcKickoff(ok) /\ rcError' = (rcError \/ ~ok)
  BY DEF PrepareRcKickoff
<1>2. /\ Held' /\ offWork' = "none"
      /\ \/ ok /\ rc' = "ON" /\ (rc \in {"ON", "IDLE"} \/ (cur_master /\ attached))
         \/ ~ok /\ rc' = rc /\ rc # "ON"
  BY <1>1, KickoffEffect, TypeFacts DEF IInv, Exact, Counts, PrepareRcKickoff
<1>3. rcError' \in BOOLEAN /\ (rcError' <=> rcError \/ ~ok)
  BY <1>1, TypeFacts, Zenon DEF IInv
<1>4. Flags' \subseteq BOOLEAN
  BY <1>2, <1>3, TypeFacts, Zenon DEF IInv, Flags, PrepareRcKickoff
<1>5. Ranges'
  BY <1>2, <1>3 DEF IInv, TypeOK, Ranges, PrepareRcKickoff
<1>6. TypeOK'
  BY <1>2, <1>4, <1>5, TypeParts
<1>7. Requests'
  BY <1>2, <1>3 DEF IInv, Requests, PrepareRcKickoff
<1>8. DispPlaces'
  BY <1>2, <1>3 DEF IInv, DispPlaces, Disabling, Waiting, PrepareRcKickoff
<1>9. Upness'
  BY <1>2, <1>3 DEF IInv, Upness, PrepareRcKickoff
<1>10. RcPlaces'
  BY <1>2, <1>3 DEF IInv, RcPlaces, RcLocked, PrepareRcKickoff
<1>11. Quiet'
  BY <1>2, <1>3 DEF IInv, Quiet, Disabling, EsdRunning, NoRecoveryClash, Stopping, Waiting,
     PrepareRcKickoff
<1>12. Frames'
  BY <1>2, <1>3 DEF IInv, Frames, Stopping, Waiting, PrepareRcKickoff
<1>13. Tokens'
  BY <1>2, <1>3 DEF IInv, Tokens, MaxPending, PrepareRcKickoff
<1>14. Powered'
  BY <1>2, <1>3 DEF IInv, Powered, NoRecoveryClash, PrepareRcKickoff
<1> QED
  BY <1>2, <1>6, <1>7, <1>8, <1>9, <1>10, <1>11, <1>12, <1>13, <1>14 DEF IInv

\* PRE_STOP, without a frame in flight.
LEMMA PreStopStep ==
    ASSUME IInv, NoClash, DisablePreStop
    PROVE  IInv'
<1>1. rc \in {"OFF", "ON", "IDLE"}
  BY DEF IInv, TypeOK, RcPlaces, DisablePreStop
<1>2. /\ Held' /\ offWork' = "none"
      /\ \/ rc' = "PRE_OFF" /\ rc # "OFF"
         \/ rc' = rc /\ (rc = "OFF" \/ (rc = "IDLE" /\ ~cfg.vid))
  BY <1>1, PreStopEffect, TypeFacts DEF IInv, Exact, Counts, Exact, Counts, DisablePreStop
<1>3. Flags' \subseteq BOOLEAN
  BY <1>2, TypeFacts, Zenon DEF IInv, Flags, DisablePreStop
<1>4. Ranges'
  BY <1>2 DEF IInv, TypeOK, Ranges, DisablePreStop
<1>5. TypeOK'
  BY <1>2, <1>3, <1>4, TypeParts
<1>6. Requests'
  BY <1>2 DEF IInv, Requests, DisablePreStop
<1>7. DispPlaces'
  BY <1>2 DEF IInv, DispPlaces, Disabling, Waiting, DisablePreStop
<1>8. Upness'
  BY <1>2 DEF IInv, Upness, DisablePreStop
<1>9. RcPlaces'
  BY <1>2 DEF IInv, RcPlaces, DispPlaces, Disabling, RcLocked, Waiting, DisablePreStop
<1>10. Quiet'
  BY <1>2 DEF IInv, Quiet, Disabling, EsdRunning, NoRecoveryClash, Stopping, Waiting,
     DisablePreStop
<1>11. Frames'
  BY <1>2 DEF IInv, Frames, Stopping, Waiting, DisablePreStop
<1>12. Tokens'
  BY <1>2 DEF IInv, Tokens, MaxPending, DisablePreStop
<1>13. Powered'
  BY <1>2 DEF IInv, Powered, Quiet, Disabling, EsdRunning, NoRecoveryClash, Stopping,
     Waiting, DisablePreStop
<1> QED
  BY <1>2, <1>5, <1>6, <1>7, <1>8, <1>9, <1>10, <1>11, <1>12, <1>13 DEF IInv

\* STOP ends in OFF with nothing held.
LEMMA StopStep ==
    ASSUME IInv, NoClash, DisableStop
    PROVE  IInv'
<1>1. cur_master /\ (rc \in {"OFF", "PRE_OFF"} \/ (rc = "IDLE" /\ ~cfg.vid))
  BY DEF IInv, TypeOK, RcPlaces, Upness, DisableStop
<1>2. Held' /\ rc' = "OFF"
  BY <1>1, StopEffect, TypeFacts DEF IInv, Exact, Counts, DisableStop
<1>3. Flags' \subseteq BOOLEAN
  BY <1>2, TypeFacts, Zenon DEF IInv, Flags, DisableStop
<1>4. Ranges'
  BY <1>2 DEF IInv, TypeOK, Ranges, DisableStop
<1>5. TypeOK'
  BY <1>2, <1>3, <1>4, TypeParts
<1>6. Requests'
  BY <1>2 DEF IInv, Requests, DisableStop
<1>7. DispPlaces'
  BY <1>2 DEF IInv, DispPlaces, Disabling, Waiting, DisableStop
<1>8. Upness'
  BY <1>2 DEF IInv, Upness, DisableStop
<1>9. RcPlaces'
  BY <1>2 DEF IInv, RcPlaces, RcLocked, DisableStop
<1>10. Quiet'
  BY <1>2 DEF IInv, Quiet, Disabling, EsdRunning, NoRecoveryClash, Stopping, Waiting,
     DisableStop
<1>11. Frames'
  BY <1>2 DEF IInv, Frames, Stopping, Waiting, DisableStop
<1>12. Tokens'
  BY <1>2 DEF IInv, Tokens, MaxPending, DisableStop
<1>13. Powered'
  BY <1>2 DEF IInv, Powered, DispPlaces, Quiet, Disabling, EsdRunning, NoRecoveryClash,
     Stopping, Waiting, DisableStop
<1> QED
  BY <1>2, <1>5, <1>6, <1>7, <1>8, <1>9, <1>10, <1>11, <1>12, <1>13 DEF IInv

\* sde_crtc_disable drops the vblank request and forgets the frames.
LEMMA CrtcDisableStep ==
    ASSUME IInv, NoClash, crtc_disable
    PROVE  IInv'
<1>1. rc # "MODESET" /\ (vblank_requested <=> vblank_enabled)
  BY TypeFacts DEF IInv, Requests, RcPlaces, Upness, crtc_disable
<1>2. ~vblank_enabled' /\ vblank_enabled' \in BOOLEAN
  BY <1>1, TypeFacts DEF IInv, crtc_disable
<1>3. Held'
  <2>1. CASE vblank_requested
    BY <1>1, <1>2, <2>1, VblankEffect, TypeFacts DEF IInv, Exact, Counts, crtc_disable
  <2>2. CASE ~vblank_requested
    BY <2>2, HeldSame DEF IInv, Exact, Counts, crtc_disable
  <2> QED
    BY <2>1, <2>2
<1>4. Flags' \subseteq BOOLEAN
  BY <1>2, TypeFacts, Zenon DEF IInv, Flags, crtc_disable
<1>5. Ranges'
  BY <1>2 DEF IInv, TypeOK, Ranges, Tokens, MaxPending, crtc_disable
<1>6. TypeOK'
  BY <1>3, <1>4, <1>5, TypeParts
<1>7. Requests'
  BY <1>2 DEF IInv, Requests, crtc_disable
<1>8. DispPlaces'
  BY <1>2 DEF IInv, DispPlaces, Disabling, Waiting, crtc_disable
<1>9. Upness'
  BY <1>2 DEF IInv, Upness, crtc_disable
<1>10. RcPlaces'
  BY <1>2 DEF IInv, RcPlaces, RcLocked, crtc_disable
<1>11. Quiet'
  BY <1>2 DEF IInv, Quiet, Disabling, EsdRunning, NoRecoveryClash, Stopping, Waiting,
     crtc_disable
<1>12. Frames'
  BY <1>2 DEF IInv, Frames, Stopping, Waiting, crtc_disable
<1>13. Tokens'
  BY <1>2 DEF IInv, Tokens, Quiet, Disabling, EsdRunning, MaxPending, NoRecoveryClash,
     Stopping, Waiting, crtc_disable
<1>14. Powered'
  BY <1>2 DEF IInv, Powered, NoRecoveryClash, crtc_disable
<1> QED
  BY <1>3, <1>6, <1>7, <1>8, <1>9, <1>10, <1>11, <1>12, <1>13, <1>14 DEF IInv

\* The delayed off work enters IDLE, unless a frame is in flight.
LEMMA OffWorkStep ==
    ASSUME IInv, NoClash, off_work
    PROVE  IInv'
<1>1. Held' /\ (rc' = rc \/ (rc = "ON" /\ rc' = "IDLE" /\ ~busy))
  BY EnterIdleEffect, TypeFacts DEF IInv, Exact, Counts, off_work
<1>2. Flags' \subseteq BOOLEAN
  BY <1>1, TypeFacts, Zenon DEF IInv, Flags, off_work
<1>3. Ranges'
  BY <1>1 DEF IInv, TypeOK, Ranges, off_work
<1>4. TypeOK'
  BY <1>1, <1>2, <1>3, TypeParts
<1>5. Requests' /\ DispPlaces' /\ Upness' /\ Frames' /\ Tokens'
  BY <1>1 DEF IInv, Requests, DispPlaces, Upness, Frames, Tokens, Disabling, MaxPending,
     Stopping, Waiting, off_work
<1>6. RcPlaces'
  BY <1>1 DEF IInv, RcPlaces, DispPlaces, Disabling, RcLocked, Waiting, off_work
<1>7. Quiet'
  BY <1>1 DEF IInv, Quiet, Disabling, EsdRunning, NoRecoveryClash, Stopping, Waiting,
     off_work
<1>8. Powered'
  BY <1>1 DEF IInv, Powered, NoRecoveryClash, off_work
<1> QED
  BY <1>1, <1>4, <1>5, <1>6, <1>7, <1>8 DEF IInv

\* The input event work wakes the encoder up early.
LEMMA InputWorkStep ==
    ASSUME IInv, NoClash, input_event_work
    PROVE  IInv'
<1>1. /\ Held'
      /\ rc' = rc \/ (rc = "IDLE" /\ rc' = "ON" /\ cur_master)
      /\ offWork' = offWork \/ (offWork' = "armed" /\ rc' = "ON")
  <2>1. ~cfg.vid
    BY DEF IInv, DispPlaces, input_event_work
  <2> QED
    BY <2>1, EarlyWakeupEffect, TypeFacts DEF IInv, Exact, Counts, input_event_work
<1>2. Flags' \subseteq BOOLEAN
  BY <1>1, TypeFacts, Zenon DEF IInv, Flags, input_event_work
<1>3. Ranges'
  BY <1>1 DEF IInv, TypeOK, Ranges, input_event_work
<1>4. TypeOK'
  BY <1>1, <1>2, <1>3, TypeParts
<1>5. Requests' /\ Upness' /\ Frames' /\ Tokens'
  BY <1>1 DEF IInv, Requests, Upness, Frames, Tokens, MaxPending, Stopping, Waiting,
     input_event_work
<1>6. DispPlaces'
  BY <1>1 DEF IInv, DispPlaces, Disabling, Waiting, input_event_work
<1>7. RcPlaces'
  BY <1>1 DEF IInv, RcPlaces, RcLocked, input_event_work
<1>8. Quiet'
  BY <1>1 DEF IInv, Quiet, RcPlaces, Disabling, EsdRunning, NoRecoveryClash, RcLocked,
     Stopping, Waiting, input_event_work
<1>9. Powered'
  BY <1>1 DEF IInv, Powered, NoRecoveryClash, input_event_work
<1> QED
  BY <1>1, <1>4, <1>5, <1>6, <1>7, <1>8, <1>9 DEF IInv

\* A vblank request of user space.
LEMMA VblankStep ==
    ASSUME IInv, NoClash, sde_crtc_vblank
    PROVE  IInv'
<1>1. rc # "MODESET" /\ (vblank_enabled <=> enabled /\ vblank_requested)
  BY DEF IInv, Requests, RcPlaces, sde_crtc_vblank
<1>2. /\ vblank_requested' \in BOOLEAN /\ (vblank_requested' <=> ~vblank_requested)
      /\ vblank_enabled' \in BOOLEAN
      /\ vblank_enabled' <=> IF enabled THEN ~vblank_requested ELSE vblank_enabled
  BY TypeFacts, Zenon DEF IInv, sde_crtc_vblank
<1>3. Held'
  <2>1. CASE ~enabled
    BY <2>1, HeldSame DEF IInv, Exact, Counts, sde_crtc_vblank
  <2>2. CASE enabled /\ vblank_requested
    <3>1. res' = VblankIrq(res, FALSE)
      BY <2>2, Zenon DEF sde_crtc_vblank, VblankIrq
    <3> QED
      BY <1>1, <1>2, <2>2, <3>1, VblankEffect, TypeFacts
      DEF IInv, Exact, Counts, sde_crtc_vblank
  <2>3. CASE enabled /\ ~vblank_requested
    <3>1. res' = VblankIrq(res, TRUE)
      BY <2>3, Zenon DEF sde_crtc_vblank, VblankIrq
    <3> QED
      BY <1>1, <1>2, <2>3, <3>1, VblankEffect, TypeFacts
      DEF IInv, Exact, Counts, sde_crtc_vblank
  <2> QED
    BY <2>1, <2>2, <2>3, TypeFacts DEF IInv
<1>4. Flags' \subseteq BOOLEAN
  BY <1>2, TypeFacts, Zenon DEF IInv, Flags, sde_crtc_vblank
<1>5. Ranges'
  BY <1>2 DEF IInv, TypeOK, Ranges, sde_crtc_vblank
<1>6. TypeOK'
  BY <1>3, <1>4, <1>5, TypeParts
<1>7. DispPlaces' /\ Upness' /\ RcPlaces' /\ Quiet' /\ Frames' /\ Tokens' /\ Powered'
  BY <1>2 DEF IInv, DispPlaces, Upness, RcPlaces, Quiet, Frames, Tokens, Powered,
     Disabling, EsdRunning, MaxPending, NoRecoveryClash, RcLocked, Stopping, Waiting,
     sde_crtc_vblank
<1>8. Requests'
  BY <1>2 DEF IInv, Requests, sde_crtc_vblank
<1> QED
  BY <1>3, <1>6, <1>7, <1>8 DEF IInv

\* KICKOFF of the ESD trigger work, beside the display thread.
LEMMA EsdTriggerStep ==
    ASSUME IInv, NoClash, esd_trigger_work
    PROVE  IInv'
<1>1. PICK ok \in BOOLEAN : RcKickoff(ok)
  BY DEF esd_trigger_work
<1>2. /\ Held' /\ offWork' = "none"
      /\ \/ ok /\ rc' = "ON" /\ (rc \in {"ON", "IDLE"} \/ (cur_master /\ attached))
         \/ ~ok /\ rc' = rc /\ rc # "ON"
  BY <1>1, KickoffEffect, TypeFacts DEF IInv, Exact, Counts, esd_trigger_work
<1>3. Flags' \subseteq BOOLEAN
  BY <1>2, TypeFacts, Zenon DEF IInv, Flags, esd_trigger_work
<1>4. Ranges'
  BY <1>2 DEF IInv, TypeOK, Ranges, esd_trigger_work
<1>5. TypeOK'
  BY <1>2, <1>3, <1>4, TypeParts
<1>6. Requests' /\ DispPlaces' /\ Upness'
  BY <1>2 DEF IInv, Requests, DispPlaces, Upness, Disabling, Waiting, esd_trigger_work
<1>7. RcPlaces'
  BY <1>2 DEF IInv, RcPlaces, Quiet, Disabling, EsdRunning, NoRecoveryClash, RcLocked,
     Stopping, Waiting, esd_trigger_work
<1>8. Quiet'
  BY <1>2 DEF IInv, Quiet, Disabling, EsdRunning, NoRecoveryClash, Stopping, Waiting,
     esd_trigger_work
<1>9. Frames'
  BY <1>2 DEF IInv, Frames, Stopping, Waiting, esd_trigger_work
<1>10. Tokens'
  BY <1>2 DEF IInv, Tokens, MaxPending, esd_trigger_work
<1>11. Powered'
  <2>1. ok => rc \notin {"PRE_OFF", "MODESET"}
    BY <1>1 DEF RcKickoff
  <2> QED
    BY <1>2, <2>1 DEF IInv, Powered, NoRecoveryClash, esd_trigger_work
<1> QED
  BY <1>2, <1>5, <1>6, <1>7, <1>8, <1>9, <1>10, <1>11 DEF IInv

-----------------------------------------------------------------------------
(* The theorems.                                                           *)

\* The encoder starts with nothing held and nothing under way.
LEMMA InitInv == Init => IInv
<1> SUFFICES ASSUME Init PROVE IInv
  OBVIOUS
<1>1. /\ Released \in Holdings /\ Released.power = 0 /\ Released.clk = 0
      /\ Released.vbl = 0 /\ ~Released.irqs
  BY DEF Released, Holdings
<1>2. Votes = 0 /\ VblankRefs = 0 /\ rc \notin {"ON", "PRE_OFF"}
  BY DEF Init, Votes, VblankRefs
<1>3. Held
  <2>1. Sound(0, 0, Exact, Counts)
    BY DEF Sound
  <2> QED
    BY <1>1, <1>2, <2>1, Zenon DEF Init, Held, Has
<1>4. TypeOK
  <2>1. res \in [power : 0 .. 2, clk : 0 .. 2, vbl : 0 .. 2, irqs : BOOLEAN, rsc : BOOLEAN]
    BY DEF Init, Released
  <2>2. Flags \subseteq BOOLEAN
    BY Zenon DEF Init, Flags
  <2>3. Ranges
    BY DEF Init, Ranges, MaxPending
  <2> QED
    BY <2>1, <2>2, <2>3, Zenon DEF TypeOK, Flags, Ranges
<1>5. Requests /\ DispPlaces /\ Upness /\ RcPlaces /\ Quiet /\ Frames /\ Tokens /\ Powered
  BY DEF Init, Requests, DispPlaces, Upness, RcPlaces, Quiet, Frames, Tokens, Powered,
     Waiting, Disabling, Stopping, EsdRunning, RcLocked,
     NoRecoveryClash, MaxPending
<1> QED
  BY <1>3, <1>4, <1>5 DEF IInv

\* Every step keeps the invariant, and the configuration.
LEMMA StepInv == IInv /\ NoClash /\ [Next]_vars => IInv' /\ NoClash'
<1> SUFFICES ASSUME IInv, NoClash, [Next]_vars PROVE IInv' /\ NoClash'
  OBVIOUS
<1>1. CASE \E m \in {"enable", "frame", "dms", "disable"} : Commit(m)
  BY <1>1, CommitStep, Zenon DEF Commit, NoClash
<1>2. CASE DispStep
  <2>1. CASE virt_mode_set
    BY <2>1, ModeSetStep, Zenon DEF virt_mode_set, NoClash
  <2>2. CASE PreModeset
    BY <2>2, PreModesetStep, Zenon DEF PreModeset, NoClash
  <2>3. CASE PreModesetDone
    BY <2>3, PreModesetDoneStep, Zenon DEF PreModesetDone, NoClash
  <2>4. CASE crtc_enable
    BY <2>4, CrtcEnableStep, Zenon DEF crtc_enable, NoClash
  <2>5. CASE virt_enable
    BY <2>5, VirtEnableStep, Zenon DEF virt_enable, NoClash
  <2>6. CASE VirtEnableKickoff
    BY <2>6, VirtKickoffStep, Zenon DEF VirtEnableKickoff, NoClash
  <2>7. CASE PrepareForKickoff
    BY <2>7, PrepareStep, Zenon DEF PrepareForKickoff, NoClash
  <2>8. CASE PrepareRcKickoff
    BY <2>8, RcKickoffStep, Zenon DEF PrepareRcKickoff, NoClash
  <2>9. CASE commit_kickoff
    BY <2>9, CommitKickoffStep, Zenon DEF commit_kickoff, NoClash
  <2>10. CASE VidFrameDone
    BY <2>10, VidFrameDoneStep, Zenon DEF VidFrameDone, NoClash
  <2>11. CASE bridge_disable
    BY <2>11, BridgeDisableStep, Zenon DEF bridge_disable, NoClash
  <2>12. CASE DisableWait
    BY <2>12, DisableWaitStep, Zenon DEF DisableWait, NoClash
  <2>13. CASE DisablePreStop
    BY <2>13, PreStopStep, Zenon DEF DisablePreStop, NoClash
  <2>14. CASE DisablePhys
    BY <2>14, DisablePhysStep, Zenon DEF DisablePhys, NoClash
  <2>15. CASE DisableStop
    BY <2>15, StopStep, Zenon DEF DisableStop, NoClash
  <2>16. CASE crtc_disable
    BY <2>16, CrtcDisableStep, Zenon DEF crtc_disable, NoClash
  <2>17. CASE DispEsdStatus
    BY <2>17, DispEsdStatusStep, Zenon DEF DispEsdStatus, NoClash
  <2>18. CASE DispEsdCancel
    BY <2>18, DispEsdCancelStep, Zenon DEF DispEsdCancel, NoClash
  <2>19. CASE DispFrameDone
    BY <2>19, DispFrameDoneStep, Zenon DEF DispFrameDone, NoClash
  <2> QED
    BY <1>2, <2>1, <2>2, <2>3, <2>4, <2>5, <2>6, <2>7, <2>8, <2>9, <2>10, <2>11, <2>12,
       <2>13, <2>14, <2>15, <2>16, <2>17, <2>18, <2>19 DEF DispStep
<1>3. CASE DispWork
  <2>1. CASE off_work
    BY <2>1, OffWorkStep, Zenon DEF off_work, NoClash
  <2>2. CASE input_event_work
    BY <2>2, InputWorkStep, Zenon DEF input_event_work, NoClash
  <2> QED
    BY <1>3, <2>1, <2>2 DEF DispWork
<1>4. CASE sde_crtc_vblank
  BY <1>4, VblankStep, Zenon DEF sde_crtc_vblank, NoClash
<1>5. CASE DispTimeout
  BY <1>5, DispTimeoutStep, Zenon DEF DispTimeout, NoClash
<1>6. CASE OffTimer
  BY <1>6, OffTimerStep, Zenon DEF OffTimer, NoClash
<1>7. CASE input_event_handler
  BY <1>7, InputEventStep, Zenon DEF input_event_handler, NoClash
<1>8. CASE PpDone
  BY <1>8, PpDoneStep, Zenon DEF PpDone, NoClash
<1>9. CASE IrqStep
  <2>1. CASE PpFrameDone
    BY <2>1, PpFrameDoneStep, Zenon DEF PpFrameDone, NoClash
  <2>2. CASE PpArm
    BY <2>2, PpArmStep, Zenon DEF PpArm, NoClash
  <2>3. CASE PpNotify
    BY <2>3, PpNotifyStep, Zenon DEF PpNotify, NoClash
  <2>4. CASE PpDec
    BY <2>4, PpDecStep, Zenon DEF PpDec, NoClash
  <2> QED
    BY <1>9, <2>1, <2>2, <2>3, <2>4 DEF IrqStep
<1>10. CASE VidVblankIrq
  BY <1>10, VidVblankStep, Zenon DEF VidVblankIrq, NoClash
<1>11. CASE EventStep
  <2>1. CASE frame_event_work
    BY <2>1, FrameEventStep, Zenon DEF frame_event_work, NoClash
  <2>2. CASE esd_trigger_work
    BY <2>2, EsdTriggerStep, Zenon DEF esd_trigger_work, NoClash
  <2> QED
    BY <1>11, <2>1, <2>2 DEF EventStep
<1>12. CASE EsdFails
  BY <1>12, EsdFailsStep, Zenon DEF EsdFails, NoClash
<1>13. CASE EsdTimeout
  BY <1>13, EsdTimeoutStep, Zenon DEF EsdTimeout, NoClash
<1>14. CASE EsdStep
  <2>1. CASE EsdWaitDone
    BY <2>1, EsdWaitDoneStep, Zenon DEF EsdWaitDone, NoClash
  <2>2. CASE EsdOwnStatus
    BY <2>2, EsdOwnStatusStep, Zenon DEF EsdOwnStatus, NoClash
  <2>3. CASE EsdFrameDone
    BY <2>3, EsdFrameDoneStep, Zenon DEF EsdFrameDone, NoClash
  <2>4. CASE EsdNotify
    BY <2>4, EsdNotifyStep, Zenon DEF EsdNotify, NoClash
  <2> QED
    BY <1>14, <2>1, <2>2, <2>3, <2>4 DEF EsdStep
<1>15. CASE UNCHANGED vars
  <2>1. Held'
    BY <1>15, HeldSame DEF IInv, Exact, Counts, vars
  <2>2. Flags' \subseteq BOOLEAN
    BY <1>15, TypeFacts, Zenon DEF IInv, Flags, vars
  <2>3. Ranges'
    BY <1>15 DEF IInv, TypeOK, Ranges, vars
  <2>4. TypeOK'
    BY <2>1, <2>2, <2>3, TypeParts
  <2> QED
    BY <1>15, <2>1, <2>4 DEF IInv, NoClash, Requests, DispPlaces, Upness, RcPlaces, Quiet,
       Frames, Tokens, Powered, Waiting, Disabling, Stopping, EsdRunning,
       NoRecoveryClash, RcLocked, vars
<1> QED
  BY <1>1, <1>2, <1>3, <1>4, <1>5, <1>6, <1>7, <1>8, <1>9, <1>10, <1>11, <1>12, <1>13,
     <1>14, <1>15 DEF Next

\* Under every configuration without a clash the invariant holds: what the encoder
\* holds follows from rc_state, whatever the display thread, the ping-pong interrupt,
\* the event thread, the ESD work and the timers do to each other.
THEOREM InvInductive == Spec /\ NoClash => []IInv
<1>1. Init /\ NoClash => IInv /\ NoClash
  BY InitInv
<1>2. (IInv /\ NoClash) /\ [Next]_vars => (IInv /\ NoClash)'
  BY StepInv
<1> QED
  BY <1>1, <1>2, PTL DEF Spec

\* Every variable keeps its type; no vote or reference of sde_encoder_resource_control
\* is counted below zero or twice.
THEOREM TypeCorrect == Spec /\ NoClash => []TypeOK
<1>1. IInv => TypeOK
  BY DEF IInv
<1> QED
  BY <1>1, InvInductive, PTL

\* Over every sequence of resource control events the votes for core power and DSI
\* clocks are those of rc_state: none in OFF, one in ON, PRE_OFF and MODESET, and in IDLE
\* one only in video mode.
THEOREM VotesFollowState == Spec /\ NoClash => []PowerMatchesState
<1>1. IInv => PowerMatchesState
  <2> SUFFICES ASSUME IInv PROVE PowerMatchesState
    OBVIOUS
  <2>1. res.power = Votes /\ res.clk = Votes
    BY HeldFields DEF IInv
  <2> QED
    BY <2>1, TypeFacts DEF IInv, TypeOK, Votes, PowerMatchesState
<1> QED
  BY <1>1, InvInductive, PTL

\* The vblank interrupt's refcount never exceeds the resource control's reference plus
\* the crtc's, both given away for the time of a mode switch, whatever fails; and it is
\* exactly that as long as the physical encoder counts (video mode, or a hw_pp) and no
\* KICKOFF has failed since the display was enabled.
THEOREM VblankReferences == Spec /\ NoClash => []VblankRefExact
<1>1. IInv => VblankRefExact
  <2> SUFFICES ASSUME IInv PROVE VblankRefExact
    OBVIOUS
  <2>1. Sound(res.vbl, VblankRefs, Exact, Counts) /\ (res.irqs <=> rc \in {"ON", "PRE_OFF"})
    BY HeldFields DEF IInv
  <2>2. VblankUsers = VblankRefs
    BY <2>1, TypeFacts DEF IInv, VblankRefs, VblankUsers
  <2> QED
    BY <2>1, <2>2 DEF Sound, Exact, Counts, VblankRefExact
<1> QED
  BY <1>1, InvInductive, PTL

\* The configuration of a boot does not change.
LEMMA RecoveryKept == Spec /\ NoRecoveryClash => []NoRecoveryClash
<1>1. NoRecoveryClash /\ [Next]_vars => NoRecoveryClash'
  <2>1. [Next]_vars => UNCHANGED cfg
    BY DEF Next, vars, DispStep, DispWork, IrqStep, EventStep, EsdStep, Commit,
       virt_enable, PrepareForKickoff, commit_kickoff, VidFrameDone, bridge_disable,
       DisableWait, DisablePhys, OffTimer, input_event_handler, DispTimeout,
       DispEsdStatus, DispEsdCancel, DispFrameDone, PpDone, PpFrameDone, PpArm,
       PpNotify, PpDec, VidVblankIrq, frame_event_work, EsdFails, EsdWaitDone,
       EsdTimeout, EsdOwnStatus, EsdFrameDone, EsdNotify, virt_mode_set, PreModeset,
       PreModesetDone, crtc_enable, VirtEnableKickoff, PrepareRcKickoff, DisablePreStop,
       DisableStop, crtc_disable, off_work, input_event_work, sde_crtc_vblank,
       esd_trigger_work
  <2> QED
    BY <2>1 DEF NoRecoveryClash
<1> QED
  BY <1>1, PTL DEF Spec

\* A frame in flight keeps power and interrupts on: no stale off timer, mode switch or
\* disable collapses the encoder under it, unless a KICKOFF had failed before.  (With both
\* seamless switches and ESD checks a frame that the status work found lost is still in
\* flight when PRE_MODESET ends.)
THEOREM FrameKeepsPower == Spec /\ NoClash /\ NoRecoveryClash => []NoCollapseWhileBusy
<1>1. IInv /\ NoRecoveryClash => NoCollapseWhileBusy
  <2> SUFFICES ASSUME IInv, NoRecoveryClash PROVE NoCollapseWhileBusy
    OBVIOUS
  <2>1. res.irqs <=> rc \in {"ON", "PRE_OFF"}
    BY HeldFields DEF IInv
  <2> QED
    BY <2>1, TypeFacts DEF IInv, Powered, NoCollapseWhileBusy
<1> QED
  BY <1>1, InvInductive, RecoveryKept, PTL

\* sde_encoder_virt_enable initialises the delayed off work only when it is neither armed
\* nor queued, and no interrupt is about to arm it.
THEOREM ReinitQuiescent == Spec /\ NoClash => []OffWorkQuiescentAtReinit
<1>1. IInv => OffWorkQuiescentAtReinit
  BY TypeFacts DEF IInv, Upness, Quiet, OffWorkQuiescentAtReinit
<1> QED
  BY <1>1, InvInductive, PTL

\* The display thread never waits for the ESD status work while that work's trigger waits
\* for rc_lock, and the status work never waits for itself.
THEOREM NobodyWaitsInACircle == Spec /\ NoClash /\ NoRecoveryClash => []NoCircularWait
<1>1. IInv /\ NoRecoveryClash => NoCircularWait
  BY TypeFacts DEF IInv, NoRecoveryClash, DispPlaces, Quiet, NoCircularWait
<1> QED
  BY <1>1, InvInductive, RecoveryKept, PTL
=============================================================================
