----------------------------- MODULE EncoderRC -----------------------------
(***************************************************************************)
(* Resource control of one primary DSI encoder (sde_encoder.c) with the    *)
(* threads that drive it:                                                  *)
(*   the crtc's display thread: commits (enable, frame, seamless mode      *)
(*     switch, disable), the delayed off work, the input event work and    *)
(*     the vblank work, one at a time;                                     *)
(*   the ping-pong done interrupt (command mode), the vsync interrupt;     *)
(*   the crtc's event thread: frame event work and the esd trigger work;   *)
(*   the connector's ESD status work.                                      *)
(* One rc_lock critical section of sde_encoder_resource_control is a step; *)
(* PRE_MODESET, which waits under the lock, is two, and FRAME_DONE, which  *)
(* takes no lock in the interrupt, is split where others can run.          *)
(* Autorefresh is off and the display is a single physical encoder.        *)
(***************************************************************************)
EXTENDS Integers

CONSTANT Configs     \* the panels and faults considered, see ConfigType

\* vid: video mode panel; dms: seamless mode switches are requested; esd: the
\* ESD status check is on; votes: a power or clock vote may fail; reserve:
\* sde_rm_reserve may fail; tmo: the wait for a frame may time out
ConfigType == [vid : BOOLEAN, dms : BOOLEAN, esd : BOOLEAN, votes : BOOLEAN,
               reserve : BOOLEAN, tmo : BOOLEAN]

ASSUME RCConstants == Configs \subseteq ConfigType

VARIABLES
    cfg,             \* the configuration of this boot
    rc,              \* sde_enc->rc_state
    res,             \* what the encoder holds: power and DSI clock votes, the
                     \* vblank irq refcount, frame irqs, the RSC client's vote
    cur_master,      \* sde_enc->cur_master is set
    crtc,            \* sde_enc->crtc is set
    attached,        \* the physical encoder's connector is set
    hw_pp,           \* the physical encoder's hw_pp is set; it is never cleared
    idle_pc,         \* sde_enc->idle_pc_enabled
    vblank_enabled,  \* sde_enc->vblank_enabled
    vblank_requested,\* sde_crtc->vblank_requested
    offWork,         \* delayed_off_work: "none", timer "armed", "queued"
    inputReg,        \* input handler registered
    inputWork,       \* input_event_work queued
    disp,            \* step of the display thread
    mode,            \* the commit it runs: "enable", "frame", "dms", "disable"
    ret,             \* where the wait of the display thread that timed out is
    enabled,         \* sde_crtc->enabled
    physOn,          \* the physical encoder's enable_state is not DISABLED
    tx,              \* pending_kickoff_cnt
    busy,            \* frame_busy_mask
    irq,             \* step of the ping-pong done interrupt
    frame_pending,   \* sde_crtc->frame_pending
    fevents,         \* frame events queued on the event thread
    esd,             \* step of the ESD status work
    pending,         \* esd_recovery_pending of the panel
    rcError          \* history: a KICKOFF failed since the display was enabled

dispvars == <<disp, mode, ret>>
workvars == <<offWork, inputReg, inputWork>>
txvars == <<tx, busy, irq>>
evvars == <<frame_pending, fevents>>
encvars == <<cur_master, crtc, attached, hw_pp, physOn, enabled, idle_pc>>
vblvars == <<vblank_enabled, vblank_requested>>
esdvars == <<esd, pending>>
vars == <<cfg, rc, res, encvars, vblvars, workvars, dispvars, txvars, evvars,
          esdvars, rcError>>

MaxPending == 3      \* bound: frames of commits that frame_pending counts

Released == [power |-> 0, clk |-> 0, vbl |-> 0, irqs |-> FALSE, rsc |-> FALSE]

Init ==
    /\ cfg \in Configs
    /\ rc = "OFF" /\ res = Released
    /\ cur_master = FALSE /\ crtc = FALSE /\ attached = FALSE /\ hw_pp = FALSE
    /\ idle_pc = TRUE
    /\ vblank_enabled = FALSE /\ vblank_requested = FALSE
    /\ offWork = "none" /\ inputReg = FALSE /\ inputWork = FALSE
    /\ disp = "idle" /\ mode = "none" /\ ret = "none"
    /\ enabled = FALSE /\ physOn = FALSE
    /\ tx = 0 /\ busy = FALSE /\ irq = "none"
    /\ frame_pending = 0 /\ fevents = 0
    /\ esd = "off" /\ pending = FALSE /\ rcError = FALSE
-----------------------------------------------------------------------------
(* What the encoder holds.                                                 *)

\* control_vblank_irq of the physical encoder: a refcount, never negative; in
\* command mode the call is refused, and nobody looks at its result, as long as
\* there is no hw_pp
VblankIrq(r, en) ==
    IF ~cfg.vid /\ ~hw_pp THEN r
    ELSE [r EXCEPT !.vbl = IF en THEN @ + 1 ELSE IF @ = 0 THEN 0 ELSE @ - 1]

\* mutant: the vblank reference of the irqs is not dropped with them
IrqControlKeepsVblank(r, en) ==
    [(IF en THEN VblankIrq(r, TRUE) ELSE r) EXCEPT !.irqs = en]
\* _sde_encoder_irq_control: registering is idempotent, the vblank irq counted
IrqControl(r, en) == [VblankIrq(r, en) EXCEPT !.irqs = en]

\* _sde_encoder_resource_control_helper once no vote failed
HelperOn(r) == IrqControl([r EXCEPT !.power = @ + 1, !.clk = @ + 1], TRUE)
HelperOff(r) == [IrqControl(r, FALSE) EXCEPT !.power = @ - 1, !.clk = @ - 1]

\* _sde_encoder_resource_control_rsc_update needs the cached crtc
RscUpdate(r, en) == IF crtc THEN [r EXCEPT !.rsc = en] ELSE r
-----------------------------------------------------------------------------
(* sde_encoder_resource_control, one operator per event; ok says whether   *)
(* it returns 0.  Each changes rc and res; KICKOFF, PRE_STOP and           *)
(* PRE_MODESET also cancel the delayed off work.                           *)

CancelOffWork == offWork' = "none"

\* take all votes and enter ON, or fail and leave everything as it was
HelperEnable(ok) ==
    \/ /\ ok /\ cur_master /\ attached
       /\ rc' = "ON"
       /\ res' = RscUpdate(HelperOn(res), TRUE)
    \/ /\ ~ok /\ (~cur_master \/ ~attached \/ cfg.votes)
       /\ UNCHANGED <<rc, res>>

\* mutant: leaving IDLE only enables the irqs again, in command mode too
RcKickoffIrqOnly(ok) ==
    /\ CancelOffWork
    /\ \/ rc = "ON" /\ ok /\ UNCHANGED <<rc, res>>
       \/ rc \in {"PRE_OFF", "MODESET"} /\ ~ok /\ UNCHANGED <<rc, res>>
       \/ rc = "IDLE" /\ ok /\ rc' = "ON" /\ res' = IrqControl(res, TRUE)
       \/ rc = "OFF" /\ HelperEnable(ok)

RcKickoff(ok) ==
    /\ CancelOffWork
    /\ \/ rc = "ON" /\ ok /\ UNCHANGED <<rc, res>>
       \/ rc \in {"PRE_OFF", "MODESET"} /\ ~ok /\ UNCHANGED <<rc, res>>
       \/ /\ cfg.vid /\ rc = "IDLE" /\ ok
          /\ rc' = "ON" /\ res' = IrqControl(res, TRUE)
       \/ /\ rc = "OFF" \/ (rc = "IDLE" /\ ~cfg.vid)
          /\ HelperEnable(ok)

\* mutant: the delayed off work is not cancelled
RcPreStopKeepsWork ==
    /\ UNCHANGED offWork
    /\ \/ (rc = "OFF" \/ (rc = "IDLE" /\ ~cfg.vid)) /\ UNCHANGED <<rc, res>>
       \/ /\ ~(rc = "OFF" \/ (rc = "IDLE" /\ ~cfg.vid))
          /\ rc' = "PRE_OFF"
          /\ res' = RscUpdate(IF rc = "IDLE" THEN IrqControl(res, TRUE) ELSE res, FALSE)

RcPreStop ==
    /\ CancelOffWork
    /\ \/ /\ cfg.vid /\ rc = "IDLE"
          /\ rc' = "PRE_OFF"
          /\ res' = RscUpdate(IrqControl(res, TRUE), FALSE)
       \/ (rc = "OFF" \/ (rc = "IDLE" /\ ~cfg.vid)) /\ UNCHANGED <<rc, res>>
       \/ /\ rc \notin {"OFF", "IDLE"}
          /\ rc' = "PRE_OFF"
          /\ res' = RscUpdate(res, FALSE)

\* mutant: the votes are dropped in IDLE too, where nothing is held
RcStopIdleReleases ==
    \/ rc \in {"OFF", "ON", "MODESET"} /\ UNCHANGED <<rc, res>>
    \/ /\ rc \in {"PRE_OFF", "IDLE"}
       /\ rc' = "OFF"
       /\ res' = IF cur_master THEN HelperOff(res) ELSE res

RcStop ==
    \/ rc \in {"OFF", "ON", "MODESET"} /\ UNCHANGED <<rc, res>>
    \/ /\ rc = "PRE_OFF"
       /\ rc' = "OFF"
       /\ res' = IF cur_master THEN HelperOff(res) ELSE res
    \/ rc = "IDLE" /\ rc' = "OFF" /\ UNCHANGED res

\* first part of PRE_MODESET: make sure the resources are on
RcPreModesetOn(ok) ==
    /\ CancelOffWork
    /\ \/ rc \in {"OFF", "ON"} /\ ok /\ UNCHANGED <<rc, res>>
       \/ rc \notin {"OFF", "ON"} /\ HelperEnable(ok)

\* second part, after the previous frame is out: irqs off, clocks stay on
RcPreModesetOff ==
    /\ rc' = "MODESET"
    /\ res' = LET r == IrqControl(res, FALSE)
              IN  IF vblank_enabled THEN VblankIrq(r, FALSE) ELSE r

\* r is what the encoder holds once the physical encoder has set the mode
RcPostModeset(r) ==
    \/ rc # "MODESET" /\ UNCHANGED rc /\ res' = r
    \/ /\ rc = "MODESET"
       /\ rc' = "ON"
       /\ res' = LET v == IF vblank_enabled THEN VblankIrq(r, TRUE) ELSE r
                 IN  [IrqControl(v, TRUE) EXCEPT !.rsc = TRUE]

\* mutant: the frame_busy_mask check is missing
RcEnterIdleBusy ==
    \/ (rc # "ON" \/ ~idle_pc) /\ UNCHANGED <<rc, res>>
    \/ /\ rc = "ON" /\ idle_pc
       /\ rc' = "IDLE"
       /\ res' = IF cfg.vid THEN IrqControl(res, FALSE)
                 ELSE HelperOff(RscUpdate(res, FALSE))

RcEnterIdle ==
    \/ (rc # "ON" \/ busy \/ ~idle_pc) /\ UNCHANGED <<rc, res>>
    \/ /\ rc = "ON" /\ ~busy /\ idle_pc
       /\ rc' = "IDLE"
       /\ res' = IF cfg.vid THEN IrqControl(res, FALSE)
                 ELSE HelperOff(RscUpdate(res, FALSE))

RcEarlyWakeup ==
    \/ /\ ~crtc \/ ~idle_pc \/ rc \notin {"ON", "IDLE"}
       /\ UNCHANGED <<rc, res, offWork>>
    \/ /\ crtc /\ idle_pc /\ rc = "ON"
       /\ offWork' = IF frame_pending = 0 THEN "armed" ELSE offWork
       /\ UNCHANGED <<rc, res>>
    \/ /\ crtc /\ idle_pc /\ rc = "IDLE"
       /\ \E ok \in BOOLEAN :
            /\ HelperEnable(ok)
            /\ offWork' = IF ok THEN "armed" ELSE offWork

\* mutant: the frame that is done still counts as pending
FrameDoneArmsEmpty == idle_pc /\ crtc /\ rc = "ON" /\ frame_pending = 0
\* FRAME_DONE reads all its conditions without a lock
FrameDoneArms == idle_pc /\ crtc /\ rc = "ON" /\ frame_pending <= 1
-----------------------------------------------------------------------------
(* The display thread: commits.                                            *)

Goto(step) == disp' = step /\ UNCHANGED <<mode, ret>>
Done == disp' = "idle" /\ mode' = "none" /\ ret' = "none"

\* PRE_MODESET keeps rc_lock while it waits for the frame
RcLocked == disp = "pmwait" \/ ret = "pmwait"

\* a commit reaches the display thread
Commit(m) ==
    /\ disp = "idle"
    /\ m = "disable" \/ frame_pending < MaxPending
    /\ \/ m = "enable" /\ ~enabled /\ disp' = "mode_set"
       \/ m = "frame" /\ enabled /\ disp' = "prepare"
       \/ m = "dms" /\ enabled /\ cfg.dms /\ disp' = "pre_modeset"
       \/ m = "disable" /\ enabled /\ disp' = "bridge_disable"
    /\ mode' = m /\ ret' = "none"
    /\ rcError' = IF m = "enable" THEN FALSE ELSE rcError
    /\ UNCHANGED <<cfg, rc, res, encvars, vblvars, workvars, txvars, evvars, esdvars>>

\* mode_set of the physical encoder: in command mode the vblank refcount starts
\* again from 0, whoever holds a reference
cmd_mode_set(r) == IF cfg.vid THEN r ELSE [r EXCEPT !.vbl = 0]

\* sde_encoder_virt_mode_set: the crtc is cached, resources are reserved
virt_mode_set ==
    /\ disp = "mode_set"
    /\ crtc' = TRUE
    /\ \/ /\ attached' = TRUE /\ hw_pp' = TRUE
          /\ IF mode = "dms" THEN RcPostModeset(cmd_mode_set(res))
             ELSE UNCHANGED rc /\ res' = cmd_mode_set(res)
       \/ cfg.reserve /\ UNCHANGED <<attached, hw_pp, rc, res>>
    /\ Goto("crtc_enable")
    /\ UNCHANGED <<cfg, cur_master, physOn, enabled, idle_pc, vblvars, workvars,
                   txvars, evvars, esdvars, rcError>>

\* ... after PRE_MODESET when the mode is seamless
PreModeset ==
    /\ disp = "pre_modeset"
    /\ crtc' = TRUE
    /\ \E ok \in BOOLEAN :
         /\ RcPreModesetOn(ok)
         /\ disp' = IF ~ok THEN "crtc_enable"
                    ELSE IF rc = "OFF" THEN "mode_set" ELSE "pmwait"
    /\ UNCHANGED <<cfg, mode, ret, cur_master, attached, hw_pp, physOn, enabled, idle_pc,
                   vblvars, inputReg, inputWork, txvars, evvars, esdvars, rcError>>

\* ... the previous frame must be out first
PreModesetDone ==
    /\ disp = "pmwait" /\ (tx = 0 \/ ~physOn)
    /\ RcPreModesetOff
    /\ Goto("mode_set")
    /\ UNCHANGED <<cfg, encvars, vblvars, workvars, txvars, evvars, esdvars, rcError>>

\* sde_crtc_enable; expected to find the crtc enabled in a seamless switch
crtc_enable ==
    /\ disp = "crtc_enable"
    /\ IF enabled THEN UNCHANGED <<res, vblank_enabled, enabled, esd>>
       ELSE /\ res' = IF vblank_requested THEN VblankIrq(res, TRUE) ELSE res
            /\ vblank_enabled' = (vblank_enabled \/ vblank_requested)
            /\ enabled' = TRUE
            /\ esd' = IF cfg.esd THEN "armed" ELSE esd
    /\ Goto("virt_enable")
    /\ UNCHANGED <<cfg, rc, cur_master, crtc, attached, hw_pp, physOn, idle_pc,
                   vblank_requested, workvars, txvars, evvars, pending, rcError>>

\* dsi_bridge_pre_enable, then sde_encoder_virt_enable: the delayed off work is
\* initialised again unless the mode is seamless ...
virt_enable ==
    /\ disp = "virt_enable"
    /\ pending' = FALSE
    /\ crtc' = TRUE /\ cur_master' = TRUE
    /\ inputReg' = (inputReg \/ (~cfg.vid /\ mode = "enable"))
    /\ offWork' = IF mode = "enable" THEN "none" ELSE offWork
    /\ Goto("virt_kickoff")
    /\ UNCHANGED <<cfg, rc, res, attached, hw_pp, physOn, enabled, idle_pc, vblvars,
                   inputWork, txvars, evvars, esd, rcError>>

\* ... and the physical encoder is enabled once KICKOFF has succeeded
VirtEnableKickoff ==
    /\ disp = "virt_kickoff"
    /\ \E ok \in BOOLEAN :
         /\ RcKickoff(ok)
         /\ physOn' = (physOn \/ (ok /\ mode = "enable"))
         /\ rcError' = (rcError \/ ~ok)
    /\ Goto("prepare")
    /\ UNCHANGED <<cfg, cur_master, crtc, attached, hw_pp, enabled, idle_pc, vblvars,
                   inputReg, inputWork, txvars, evvars, esdvars>>
-----------------------------------------------------------------------------
(* The display thread: a frame, at the end of every commit but a disable.  *)

\* sde_encoder_prepare_for_kickoff waits for the previous frame (command mode)
PrepareForKickoff ==
    /\ disp = "prepare" /\ (cfg.vid \/ tx = 0 \/ ~physOn)
    /\ tx' = IF cfg.vid \/ physOn THEN tx ELSE 0
    /\ Goto("rc_kickoff")
    /\ UNCHANGED <<cfg, rc, res, encvars, vblvars, workvars, busy, irq, evvars,
                   esdvars, rcError>>

\* ... and takes the resources; commit_kickoff goes on if that fails
PrepareRcKickoff ==
    /\ disp = "rc_kickoff"
    /\ \E ok \in BOOLEAN : RcKickoff(ok) /\ rcError' = (rcError \/ ~ok)
    /\ Goto("commit")
    /\ UNCHANGED <<cfg, encvars, vblvars, inputReg, inputWork, txvars, evvars, esdvars>>

\* sde_crtc_commit_kickoff: the idle_pc property, the event thread is flushed,
\* the frame is counted, the physical encoders are kicked off
commit_kickoff ==
    /\ disp = "commit"
    /\ frame_pending = 0 \/ fevents = 0
    /\ idle_pc' \in BOOLEAN
    /\ frame_pending' = frame_pending + 1
    /\ IF physOn THEN tx' = tx + 1 /\ busy' = TRUE ELSE UNCHANGED <<tx, busy>>
    /\ IF cfg.vid /\ physOn THEN Goto("vsync") ELSE Done
    /\ UNCHANGED <<cfg, rc, res, cur_master, crtc, attached, hw_pp, physOn, enabled, vblvars,
                   workvars, irq, fevents, esdvars, rcError>>

\* video mode: the commit waits for vsync and reports the frame itself
VidFrameDone ==
    /\ disp = "vsync" /\ tx = 0
    /\ busy' = FALSE
    /\ offWork' = IF busy /\ FrameDoneArms THEN "armed" ELSE offWork
    /\ fevents' = IF busy THEN fevents + 1 ELSE fevents
    /\ Done
    /\ UNCHANGED <<cfg, rc, res, encvars, vblvars, inputReg, inputWork, tx, irq,
                   frame_pending, esdvars, rcError>>
-----------------------------------------------------------------------------
(* The display thread: disabling the display.                              *)

\* sde_connector_helper_bridge_disable waits for a running ESD status work
EsdRunning == esd \notin {"off", "armed", "dead"}

bridge_disable ==
    /\ disp = "bridge_disable" /\ ~EsdRunning
    /\ esd' = "off"
    /\ Goto("waittx")
    /\ UNCHANGED <<cfg, rc, res, encvars, vblvars, workvars, txvars, evvars,
                   pending, rcError>>

\* sde_encoder_virt_disable waits for the last frame ...
DisableWait ==
    /\ disp = "waittx" /\ (tx = 0 \/ ~physOn)
    /\ Goto("pre_stop")
    /\ UNCHANGED <<cfg, rc, res, encvars, vblvars, workvars, txvars, evvars,
                   esdvars, rcError>>

\* ... unregisters the input handler, PRE_STOP ...
DisablePreStop ==
    /\ disp = "pre_stop"
    /\ inputReg' = FALSE
    /\ RcPreStop
    /\ Goto("phys_disable")
    /\ UNCHANGED <<cfg, encvars, vblvars, inputWork, txvars, evvars, esdvars, rcError>>

DisablePhys ==
    /\ disp = "phys_disable"
    /\ physOn' = FALSE
    /\ Goto("stop")
    /\ UNCHANGED <<cfg, rc, res, cur_master, crtc, attached, hw_pp, enabled, idle_pc, vblvars,
                   workvars, txvars, evvars, esdvars, rcError>>

\* ... STOP, and forgets master, connector and crtc
DisableStop ==
    /\ disp = "stop"
    /\ RcStop
    /\ cur_master' = FALSE /\ crtc' = FALSE /\ attached' = FALSE
    /\ Goto("crtc_disable")
    /\ UNCHANGED <<cfg, hw_pp, physOn, enabled, idle_pc, vblvars, workvars, txvars, evvars,
                   esdvars, rcError>>

\* mutant: wait until no frame is pending, not until the events are handled
crtc_disable_waits_frames ==
    /\ disp = "crtc_disable" /\ frame_pending = 0
    /\ IF vblank_requested
       THEN res' = VblankIrq(res, FALSE) /\ vblank_enabled' = FALSE
       ELSE UNCHANGED <<res, vblank_enabled>>
    /\ enabled' = FALSE /\ frame_pending' = 0 /\ idle_pc' = TRUE
    /\ Done
    /\ UNCHANGED <<cfg, rc, cur_master, crtc, attached, hw_pp, physOn, vblank_requested,
                   workvars, txvars, fevents, esdvars, rcError>>

\* sde_crtc_disable
crtc_disable ==
    /\ disp = "crtc_disable"
    /\ frame_pending = 0 \/ fevents = 0
    /\ IF vblank_requested
       THEN res' = VblankIrq(res, FALSE) /\ vblank_enabled' = FALSE
       ELSE UNCHANGED <<res, vblank_enabled>>
    /\ enabled' = FALSE /\ frame_pending' = 0 /\ idle_pc' = TRUE
    /\ Done
    /\ UNCHANGED <<cfg, rc, cur_master, crtc, attached, hw_pp, physOn, vblank_requested,
                   workvars, txvars, fevents, esdvars, rcError>>
-----------------------------------------------------------------------------
(* The display thread: its other work items.                               *)

\* sde_encoder_off_work
off_work ==
    /\ disp = "idle" /\ offWork = "queued"
    /\ offWork' = "none"
    /\ RcEnterIdle
    /\ UNCHANGED <<cfg, encvars, vblvars, inputReg, inputWork, dispvars, txvars,
                   evvars, esdvars, rcError>>

\* the input event work
input_event_work ==
    /\ disp = "idle" /\ inputWork
    /\ inputWork' = FALSE
    /\ RcEarlyWakeup
    /\ UNCHANGED <<cfg, encvars, vblvars, inputReg, dispvars, txvars, evvars,
                   esdvars, rcError>>

\* the vblank work of msm_drv calls sde_crtc_vblank
sde_crtc_vblank ==
    /\ disp = "idle"
    /\ vblank_requested' = ~vblank_requested
    /\ IF enabled
       THEN /\ res' = VblankIrq(res, ~vblank_requested)
            /\ vblank_enabled' = ~vblank_requested
       ELSE UNCHANGED <<res, vblank_enabled>>
    /\ UNCHANGED <<cfg, rc, encvars, workvars, dispvars, txvars, evvars, esdvars,
                   rcError>>

\* the timer of the delayed off work queues it on the display thread
OffTimer ==
    /\ offWork = "armed"
    /\ offWork' = "queued"
    /\ UNCHANGED <<cfg, rc, res, encvars, vblvars, inputReg, inputWork, dispvars,
                   txvars, evvars, esdvars, rcError>>

\* sde_encoder_input_event_handler
input_event_handler ==
    /\ inputReg /\ crtc /\ ~inputWork
    /\ inputWork' = TRUE
    /\ UNCHANGED <<cfg, rc, res, encvars, vblvars, offWork, inputReg, dispvars,
                   txvars, evvars, esdvars, rcError>>
-----------------------------------------------------------------------------
(* A wait for the previous frame that times out (command mode).            *)

\* no interrupt is pending; its handler is assumed not to be running either
FrameLost == cfg.tmo /\ ~cfg.vid /\ tx > 0 /\ physOn /\ irq = "none"

\* handle_ppdone_timeout discards the kickoff first
DispTimeout ==
    /\ disp \in {"prepare", "waittx", "pmwait"} /\ FrameLost
    /\ tx' = tx - 1
    /\ ret' = disp /\ disp' = "esd_check"
    /\ UNCHANGED <<cfg, rc, res, encvars, vblvars, workvars, mode, busy, irq, evvars,
                   esdvars, rcError>>

\* sde_connector_esd_status: is the panel alive?
DispEsdStatus ==
    /\ disp = "esd_check"
    /\ \/ Goto("frame_done") /\ UNCHANGED pending
       \/ cfg.esd /\ ~pending /\ Goto("esd_cancel") /\ pending' = TRUE
    /\ UNCHANGED <<cfg, rc, res, encvars, vblvars, workvars, txvars, evvars, esd, rcError>>

\* ... a dead one is reported after the ESD status work has been cancelled
DispEsdCancel ==
    /\ disp = "esd_cancel" /\ ~EsdRunning
    /\ esd' = "dead"
    /\ Goto("frame_done")
    /\ UNCHANGED <<cfg, rc, res, encvars, vblvars, workvars, txvars, evvars, pending, rcError>>

AfterTimeout(step) ==
    CASE step = "prepare" -> "rc_kickoff"
      [] step = "waittx" -> "pre_stop"
      [] step = "pmwait" -> "crtc_enable"

\* the lost frame is reported, and prepare_for_kickoff forgets all kickoffs
DispFrameDone ==
    /\ disp = "frame_done"
    /\ busy' = FALSE
    /\ offWork' = IF busy /\ FrameDoneArms THEN "armed" ELSE offWork
    /\ fevents' = IF busy THEN fevents + 1 ELSE fevents
    /\ tx' = IF ret = "prepare" THEN 0 ELSE tx
    /\ disp' = AfterTimeout(ret) /\ ret' = "none"
    /\ UNCHANGED <<cfg, rc, res, encvars, vblvars, inputReg, inputWork, mode, irq,
                   frame_pending, esdvars, rcError>>
-----------------------------------------------------------------------------
(* Interrupts.                                                             *)

\* sde_encoder_phys_cmd_pp_tx_done_irq: sde_encoder_frame_done_callback first,
\* which ignores a frame nobody waits for ...
PpDone ==
    /\ ~cfg.vid /\ irq = "none" /\ tx > 0 /\ physOn /\ res.irqs
    /\ busy' = FALSE
    /\ irq' = IF busy THEN "check" ELSE "dec"
    /\ UNCHANGED <<cfg, rc, res, encvars, vblvars, workvars, dispvars, tx, evvars,
                   esdvars, rcError>>

\* ... the FRAME_DONE event: conditions ...
PpFrameDone ==
    /\ irq = "check"
    /\ irq' = IF FrameDoneArms THEN "arm" ELSE "event"
    /\ UNCHANGED <<cfg, rc, res, encvars, vblvars, workvars, dispvars, tx, busy, evvars,
                   esdvars, rcError>>

\* ... and timer ...
PpArm ==
    /\ irq = "arm"
    /\ offWork' = "armed"
    /\ irq' = "event"
    /\ UNCHANGED <<cfg, rc, res, encvars, vblvars, inputReg, inputWork, dispvars, tx,
                   busy, evvars, esdvars, rcError>>

\* ... the frame event for the crtc, if its callback is registered ...
PpNotify ==
    /\ irq = "event"
    /\ fevents' = IF enabled THEN fevents + 1 ELSE fevents
    /\ irq' = "dec"
    /\ UNCHANGED <<cfg, rc, res, encvars, vblvars, workvars, dispvars, tx, busy,
                   frame_pending, esdvars, rcError>>

\* ... and only then the count that the display thread waits for
PpDec ==
    /\ irq = "dec"
    /\ tx' = IF tx = 0 THEN 0 ELSE tx - 1
    /\ irq' = "none"
    /\ UNCHANGED <<cfg, rc, res, encvars, vblvars, workvars, dispvars, busy, evvars,
                   esdvars, rcError>>

\* sde_encoder_phys_vid_vblank_irq with the flush taken by the hardware
VidVblankIrq ==
    /\ cfg.vid /\ tx > 0 /\ physOn /\ res.vbl > 0
    /\ tx' = tx - 1
    /\ UNCHANGED <<cfg, rc, res, encvars, vblvars, workvars, dispvars, busy, irq, evvars,
                   esdvars, rcError>>
-----------------------------------------------------------------------------
(* The event thread and the ESD status work.                               *)

\* sde_crtc_frame_event_work
frame_event_work ==
    /\ fevents > 0
    /\ fevents' = fevents - 1
    /\ frame_pending' = IF frame_pending = 0 THEN 0 ELSE frame_pending - 1
    /\ UNCHANGED <<cfg, rc, res, encvars, vblvars, workvars, dispvars, txvars, esdvars,
                   rcError>>

\* sde_connector_check_status_work finds the panel dead; it queues the esd
\* trigger work for a cached crtc and waits for it
EsdFails ==
    /\ esd = "armed" /\ ~pending /\ cur_master
    /\ pending' = TRUE
    /\ esd' = IF crtc THEN "trigger" ELSE "dead"
    /\ UNCHANGED <<cfg, rc, res, encvars, vblvars, workvars, dispvars, txvars, evvars,
                   rcError>>

\* the event thread runs sde_encoder_esd_trigger_work_handler: KICKOFF
esd_trigger_work ==
    /\ esd = "trigger" /\ ~RcLocked
    /\ \E ok \in BOOLEAN : RcKickoff(ok)
    /\ esd' = "waittx"
    /\ UNCHANGED <<cfg, encvars, vblvars, inputReg, inputWork, dispvars, txvars, evvars,
                   pending, rcError>>

\* the ESD status work waits for the frame in flight and is done ...
EsdWaitDone ==
    /\ esd = "waittx" /\ (tx = 0 \/ ~physOn)
    /\ esd' = "dead"
    /\ UNCHANGED <<cfg, rc, res, encvars, vblvars, workvars, dispvars, txvars, evvars,
                   pending, rcError>>

\* ... or times out like the display thread
EsdTimeout ==
    /\ esd = "waittx" /\ FrameLost
    /\ tx' = tx - 1
    /\ esd' = "esd_check"
    /\ UNCHANGED <<cfg, rc, res, encvars, vblvars, workvars, dispvars, busy, irq, evvars,
                   pending, rcError>>

\* mutant: the check does not care that the recovery is pending already
EsdOwnStatusAlways ==
    /\ esd = "esd_check"
    /\ esd' \in {"frame_done", "self_cancel"} /\ pending' = TRUE
    /\ UNCHANGED <<cfg, rc, res, encvars, vblvars, workvars, dispvars, txvars, evvars, rcError>>

\* sde_connector_esd_status in the status work itself: a failed check would
\* make the work cancel itself and wait for its own end
EsdOwnStatus ==
    /\ esd = "esd_check"
    /\ \/ esd' = "frame_done" /\ UNCHANGED pending
       \/ ~pending /\ esd' = "self_cancel" /\ pending' = TRUE
    /\ UNCHANGED <<cfg, rc, res, encvars, vblvars, workvars, dispvars, txvars, evvars, rcError>>

EsdFrameDone ==
    /\ esd = "frame_done"
    /\ busy' = FALSE
    /\ esd' = IF ~busy THEN "dead" ELSE IF FrameDoneArms THEN "arm" ELSE "event"
    /\ UNCHANGED <<cfg, rc, res, encvars, vblvars, workvars, dispvars, tx, irq, evvars,
                   pending, rcError>>

EsdNotify ==
    /\ esd \in {"arm", "event"}
    /\ offWork' = IF esd = "arm" THEN "armed" ELSE offWork
    /\ fevents' = IF enabled THEN fevents + 1 ELSE fevents
    /\ esd' = "dead"
    /\ UNCHANGED <<cfg, rc, res, encvars, vblvars, inputReg, inputWork, dispvars, txvars,
                   frame_pending, pending, rcError>>
-----------------------------------------------------------------------------
DispStep ==
    \/ virt_mode_set \/ PreModeset \/ PreModesetDone \/ crtc_enable
    \/ virt_enable \/ VirtEnableKickoff
    \/ PrepareForKickoff \/ PrepareRcKickoff \/ commit_kickoff \/ VidFrameDone
    \/ bridge_disable \/ DisableWait \/ DisablePreStop \/ DisablePhys
    \/ DisableStop \/ crtc_disable
    \/ DispEsdStatus \/ DispEsdCancel \/ DispFrameDone

DispWork == off_work \/ input_event_work

IrqStep == PpFrameDone \/ PpArm \/ PpNotify \/ PpDec

EventStep == frame_event_work \/ esd_trigger_work

EsdStep == EsdWaitDone \/ EsdOwnStatus \/ EsdFrameDone \/ EsdNotify

Next ==
    \/ \E m \in {"enable", "frame", "dms", "disable"} : Commit(m)
    \/ DispStep \/ DispWork \/ sde_crtc_vblank \/ DispTimeout
    \/ OffTimer \/ input_event_handler
    \/ PpDone \/ IrqStep \/ VidVblankIrq
    \/ EventStep
    \/ EsdFails \/ EsdTimeout \/ EsdStep

\* Threads and interrupt handlers run on, timers expire, and a frame that was
\* kicked off is reported by the hardware or its wait times out.
Fairness ==
    /\ WF_vars(DispStep) /\ WF_vars(off_work) /\ WF_vars(input_event_work)
    /\ WF_vars(OffTimer) /\ WF_vars(IrqStep) /\ WF_vars(EventStep) /\ WF_vars(EsdStep)
    /\ WF_vars(PpDone \/ VidVblankIrq \/ DispTimeout \/ EsdTimeout)

Spec == Init /\ [][Next]_vars /\ Fairness
-----------------------------------------------------------------------------
(* Properties.                                                             *)

\* Every variable keeps its type; in particular no vote count goes below zero.
TypeOK ==
    /\ cfg \in Configs
    /\ rc \in {"OFF", "PRE_OFF", "ON", "MODESET", "IDLE"}
    /\ res \in [power : 0 .. 2, clk : 0 .. 2, vbl : 0 .. 2, irqs : BOOLEAN, rsc : BOOLEAN]
    /\ {cur_master, crtc, attached, hw_pp, physOn, enabled, idle_pc, vblank_enabled,
        vblank_requested, inputReg, inputWork, busy, pending, rcError} \subseteq BOOLEAN
    /\ offWork \in {"none", "armed", "queued"}
    /\ mode \in {"none", "enable", "frame", "dms", "disable"}
    /\ disp \in {"idle", "mode_set", "pre_modeset", "pmwait", "crtc_enable",
                 "virt_enable", "virt_kickoff", "prepare", "rc_kickoff", "commit",
                 "vsync", "bridge_disable", "waittx", "pre_stop", "phys_disable", "stop",
                 "crtc_disable", "esd_check", "esd_cancel", "frame_done"}
    /\ ret \in {"none", "prepare", "waittx", "pmwait"}
    /\ tx \in 0 .. 1 /\ frame_pending \in 0 .. MaxPending
    /\ fevents \in 0 .. MaxPending
    /\ irq \in {"none", "check", "arm", "event", "dec"}
    /\ esd \in {"off", "armed", "trigger", "waittx", "esd_check", "self_cancel",
                "frame_done", "arm", "event", "dead"}

\* The votes for core power and DSI clocks follow rc_state over every sequence
\* of events of sde_encoder_resource_control: none in OFF, one each in ON,
\* PRE_OFF and MODESET, and in IDLE one each only in video mode.
PowerMatchesState ==
    /\ res.power = res.clk
    /\ res.power = (CASE rc = "OFF" -> 0
                      [] rc = "IDLE" -> IF cfg.vid THEN 1 ELSE 0
                      [] OTHER -> 1)

\* Two users share the vblank interrupt's refcount, the resource control and
\* the crtc's vblank requests; a mode switch takes both away for a while.
VblankUsers ==
    IF rc = "MODESET" THEN 0
    ELSE (IF res.irqs THEN 1 ELSE 0) + (IF vblank_enabled THEN 1 ELSE 0)

\* No reference of the vblank interrupt is left behind, whatever fails, and none
\* is missing: the interrupt is on for each of its users.  Two failures cost a
\* user its reference until the display is disabled or a mode switch passes
\* through MODESET: without a hw_pp (the first reservation failed) a request is
\* dropped, and after a failed KICKOFF a mode switch finds OFF, where PRE_MODESET
\* does not take the references away and mode_set loses them.
VblankRefExact ==
    /\ res.vbl <= VblankUsers
    /\ ~rcError /\ (hw_pp \/ cfg.vid) => res.vbl = VblankUsers

\* "if we are in ON but a frame was just kicked off, ignore the IDLE event":
\* a frame in flight keeps the resources on, whatever stale timer, mode switch
\* or disable comes, unless a KICKOFF had failed and the frame went out anyway.
NoCollapseWhileBusy == busy /\ ~rcError => rc = "ON" /\ res.irqs

\* sde_encoder_virt_enable initialises delayed_off_work again: it must not be
\* armed or queued then, although the interrupt and the ESD work arm it
\* without a lock.
OffWorkQuiescentAtReinit ==
    disp = "virt_enable" /\ mode = "enable" => offWork = "none" /\ irq # "arm"

\* Nobody waits in a circle: the display thread never waits for the ESD status
\* work while it holds the lock the esd trigger work needs, and the status
\* work never waits for its own end.
NoCircularWait ==
    /\ ~(disp = "esd_cancel" /\ ret = "pmwait" /\ esd = "trigger")
    /\ esd # "self_cancel"

\* When commits and input stop, with the panel alive and idle power collapse
\* allowed, the encoder does not stay in ON: the last FRAME_DONE or early
\* wakeup has left a timer that brings it to IDLE.
EventuallyIdle ==
    <>[](disp = "idle" /\ ~inputWork /\ idle_pc /\ ~pending /\ ~rcError /\ physOn)
        => <>[](rc = "IDLE")

\* The comment on SDE_ENC_RC_EVENT_STOP: "When this event is received, disable
\* all the MDP/DSI core clocks, and disable IRQs."  After a STOP that reached
\* OFF, no vote for power or clocks is left.
StopReleasesAll == disp = "crtc_disable" /\ rc = "OFF" => res.power = 0 /\ res.clk = 0

\* dsi_display_check_status: "Prevent another ESD check,when ESD recovery is
\* underway".  While the status work is still reporting the dead panel, no wait
\* that times out runs the check again.
NoCheckDuringRecovery ==
    /\ esd # "self_cancel"
    /\ ~(disp = "esd_cancel" /\ EsdRunning)

\* Every commit ends: no wait for a frame, a flush or another work is forever.
CommitsEnd == (disp # "idle") ~> (disp = "idle")
=============================================================================
