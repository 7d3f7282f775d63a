------------------------------- MODULE DsiClk -------------------------------
(***************************************************************************)
(* The DSI clock manager (dsi_clk_manager.c), its callbacks and callers in *)
(* dsi_display.c, and the power handle below it.  Two handles vote for     *)
(* core and link clocks: "dsi", shared by all users in dsi_display.c, and  *)
(* "mdp", the encoder's.  A request runs under the clock mutex; one step   *)
(* here is one switch of core, LP or HS clocks with its callbacks.         *)
(* Nobody in the repository requests EARLY_GATE, so the clock states are   *)
(* Booleans.  The clocks counted are those of the master controller: a     *)
(* slave that fails takes the master back.                                 *)
(***************************************************************************)
EXTENDS SdePower, Sequences, FiniteSets

CONSTANTS Configs,    \* panels: mode, ulps, susp, phyoff, splash
          FaultSites, \* steps that may fail
          MaxFaults   \* how many failures happen at most

Sites == {"power", "vreg", "core", "lp", "hs", "ulps", "stop", "rate", "panel",
          "esd"}
Panels == [mode : {"cmd", "vid"}, ulps : BOOLEAN, susp : BOOLEAN,
           phyoff : BOOLEAN, splash : BOOLEAN]

ASSUME DsiClkConstants ==
    /\ Configs \subseteq Panels
    /\ FaultSites \subseteq Sites
    /\ MaxFaults \in Nat

VARIABLES
    cfg,    \* the panel
    pc,     \* where each thread is
    lock,   \* display_lock, panel_lock, rc_lock
    handle, \* refcount and state of each client for each clock
    mngr,   \* core_clk_state and link_clk_state of the manager
    upd,    \* dsi_update_clk_state under way: for whom, what is left to switch
    clk,    \* enable counts of the clocks (external)
    ph,     \* the power handle
    io,     \* controller supplies, clamps, ULPS as believed and on the lanes, PHY
    panel,  \* panel_initialized, esd_recovery_pending, is_cont_splash_enabled,
            \* clkrate_change_pending, and num_splash_displays of the KMS layer
    enc,    \* the encoder's resource control holds its votes
    faults  \* failures so far

vars == <<cfg, pc, lock, handle, mngr, upd, clk, ph, io, panel, enc, faults>>
votes == <<handle, mngr, upd, clk, io>>

Threads == {"disp", "rc", "panel", "dbg"}
Handles == {"dsi", "mdp"}
Clks == {"core", "link"}
PowerClients == {"core", "dsi", "splash"}
Free == "free"
NoUpdate == [by |-> Free, todo |-> <<>>]

\* the boot loader's picture is kept by votes of its own
Init ==
    /\ cfg \in Configs
    /\ pc = [t \in Threads |-> IF t = "disp" THEN "off" ELSE "idle"]
    /\ lock = [l \in {"display", "panel", "rc"} |-> Free]
    /\ LET n == IF cfg.splash THEN 1 ELSE 0
       IN  /\ handle = [h \in Handles |-> [k \in Clks |->
                 IF h = "dsi" THEN [ref |-> n, on |-> cfg.splash]
                              ELSE [ref |-> 0, on |-> FALSE]]]
           /\ clk = [core |-> n, lp |-> n, hs |-> n]
           /\ ph = [ref |-> [c \in PowerClients |-> n], cur |-> cfg.splash,
                    res |-> cfg.splash]
    /\ mngr = [k \in Clks |-> cfg.splash]
    /\ upd = NoUpdate
    /\ io = [vreg |-> cfg.splash, clamp |-> FALSE, ulps |-> FALSE,
             lanes |-> FALSE, phyoff |-> FALSE]
    /\ panel = [init |-> FALSE, esd |-> FALSE, splash |-> cfg.splash,
                rate |-> FALSE, kms |-> cfg.splash]
    /\ enc = FALSE /\ faults = 0

Goto(t, l) == pc' = [pc EXCEPT ![t] = l]
Fails(site) == site \in FaultSites /\ faults < MaxFaults /\ faults' = faults + 1
Works == UNCHANGED faults
Take(t, l) == lock[l] = Free /\ lock' = [lock EXCEPT ![l] = t]
Drop(l) == lock' = [lock EXCEPT ![l] = Free]
-----------------------------------------------------------------------------
(* dsi_clk_req_state.  Calls says what each waiting label asks for and     *)
(* where its thread goes when the request returns.                         *)

Call(h, clks, on, ok, fail) ==
    [h |-> h, clks |-> clks, on |-> on, ok |-> ok, fail |-> fail]

Calls == [
    prep_core     |-> Call("dsi", {"core"}, TRUE, "prep_phy", "prep_fail"),
    prep_link     |-> Call("dsi", {"link"}, TRUE, "prep_panel", "prep_core_off"),
    prep_link_off |-> Call("dsi", {"link"}, FALSE, "prep_core_off", "prep_core_off"),
    prep_core_off |-> Call("dsi", {"core"}, FALSE, "prep_fail", "prep_fail"),
    splash_off    |-> Call("dsi", Clks, FALSE, "splash_done", "splash_done"),
    undo_link     |-> Call("dsi", {"link"}, FALSE, "undo_core", "undo_core"),
    undo_core     |-> Call("dsi", {"core"}, FALSE, "undone", "undone"),
    enc_vote      |-> Call("mdp", Clks, TRUE, "enc_voted", "enc_refused"),
    post_enable   |-> Call("dsi", Clks, FALSE, "enabled", "enabled"),
    pre_disable   |-> Call("dsi", Clks, TRUE, "stop", "stop"),
    enc_unvote    |-> Call("mdp", Clks, FALSE, "enc_unvoted", "enc_unvoted"),
    unprep_link   |-> Call("dsi", {"link"}, FALSE, "unprep_core", "unprep_core"),
    unprep_core   |-> Call("dsi", {"core"}, FALSE, "disabled", "disabled"),
    rc_vote       |-> Call("mdp", Clks, TRUE, "rc_voted", "rc_refused"),
    rc_unvote     |-> Call("mdp", Clks, FALSE, "rc_unvoted", "rc_unvoted"),
    bl_on         |-> Call("dsi", {"core"}, TRUE, "bl", "bl_exit"),
    tx_on         |-> Call("dsi", Clks, TRUE, "tx", "bl_off"),
    tx_off        |-> Call("dsi", Clks, FALSE, "bl_off", "bl_off"),
    bl_off        |-> Call("dsi", {"core"}, FALSE, "bl_exit", "bl_exit"),
    esd_on        |-> Call("dsi", Clks, TRUE, "esd_read", "esd_read"),
    esd_off       |-> Call("dsi", Clks, FALSE, "esd_good", "esd_good"),
    esd_off_bad   |-> Call("dsi", Clks, FALSE, "esd_bad", "esd_bad"),
    misr_on       |-> Call("dsi", {"core"}, TRUE, "misr", "misr_exit"),
    misr_off      |-> Call("dsi", {"core"}, FALSE, "misr_exit", "misr_exit")]

\* mutant: every OFF turns the client off
VoteForgetsCount(v, on) ==
    IF on THEN [ref |-> v.ref + 1, on |-> TRUE] ELSE [ref |-> 0, on |-> FALSE]
\* mutant: an OFF at zero is counted
VoteBelowZero(v, on) ==
    IF on THEN [ref |-> v.ref + 1, on |-> TRUE]
    ELSE [ref |-> v.ref - 1, on |-> v.ref > 1]
\* the refcount goes up with every ON and down to zero with OFF
Vote(v, on) ==
    CASE on -> [ref |-> v.ref + 1, on |-> TRUE]
      [] ~on /\ v.ref = 0 -> v
      [] ~on /\ v.ref = 1 -> [ref |-> 0, on |-> FALSE]
      [] OTHER -> [v EXCEPT !.ref = @ - 1]

\* mutant: core clocks go off first
SwitchesCoreFirst(hs) ==
    LET want == [k \in Clks |-> \E h \in Handles : hs[h][k].on]
        When(b, s) == IF b THEN s ELSE <<>>
    IN  When(want["core"] /\ ~mngr["core"], <<"core_on">>)
        \o When(~want["core"] /\ mngr["core"], <<"core_off">>)
        \o When(want["link"] /\ ~mngr["link"], <<"lp_on", "hs_on">>)
        \o When(~want["link"] /\ mngr["link"], <<"hs_off", "lp_off">>)
\* dsi_recheck_clk_state: a clock is on if any client has it on; core clocks
\* go on first and off last
Switches(hs) ==
    LET want == [k \in Clks |-> \E h \in Handles : hs[h][k].on]
        When(b, s) == IF b THEN s ELSE <<>>
    IN  When(want["core"] /\ ~mngr["core"], <<"core_on">>)
        \o When(want["link"] /\ ~mngr["link"], <<"lp_on", "hs_on">>)
        \o When(~want["link"] /\ mngr["link"], <<"hs_off", "lp_off">>)
        \o When(~want["core"] /\ mngr["core"], <<"core_off">>)

dsi_clk_req_state(t) ==
    /\ upd = NoUpdate /\ pc[t] \in DOMAIN Calls
    /\ LET c == Calls[pc[t]]
           old == handle[c.h]
           new == [k \in Clks |-> IF k \in c.clks THEN Vote(old[k], c.on) ELSE old[k]]
           changed == \E k \in Clks : new[k].on # old[k].on
           todo == IF changed THEN Switches([handle EXCEPT ![c.h] = new]) ELSE <<>>
       IN  /\ handle' = [handle EXCEPT ![c.h] = new]
           /\ IF todo = <<>> THEN Goto(t, c.ok) /\ UNCHANGED upd
              ELSE upd' = [by |-> t, todo |-> todo] /\ UNCHANGED pc
    /\ UNCHANGED <<cfg, lock, mngr, clk, ph, io, panel, enc, faults>>

\* one switch is done; the last one, or one that fails, ends the request
Switched(ok) ==
    LET t == upd.by
        end == IF pc[t] = "force" THEN "kicked"
               ELSE IF ok THEN Calls[pc[t]].ok ELSE Calls[pc[t]].fail
    IN  IF ok /\ Len(upd.todo) > 1
        THEN upd' = [upd EXCEPT !.todo = Tail(@)] /\ UNCHANGED pc
        ELSE upd' = NoUpdate /\ Goto(t, end)

Next1(s) == upd.todo # <<>> /\ Head(upd.todo) = s
-----------------------------------------------------------------------------
(* The callbacks of dsi_display.c.                                         *)

dsi_display_is_ulps_req_valid(x, enable) ==
    /\ ~panel.esd
    /\ cfg.ulps \/ cfg.susp
    /\ panel.init \/ cfg.susp
    /\ enable # x.ulps
    /\ ~(enable /\ panel.splash)

dsi_display_set_ulps(x, enable) ==
    IF dsi_display_is_ulps_req_valid(x, enable)
    THEN [x EXCEPT !.ulps = enable, !.lanes = enable] ELSE x

\* before the LP clocks go off: enter ULPS, with the panel blank only if ULPS
\* during suspend is enabled
UlpsEntry(x) ==
    IF IF panel.init THEN cfg.ulps ELSE cfg.susp
    THEN dsi_display_set_ulps(x, TRUE) ELSE x

\* after the LP clocks are on: out of a collapse the controller lost ULPS, it is
\* entered again before the clamps are released
UlpsRestored(x) ==
    IF x.ulps /\ x.clamp
    THEN dsi_display_set_ulps([x EXCEPT !.ulps = FALSE], TRUE) ELSE x
\* mutant: the clamps are not released
UnclampedNot(x) == [x EXCEPT !.phyoff = FALSE]
Unclamped(x) == [x EXCEPT !.clamp = FALSE, !.phyoff = FALSE]

\* after the HS clocks are on: leave ULPS
UlpsExit(x) == IF x.ulps THEN dsi_display_set_ulps(x, FALSE) ELSE x

\* mutant: the lanes are not clamped
ClampedNot(x) ==
    IF panel.init \/ cfg.susp
    THEN [x EXCEPT !.phyoff = @ \/ cfg.phyoff]
    ELSE dsi_display_set_ulps(x, FALSE)
\* before the core clocks go off: clamp the lanes if they stay in use
Clamped(x) ==
    IF panel.init \/ cfg.susp
    THEN [x EXCEPT !.clamp = TRUE, !.phyoff = @ \/ cfg.phyoff]
    ELSE dsi_display_set_ulps(x, FALSE)
-----------------------------------------------------------------------------
(* dsi_update_clk_state, one switch at a time.                             *)

\* clk_disable_unprepare of a clock that is off only warns
Off(n) == IF n = 0 THEN 0 ELSE n - 1

\* pre_clkon_cb refuses supplies that are on already ("No change in state")
CoreOn ==
    /\ Next1("core_on") /\ ~io.vreg
    /\ io' = [io EXCEPT !.vreg = TRUE]
    /\ ph' = sde_power_resource_enable(ph, "dsi", TRUE)
    /\ clk' = [clk EXCEPT !.core = @ + 1]
    /\ mngr' = [mngr EXCEPT !["core"] = TRUE]
    /\ Switched(TRUE) /\ Works
    /\ UNCHANGED <<cfg, lock, handle, panel, enc>>

CoreOnFails ==
    /\ Next1("core_on")
    /\ \/ io.vreg /\ Works /\ UNCHANGED <<io, ph>>
       \/ ~io.vreg /\ Fails("vreg") /\ UNCHANGED <<io, ph>>
       \/ /\ ~io.vreg /\ Fails("power") /\ _resource_changed(ph, "dsi", TRUE)
          /\ ph' = sde_power_resource_enable_fails(ph, "dsi")
          /\ io' = [io EXCEPT !.vreg = TRUE]
       \/ /\ ~io.vreg /\ Fails("core")
          /\ ph' = sde_power_resource_enable(
                       sde_power_resource_enable(ph, "dsi", TRUE), "dsi", FALSE)
          /\ io' = [io EXCEPT !.vreg = TRUE]
    /\ Switched(FALSE)
    /\ UNCHANGED <<cfg, lock, handle, mngr, clk, panel, enc>>

LpOn ==
    /\ Next1("lp_on")
    /\ \/ /\ clk' = [clk EXCEPT !.lp = @ + 1]
          /\ io' = Unclamped(UlpsRestored(io))
          /\ Switched(TRUE) /\ Works
       \/ /\ Fails("lp")
          /\ Switched(FALSE) /\ UNCHANGED <<clk, io>>
       \/ /\ Fails("ulps") /\ io.clamp /\ io.ulps
          /\ dsi_display_is_ulps_req_valid([io EXCEPT !.ulps = FALSE], TRUE)
          /\ clk' = [clk EXCEPT !.lp = @ + 1]
          /\ io' = [io EXCEPT !.ulps = FALSE, !.phyoff = FALSE]
          /\ Switched(FALSE)
    /\ UNCHANGED <<cfg, lock, handle, mngr, ph, panel, enc>>

HsOn ==
    /\ Next1("hs_on")
    /\ \/ /\ clk' = [clk EXCEPT !.hs = @ + 1]
          /\ io' = UlpsExit(io)
          /\ mngr' = [mngr EXCEPT !["link"] = TRUE]
          /\ Switched(TRUE) /\ Works
       \/ /\ Fails("hs")
          /\ Switched(FALSE) /\ UNCHANGED <<clk, io, mngr>>
       \/ /\ Fails("ulps") /\ dsi_display_is_ulps_req_valid(io, FALSE)
          /\ clk' = [clk EXCEPT !.hs = @ + 1]
          /\ Switched(FALSE) /\ UNCHANGED <<io, mngr>>
    /\ UNCHANGED <<cfg, lock, handle, ph, panel, enc>>

HsOff ==
    /\ Next1("hs_off")
    /\ clk' = [clk EXCEPT !.hs = Off(@)]
    /\ Switched(TRUE)
    /\ UNCHANGED <<cfg, lock, handle, mngr, ph, io, panel, enc, faults>>

\* a failing ULPS entry is only logged
LpOff ==
    /\ Next1("lp_off")
    /\ \/ io' = UlpsEntry(io) /\ Works
       \/ UlpsEntry(io) # io /\ Fails("ulps") /\ UNCHANGED io
    /\ clk' = [clk EXCEPT !.lp = Off(@)]
    /\ mngr' = [mngr EXCEPT !["link"] = FALSE]
    /\ Switched(TRUE)
    /\ UNCHANGED <<cfg, lock, handle, ph, panel, enc>>

CoreOff ==
    /\ Next1("core_off")
    /\ \/ /\ io' = [Clamped(io) EXCEPT !.vreg = FALSE]
          /\ clk' = [clk EXCEPT !.core = Off(@)]
          /\ ph' = sde_power_resource_enable(ph, "dsi", FALSE)
          /\ mngr' = [mngr EXCEPT !["core"] = FALSE]
          /\ Switched(TRUE) /\ Works
       \/ /\ Fails("stop") /\ io' = Clamped(io)
          /\ Switched(FALSE) /\ UNCHANGED <<clk, ph, mngr>>
    /\ UNCHANGED <<cfg, lock, handle, panel, enc>>

\* dsi_display_link_clk_force_update: link clocks off and on at the new rate
ForceOff ==
    /\ Next1("force_off")
    /\ io' = UlpsEntry(io)
    /\ clk' = [clk EXCEPT !.hs = Off(@), !.lp = Off(@)]
    /\ Switched(TRUE)
    /\ UNCHANGED <<cfg, lock, handle, mngr, ph, panel, enc, faults>>

\* a failure leaves the rate pending, link_clk_state on and clocks off
ForceOn ==
    /\ Next1("force_on")
    /\ \/ /\ clk' = [clk EXCEPT !.hs = @ + 1, !.lp = @ + 1]
          /\ io' = UlpsExit(Unclamped(UlpsRestored(io)))
          /\ panel' = [panel EXCEPT !.rate = FALSE]
          /\ Switched(TRUE) /\ Works
       \/ /\ Fails("rate")
          /\ clk' \in {clk, [clk EXCEPT !.lp = @ + 1]}
          /\ Switched(FALSE) /\ UNCHANGED <<io, panel>>
    /\ UNCHANGED <<cfg, lock, handle, mngr, ph, enc>>
-----------------------------------------------------------------------------
(* The display thread: commits that turn the display on or off, and frames *)
(* that apply a new clock rate.                                            *)

\* a failed vote is only logged
sde_kms_prepare_commit(at) ==
    /\ pc["disp"] \in {"off", "on"}
    /\ at \in IF pc["disp"] = "off" THEN {"pre_enable"} ELSE {"kick", "bridge_disable"}
    /\ \/ ph' = sde_power_resource_enable(ph, "core", TRUE) /\ Works
       \/ /\ Fails("power") /\ _resource_changed(ph, "core", TRUE)
          /\ ph' = sde_power_resource_enable_fails(ph, "core")
    /\ Goto("disp", at)
    /\ UNCHANGED <<cfg, lock, votes, panel, enc>>

\* mutant: the vote is kept
complete_commit_keeps ==
    /\ pc["disp"] \in {"enabled", "kicked", "disabled"}
    /\ lock' = [l \in DOMAIN lock |-> IF lock[l] = "disp" THEN Free ELSE lock[l]]
    /\ Goto("disp", IF pc["disp"] = "disabled" THEN "off" ELSE "on")
    /\ UNCHANGED <<cfg, votes, ph, panel, enc, faults>>
\* nothing is dropped when the power is off; the first active commit also drops
\* the vote that kept the boot loader's picture
sde_kms_complete_commit ==
    /\ pc["disp"] \in {"enabled", "kicked", "disabled"}
    /\ LET once == sde_power_resource_enable(ph, "core", FALSE)
           handoff == ph.cur /\ panel.kms /\ pc["disp"] # "disabled"
       IN  /\ ph' = IF ~ph.cur THEN ph
                    ELSE IF handoff THEN sde_power_resource_enable(once, "core", FALSE)
                    ELSE once
           /\ panel' = [panel EXCEPT !.kms = @ /\ ~handoff]
    /\ lock' = [l \in DOMAIN lock |-> IF lock[l] = "disp" THEN Free ELSE lock[l]]
    /\ Goto("disp", IF pc["disp"] = "disabled" THEN "off" ELSE "on")
    /\ UNCHANGED <<cfg, votes, enc, faults>>

At(l) == pc["disp"] = l
Step(l) == Goto("disp", l) /\ UNCHANGED <<cfg, votes>>

dsi_bridge_pre_enable ==
    /\ At("pre_enable") /\ Take("disp", "display")
    /\ panel' = [panel EXCEPT !.esd = FALSE]
    /\ Step("prep_core") /\ UNCHANGED <<ph, enc, faults>>

\* the PHY is reset and set up, unless it was left in ULPS over a suspend
PhySetup ==
    /\ At("prep_phy")
    /\ \/ /\ io' = IF cfg.susp /\ io.ulps THEN io ELSE [io EXCEPT !.lanes = FALSE]
          /\ Goto("disp", "prep_link") /\ Works
       \/ Fails("panel") /\ Goto("disp", "prep_core_off") /\ UNCHANGED io
    /\ UNCHANGED <<cfg, lock, handle, mngr, upd, clk, ph, panel, enc>>

PanelPrepare ==
    /\ At("prep_panel")
    /\ \/ Drop("display") /\ Step("enable") /\ Works
       \/ ~panel.splash /\ Fails("panel") /\ Step("prep_link_off") /\ UNCHANGED lock
    /\ UNCHANGED <<ph, panel, enc>>

\* the bridge returns void: the commit goes on whatever happened
PrepareFails ==
    /\ At("prep_fail") /\ Drop("display") /\ Step("enc_start")
    /\ UNCHANGED <<ph, panel, enc, faults>>

dsi_display_enable ==
    /\ At("enable")
    /\ \/ panel.splash /\ Step("splash_off") /\ Works /\ UNCHANGED <<lock, panel>>
       \/ /\ ~panel.splash /\ lock["display"] = Free /\ lock["panel"] = Free
          /\ \/ /\ panel' = [panel EXCEPT !.init = TRUE]
                /\ Step("enc_start") /\ Works /\ UNCHANGED lock
             \/ Fails("panel") /\ Take("disp", "display") /\ Step("undo_link")
                /\ UNCHANGED panel
    /\ UNCHANGED <<ph, enc>>

dsi_display_splash_res_cleanup ==
    /\ At("splash_done")
    /\ ph' = sde_power_resource_enable(ph, "splash", FALSE)
    /\ panel' = [panel EXCEPT !.splash = FALSE, !.init = TRUE]
    /\ Step("enc_start") /\ UNCHANGED <<lock, enc, faults>>

EnableUndone ==
    /\ At("undone") /\ Drop("display") /\ Step("enc_start")
    /\ UNCHANGED <<ph, panel, enc, faults>>

\* the encoder's first KICKOFF: power vote, then clock vote, under rc_lock
EncoderPower(t, at, yes, no) ==
    /\ pc[t] = at /\ ~enc /\ lock["rc"] = Free
    /\ \/ /\ ph' = sde_power_resource_enable(ph, "core", TRUE)
          /\ Goto(t, yes) /\ Take(t, "rc") /\ Works
       \/ /\ Fails("power") /\ _resource_changed(ph, "core", TRUE)
          /\ ph' = sde_power_resource_enable_fails(ph, "core")
          /\ Goto(t, no) /\ UNCHANGED lock
    /\ UNCHANGED <<cfg, votes, panel, enc>>

EncoderVoted(t, at, next) ==
    /\ pc[t] = at /\ Drop("rc") /\ enc' = TRUE /\ Goto(t, next)
    /\ UNCHANGED <<cfg, votes, ph, panel, faults>>

\* the clock vote was refused, or is returned: the power vote goes too
EncoderUnpower(t, at, next) ==
    /\ pc[t] = at /\ Drop("rc") /\ enc' = FALSE /\ Goto(t, next)
    /\ ph' = sde_power_resource_enable(ph, "core", FALSE)
    /\ UNCHANGED <<cfg, votes, panel, faults>>

dsi_bridge_enable ==
    /\ At("post")
    /\ IF cfg.mode = "cmd" THEN Take("disp", "display") /\ Step("post_enable")
                           ELSE Step("enabled") /\ UNCHANGED lock
    /\ UNCHANGED <<ph, panel, enc, faults>>

\* dsi_display_pre_kickoff: a pending clock rate is applied while no command is
\* in progress, and put off while the command engine is busy or the link is off
PreKickoff(held) ==
    /\ At("kick")
    /\ \/ Goto("disp", "kicked") /\ UNCHANGED <<lock, upd>>
       \/ /\ panel.rate /\ mngr["link"] /\ upd = NoUpdate
          /\ \A l \in held : lock[l] = Free
          /\ lock' = [l \in DOMAIN lock |-> IF l \in held THEN "disp" ELSE lock[l]]
          /\ upd' = [by |-> "disp", todo |-> <<"force_off", "force_on">>]
          /\ Goto("disp", "force")
    /\ UNCHANGED <<cfg, handle, mngr, clk, io, ph, panel, enc, faults>>
\* mutant: only the display lock is taken
pre_kickoff_races == PreKickoff({"display"})
dsi_display_pre_kickoff == PreKickoff({"display", "panel"})

EsdCheck == {"esd_on", "esd_read", "esd_off", "esd_off_bad", "esd_good", "esd_bad"}
\* waits for the status work to end (cancel_delayed_work_sync)
dsi_bridge_disable ==
    /\ At("bridge_disable") /\ pc["panel"] \notin EsdCheck
    /\ IF cfg.mode = "cmd" THEN Take("disp", "display") /\ Step("pre_disable")
                           ELSE Step("stop") /\ UNCHANGED lock
    /\ UNCHANGED <<ph, panel, enc, faults>>

\* the encoder's STOP returns its votes
EncoderStop ==
    /\ At("stop") /\ lock["rc"] = Free
    /\ lock' = [lock EXCEPT !["display"] = IF @ = "disp" THEN Free ELSE @,
                            !["rc"] = IF enc THEN "disp" ELSE Free]
    /\ Step(IF enc THEN "enc_unvote" ELSE "post_disable")
    /\ UNCHANGED <<ph, panel, enc, faults>>

dsi_bridge_post_disable ==
    /\ At("post_disable") /\ lock["panel"] = Free /\ Take("disp", "display")
    /\ panel' = [panel EXCEPT !.init = FALSE]
    /\ Step("unprep_link") /\ UNCHANGED <<ph, enc, faults>>
-----------------------------------------------------------------------------
(* The other users: the idle timer and the wake-ups of the encoder, the    *)
(* backlight, the ESD check, debugfs.                                      *)

RcIdle ==
    /\ pc["rc"] = "idle" /\ pc["disp"] \in {"on", "kick", "kicked"}
    /\ cfg.mode = "cmd" /\ enc /\ Take("rc", "rc") /\ Goto("rc", "rc_unvote")
    /\ UNCHANGED <<cfg, votes, ph, panel, enc, faults>>

RcWake ==
    /\ pc["disp"] \in {"on", "kick", "kicked"} /\ cfg.mode = "cmd"
    /\ EncoderPower("rc", "idle", "rc_vote", "idle")

PanelUser(l) ==
    /\ pc["panel"] = "idle" /\ panel.init /\ Take("panel", "panel") /\ Goto("panel", l)
    /\ UNCHANGED <<cfg, votes, ph, panel, enc>>
PanelStep(from, to) ==
    /\ pc["panel"] = from /\ Goto("panel", to)
    /\ UNCHANGED <<cfg, lock, votes, ph, panel, enc>>
PanelExit(from) ==
    /\ pc["panel"] = from /\ Drop("panel") /\ Goto("panel", "idle")
    /\ panel' = [panel EXCEPT !.esd = @ \/ from = "esd_bad"]
    /\ UNCHANGED <<cfg, votes, ph, enc, faults>>

\* core clocks around the backlight command; no command during ESD recovery
dsi_display_set_backlight == PanelUser("bl_on") /\ Works
dsi_host_transfer ==
    \/ PanelStep("bl", IF panel.esd THEN "bl_off" ELSE "tx_on") /\ Works
    \/ PanelStep("tx", "tx_off") /\ Works
BacklightExit == PanelExit("bl_exit")

\* The panel is read with all clocks on, or only its TE signal is watched.  A
\* dead panel is recorded after the clocks are returned.  The check runs between
\* frames of a display that is on: dsi_bridge_disable cancels it.
dsi_display_check_status ==
    \/ /\ ~panel.esd /\ pc["disp"] \in {"on", "kick", "force", "kicked"}
       /\ \/ PanelUser("esd_on") /\ Works
          \/ PanelUser("esd_bad") /\ Fails("esd")
    \/ PanelStep("esd_read", "esd_off") /\ Works
    \/ PanelStep("esd_read", "esd_off_bad") /\ Fails("esd")
    \/ PanelExit("esd_good")
    \/ PanelExit("esd_bad")
\* a new clock rate is asked for, to be applied by the next frame
sysfs_dynamic_dsi_clk_write ==
    /\ cfg.mode = "cmd" /\ lock["display"] = Free
    /\ panel' = [panel EXCEPT !.rate = TRUE]
    /\ UNCHANGED <<cfg, pc, lock, votes, ph, enc, faults>>

debugfs_misr ==
    /\ \/ pc["dbg"] = "idle" /\ Take("dbg", "display") /\ Goto("dbg", "misr_on")
       \/ pc["dbg"] = "misr" /\ Goto("dbg", "misr_off") /\ UNCHANGED lock
       \/ pc["dbg"] = "misr_exit" /\ Drop("display") /\ Goto("dbg", "idle")
    /\ UNCHANGED <<cfg, votes, ph, panel, enc, faults>>
-----------------------------------------------------------------------------
Update == CoreOn \/ CoreOnFails \/ LpOn \/ HsOn \/ HsOff \/ LpOff \/ CoreOff
          \/ ForceOff \/ ForceOn
Display ==
    \/ \E at \in {"pre_enable", "kick", "bridge_disable"} : sde_kms_prepare_commit(at)
    \/ dsi_bridge_pre_enable \/ PhySetup \/ PanelPrepare \/ PrepareFails
    \/ dsi_display_enable \/ dsi_display_splash_res_cleanup \/ EnableUndone
    \/ EncoderPower("disp", "enc_start", "enc_vote", "post")
    \/ EncoderVoted("disp", "enc_voted", "post")
    \/ EncoderUnpower("disp", "enc_refused", "post")
    \/ dsi_bridge_enable \/ dsi_display_pre_kickoff \/ dsi_bridge_disable
    \/ EncoderStop \/ EncoderUnpower("disp", "enc_unvoted", "post_disable")
    \/ dsi_bridge_post_disable \/ sde_kms_complete_commit
Others ==
    \/ RcIdle \/ RcWake
    \/ EncoderVoted("rc", "rc_voted", "idle")
    \/ EncoderUnpower("rc", "rc_refused", "idle")
    \/ EncoderUnpower("rc", "rc_unvoted", "idle")
    \/ dsi_display_set_backlight \/ dsi_host_transfer \/ BacklightExit
    \/ dsi_display_check_status \/ sysfs_dynamic_dsi_clk_write \/ debugfs_misr

Next == (\E t \in Threads : dsi_clk_req_state(t)) \/ Update \/ Display \/ Others
Spec == Init /\ [][Next]_vars
-----------------------------------------------------------------------------
(* Properties.                                                             *)

Labels == DOMAIN Calls \cup
    {"off", "on", "idle", "pre_enable", "prep_phy", "prep_panel", "prep_fail",
     "enable", "splash_done", "undone", "enc_start", "enc_voted", "enc_refused",
     "post", "enabled", "kick", "force", "kicked", "bridge_disable", "stop",
     "enc_unvoted", "post_disable", "disabled", "rc_voted", "rc_refused",
     "rc_unvoted", "bl", "tx", "bl_exit", "esd_read", "esd_good", "esd_bad",
     "misr", "misr_exit"}
Switch == {"core_on", "lp_on", "hs_on", "hs_off", "lp_off", "core_off",
           "force_off", "force_on"}

\* Every variable has its type; the counts of the clocks never go below zero.
TypeOK ==
    /\ cfg \in Configs /\ pc \in [Threads -> Labels]
    /\ lock \in [{"display", "panel", "rc"} -> Threads \cup {Free}]
    /\ handle \in [Handles -> [Clks -> [ref : Nat, on : BOOLEAN]]]
    /\ mngr \in [Clks -> BOOLEAN]
    /\ upd.by \in Threads \cup {Free} /\ upd.todo \in Seq(Switch)
    /\ clk \in [core : Nat, lp : Nat, hs : Nat]
    /\ ph \in PowerHandles(PowerClients)
    /\ io \in [vreg : BOOLEAN, clamp : BOOLEAN, ulps : BOOLEAN, lanes : BOOLEAN,
               phyoff : BOOLEAN]
    /\ panel \in [init : BOOLEAN, esd : BOOLEAN, splash : BOOLEAN, rate : BOOLEAN,
                  kms : BOOLEAN]
    /\ enc \in BOOLEAN /\ faults \in 0..MaxFaults

\* Whatever failed before, short of a change of rate that is still to be retried,
\* a clock the manager believes to be on is on, and the power handle believes in
\* its resources exactly when they are on (dsi_update_clk_state stores a state
\* after the clocks; the error path of sde_power_resource_enable restores
\* current_usecase_ndx).
BelievedIsOn ==
    /\ upd = NoUpdate =>
         /\ mngr["core"] => clk.core > 0 /\ ph.res
         /\ mngr["link"] => \/ clk.lp > 0 /\ clk.hs > 0
                            \/ panel.rate /\ faults > 0
    /\ ph.cur <=> ph.res

AtRest ==
    /\ upd = NoUpdate /\ pc["disp"] \in {"off", "on"}
    /\ \A t \in Threads \ {"disp"} : pc[t] = "idle"

\* Without a failure every vote comes back: when no thread is inside a call the
\* refcounts are those of the display, the encoder and the boot picture, and
\* clocks, supplies and power are what the refcounts ask for
\* (dsi_clk_req_state, sde_power_resource_enable and all their callers).
VotesComeBack ==
    AtRest /\ faults = 0 =>
        LET b2n(b) == IF b THEN 1 ELSE 0
            mine == b2n(panel.splash) + b2n(pc["disp"] = "on" /\ cfg.mode = "vid")
            on == mine > 0 \/ enc
        IN  /\ \A k \in Clks : /\ handle["dsi"][k].ref = mine
                               /\ handle["mdp"][k].ref = b2n(enc)
                               /\ mngr[k] = on
            /\ clk = [core |-> b2n(on), lp |-> b2n(on), hs |-> b2n(on)]
            /\ io.vreg = on
            /\ ph.ref = [core |-> b2n(enc) + b2n(panel.kms), dsi |-> b2n(on),
                         splash |-> b2n(panel.splash)]

\* A command or a status read finds the link running, unclamped and out of
\* ULPS, and keeps it so to its end: no other user, and no change of the clock
\* rate, takes it away (dsi_host_transfer, dsi_display_check_status).
LiveLink ==
    pc["panel"] \in {"tx", "esd_read"} /\ faults = 0 =>
        mngr["link"] /\ clk.lp > 0 /\ clk.hs > 0 /\ ph.res
        /\ ~io.clamp /\ ~io.lanes /\ ~io.ulps /\ ~io.phyoff

\* Lanes the driver left in ULPS are clamped before the core power goes: the
\* state survives the collapse (dsi_pre_clkoff_cb).
UlpsSurvives == faults = 0 /\ io.ulps /\ clk.core = 0 => io.clamp

\* A blank panel is not left in ULPS, unless it is to stay there over a suspend:
\* "Make sure that controller is not in ULPS state when the DSI link is not
\* active" (dsi_pre_clkoff_cb).
NoUlpsWhenBlank == clk.core = 0 /\ ~panel.init /\ ~cfg.susp => ~io.ulps

\* Core clocks run whenever link clocks do: "For ON sequence, Core clocks before
\* link clocks, for OFF sequence, Link clocks before core clocks"
\* (dsi_update_clk_state).
CoreBeforeLink == clk.lp > 0 \/ clk.hs > 0 => clk.core > 0

\* The same, as long as nothing failed.
CoreBeforeLinkUnlessFault == faults = 0 => CoreBeforeLink
=============================================================================
