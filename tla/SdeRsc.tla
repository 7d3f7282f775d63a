------------------------------- MODULE SdeRsc -------------------------------
(***************************************************************************)
(* The display RSC (sde_rsc.c, sde_rsc_hw.c, sde_rsc_hw_v3.c) between its  *)
(* clients: the power handle, and the encoders, which vote for a state     *)
(* when they are switched on or off and wait for the primary panel's vsync *)
(* when the RSC asks them to (_sde_encoder_update_rsc_client).  A request  *)
(* runs under client_lock and is one step, unless it has to wait in there  *)
(* for the vsync of an earlier one.  Version 3 of the RSC goes with the    *)
(* encoder's rules for SDE_HW_VER_620, or without an external display.     *)
(* Left out: bandwidth votes, timers, hibernation, debugfs.                *)
(***************************************************************************)
EXTENDS SdePower, FiniteSets

CONSTANTS Exts,     \* external displays
          Configs,  \* v3: version of the RSC, v620: of the display engine, cmd:
                    \* the primary panel is a command mode panel
          MaxFaults \* how many switches fail or time out

States == {"idle", "clk", "cmd", "vid"}
Encoders == Exts \cup {"prim"}
Clients == Encoders \cup {"power"}

ASSUME RscConstants ==
    /\ Exts \cap {"prim", "power"} = {} /\ IsFiniteSet(Exts)
    /\ Configs \subseteq [v3 : BOOLEAN, v620 : BOOLEAN, cmd : BOOLEAN]
    /\ MaxFaults \in Nat

VARIABLES
    cfg,
    vote,   \* current_state of each client
    rsc,    \* state: current_state; hw: the state the hardware was switched to;
            \* collapse: power_collapse; clk: refcount of the RSC's own clocks;
            \* wait: rsc_vsync_wait
    pend,   \* the request that waits under client_lock, if any
    ph,     \* the power handle
    pc,     \* where each encoder is
    seen,   \* wait_refcount of each encoder
    faults,
    failed  \* no switch has succeeded since one failed

vars == <<cfg, vote, rsc, pend, ph, pc, seen, faults, failed>>

NoRequest == [by |-> "none"]

\* sde_rsc_probe: the clocks are on only for the initialisation
Init ==
    /\ cfg \in Configs
    /\ vote = [c \in Clients |-> "idle"]
    /\ rsc = [state |-> "idle", hw |-> "idle", collapse |-> FALSE, clk |-> 0,
              wait |-> 0]
    /\ pend = NoRequest
    /\ ph = [ref |-> [c \in {"core"} |-> 0], cur |-> FALSE, res |-> FALSE]
    /\ pc = [e \in Encoders |-> "off"]
    /\ seen = [e \in Encoders |-> FALSE]
    /\ faults = 0 /\ failed = FALSE
-----------------------------------------------------------------------------
(* The switches.  v is the votes, r the RSC; ok says whether the hardware  *)
(* obeys; the result is the RSC, the state it is in if rc is "ok", whether *)
(* the caller is to wait for a vsync (id), or the request itself (hold).   *)

\* sde_rsc_state_update: leaving mode 2 may fail, after which the state is
\* programmed nevertheless; so may entering it, which is then undone
MayFail(r, st) == st = "idle" \/ r.collapse
Hardware(r, st, ok) ==
    CASE ok -> [r EXCEPT !.hw = st, !.collapse = st = "idle"]
      [] ~ok /\ st = "idle" -> r
      [] OTHER -> [r EXCEPT !.hw = st]

Result(r, rc, st, id, hold) == [r |-> r, rc |-> rc, st |-> st, id |-> id, hold |-> hold]
Refused(r) == Result(r, "refused", r.state, FALSE, FALSE)
Switched(r, st, obey) ==
    LET ok == obey \/ ~MayFail(r, st)
    IN  Result(Hardware(r, st, ok), IF ok THEN "ok" ELSE "error", st, FALSE, FALSE)

\* wait for the vsync that completes the switch
AskWait(res, from) ==
    [res EXCEPT !.id = res.rc = "ok" /\ res.r.state \in from]

\* the switches that count the vsync they need make the next one wait for it,
\* whether or not the hardware obeyed; a caller without a pointer sleeps instead
CountWait(res, from, pointer) ==
    CASE res.rc = "ok" /\ res.r.state \in from /\ pointer ->
             [res EXCEPT !.r.wait = @ + 1, !.id = TRUE]
      [] res.rc = "ok" /\ res.r.state \in from /\ ~pointer -> res
      [] OTHER -> [res EXCEPT !.hold = res.r.wait > 0]

ExtClk(v) == \E e \in Exts : v[e] = "clk"
Some(v, st) == \E c \in Clients : v[c] = st

\* mutant: a client in video state does not block the solver
switch_to_cmd_unblocked(v, r, caller, config, ok) ==
    IF r.state = "cmd" THEN Result(r, "ok", "cmd", FALSE, FALSE)
    ELSE AskWait(Switched(r, "cmd", ok), {"vid"})
\* sde_rsc_switch_to_cmd_v2 and _v3
switch_to_cmd(v, r, caller, config, ok) ==
    CASE caller # "prim" -> Result(r, "error", r.state, FALSE, FALSE)
      [] caller = "prim" /\ r.state = "cmd" ->
             LET same == Result(r, "ok", "cmd", FALSE, FALSE)
             IN  IF config THEN AskWait(same, {"cmd"}) ELSE same
      [] caller = "prim" /\ r.state # "cmd"
         /\ (IF cfg.v3 THEN ExtClk(v) ELSE Some(v, "vid")) -> Refused(r)
      [] OTHER -> AskWait(Switched(r, "cmd", ok), {"vid"})

\* sde_rsc_switch_to_vid_v2
switch_to_vid_v2(v, r, ok, pointer) ==
    IF r.state = "vid" THEN Result(r, "ok", "vid", FALSE, FALSE)
    ELSE CountWait(Switched(r, "vid", ok), {"cmd"}, pointer)

\* sde_rsc_switch_to_vid_v3
switch_to_vid_v3(v, r, caller, config, ok) ==
    CASE caller # "prim" -> Result(r, "error", r.state, FALSE, FALSE)
      [] caller = "prim" /\ r.state = "vid" ->
             LET same == Result(r, "ok", "vid", FALSE, FALSE)
             IN  IF config THEN AskWait(same, {"vid"}) ELSE same
      [] caller = "prim" /\ r.state # "vid" /\ ExtClk(v) -> Refused(r)
      [] OTHER -> AskWait(Switched(r, "vid", ok), {"cmd"})

switch_to_vid(v, r, caller, config, ok, pointer) ==
    IF cfg.v3 THEN switch_to_vid_v3(v, r, caller, config, ok)
    ELSE switch_to_vid_v2(v, r, ok, pointer)

\* sde_rsc_switch_to_clk_v2 and _v3
switch_to_clk(v, r, ok, pointer) ==
    IF (Some(v, "vid") \/ Some(v, "cmd")) /\ ~(cfg.v3 /\ ExtClk(v)) THEN Refused(r)
    ELSE CountWait(Switched(r, "clk", ok), IF cfg.v3 THEN {"cmd", "vid"} ELSE {"cmd"},
                   pointer)

\* mutant: the vote of the power handle is overlooked
switch_to_idle_eager(v, r, ok, pointer) ==
    CASE ~cfg.v3 /\ Some(v, "vid") -> Refused(r)
      [] cfg.v3 /\ Some(v, "vid") /\ ~ExtClk(v) -> switch_to_vid(v, r, "prim", FALSE, ok, pointer)
      [] ~Some(v, "vid") /\ Some(v, "cmd") /\ ~(cfg.v3 /\ ExtClk(v)) ->
             switch_to_cmd(v, r, "prim", FALSE, ok)
      [] OTHER -> Switched(r, "idle", ok)
\* sde_rsc_switch_to_idle_v2 and _v3: the best state the other votes leave
switch_to_idle(v, r, ok, pointer) ==
    LET multi == cfg.v3 /\ ExtClk(v)
    IN  CASE Some(v, "vid") /\ ~cfg.v3 -> Refused(r)
          [] Some(v, "vid") /\ cfg.v3 /\ ~multi ->
                 switch_to_vid(v, r, "prim", FALSE, ok, pointer)
          [] ~Some(v, "vid") /\ Some(v, "cmd") /\ ~multi ->
                 switch_to_cmd(v, r, "prim", FALSE, ok)
          [] OTHER -> IF v["power"] = "clk" THEN switch_to_clk(v, r, ok, pointer)
                      ELSE Switched(r, "idle", ok)

Switch(c, st, config, v, r, ok) ==
    CASE st = "idle" -> switch_to_idle(v, r, ok, c # "power")
      [] st = "clk" -> switch_to_clk(v, r, ok, c # "power")
      [] st = "cmd" -> switch_to_cmd(v, r, c, config, ok)
      [] st = "vid" -> switch_to_vid(v, r, c, config, ok, TRUE)
-----------------------------------------------------------------------------
(* A request of client c by the thread of encoder e.                       *)

Go(e, to) == pc' = [pc EXCEPT ![e] = to]

\* after the call: an encoder waits for the vsync if it is asked to, and goes on
\* whatever came out; the power handle switches its clocks, or unwinds
Return(e, c, st, rc, id) ==
    CASE c = e ->
            /\ Go(e, CASE id /\ st = "idle" -> "check_off"
                       [] id /\ st # "idle" -> "check_on"
                       [] OTHER -> IF st = "idle" THEN "unpower" ELSE "on")
            /\ UNCHANGED ph
      [] c # e /\ st = "clk" /\ rc # "error" -> Go(e, "clocks") /\ UNCHANGED ph
      [] c # e /\ st = "clk" /\ rc = "error" ->
            Go(e, "off") /\ ph' = sde_power_resource_enable_fails(ph, "core")
      [] OTHER ->
            /\ Go(e, "off")
            /\ ph' = IF pc[e] = "undo" THEN sde_power_resource_enable_fails(ph, "core")
                     ELSE sde_power_resource_enable(ph, "core", FALSE)

\* the end of sde_rsc_client_state_update
settle(res, r) ==
    LET st == IF res.rc = "ok" THEN res.st ELSE r.state
    IN  [r EXCEPT !.state = st, !.clk = IF st = "idle" THEN @ - 1 ELSE @]

Finish(e, c, ask, res, r) ==
    /\ rsc' = settle(res, r)
    /\ failed' = CASE res.rc = "error" -> TRUE
                   [] res.rc = "ok" /\ res.st # r.state -> FALSE
                   [] OTHER -> failed
    /\ Return(e, c, ask, res.rc, res.id)

sde_rsc_client_state_update(e, c, st, config) ==
    /\ pend = NoRequest
    /\ vote' = [vote EXCEPT ![c] = st]
    /\ IF rsc.state = st /\ ~config
       THEN Return(e, c, st, "ok", FALSE) /\ UNCHANGED <<rsc, pend, faults, failed>>
       ELSE LET r == [rsc EXCEPT !.clk = IF rsc.state = "idle" THEN @ + 1 ELSE @]
                res(ok) == Switch(c, st, config, vote', r, ok)
            IN  \E ok \in BOOLEAN :
                  /\ ok \/ (res(FALSE) # res(TRUE) /\ faults < MaxFaults)
                  /\ faults' = IF ok THEN faults ELSE faults + 1
                  /\ IF res(ok).hold
                     THEN /\ pend' = [by |-> e, client |-> c, ask |-> st, st |-> res(ok).st]
                          /\ rsc' = res(ok).r
                          /\ UNCHANGED <<pc, ph, failed>>
                     ELSE Finish(e, c, st, res(ok), res(ok).r) /\ UNCHANGED pend
    /\ UNCHANGED <<cfg, seen>>

\* the wait under client_lock: the count falls to zero, or 68 ms pass
vsync_waited ==
    /\ pend # NoRequest
    /\ \/ rsc.wait = 0 /\ UNCHANGED faults
          /\ Finish(pend.by, pend.client, pend.ask,
                    Result(rsc, "ok", pend.st, FALSE, FALSE), rsc)
       \/ rsc.wait > 0 /\ faults < MaxFaults /\ faults' = faults + 1
          /\ Finish(pend.by, pend.client, pend.ask,
                    Result(rsc, "error", pend.st, FALSE, FALSE), rsc)
    /\ pend' = NoRequest
    /\ UNCHANGED <<cfg, vote, seen>>
-----------------------------------------------------------------------------
(* The encoders.                                                           *)

\* phandle_lock
PowerFree ==
    /\ \A e \in Encoders : pc[e] \notin {"clocks", "undo"}
    /\ pend # NoRequest => pend.client # "power"

\* _sde_encoder_resource_control_helper, on the way up
power_on(e) ==
    /\ pc[e] = "off" /\ PowerFree
    /\ IF _resource_changed(ph, "core", TRUE)
       THEN sde_rsc_client_state_update(e, "power", "clk", FALSE)
       ELSE /\ ph' = sde_power_resource_enable(ph, "core", TRUE)
            /\ Go(e, "powered")
            /\ UNCHANGED <<cfg, vote, rsc, pend, seen, faults, failed>>

\* the rest of sde_power_resource_enable: the clocks come on, or the RSC vote is
\* taken back
power_clocks(e) ==
    /\ pc[e] = "clocks"
    /\ \/ /\ ph' = sde_power_resource_enable(ph, "core", TRUE)
          /\ Go(e, "powered") /\ UNCHANGED faults
       \/ /\ faults < MaxFaults /\ faults' = faults + 1
          /\ Go(e, "undo") /\ UNCHANGED ph
    /\ UNCHANGED <<cfg, vote, rsc, pend, seen, failed>>
power_undo(e) ==
    pc[e] = "undo" /\ sde_rsc_client_state_update(e, "power", "idle", FALSE)

\* what an encoder may ask for: a command mode primary panel for the solver
\* unless Qsync is on; a clone (external, not 620) for clocks only
Asks(e) ==
    IF cfg.v620 THEN {"clk"} \cup {st \in {"cmd"} : e = "prim" /\ cfg.cmd}
    ELSE IF e = "prim" THEN {"vid"} \cup {st \in {"cmd"} : cfg.cmd}
    ELSE {"clk"} \cup {st \in {"vid"} : ~cfg.v3}

\* _sde_encoder_update_rsc_client, on: the primary also when the mode changes
\* (config) and after every modeset
rsc_on(e) ==
    /\ pc[e] = "powered" \/ (e = "prim" /\ pc[e] = "on")
    /\ \E st \in Asks(e), config \in BOOLEAN :
          /\ config => e = "prim"
          /\ sde_rsc_client_state_update(e, e, st, config)
rsc_off(e) == pc[e] = "on" /\ sde_rsc_client_state_update(e, e, "idle", FALSE)

\* sde_rsc_client_get_vsync_refcount, without the lock
vsync_refcount(e) ==
    /\ pc[e] \in {"check_on", "check_off"}
    /\ seen' = [seen EXCEPT ![e] = rsc.wait > 0]
    /\ Go(e, IF pc[e] = "check_on" THEN "wait_on" ELSE "wait_off")
    /\ UNCHANGED <<cfg, vote, rsc, pend, ph, faults, failed>>

\* mutant: the count is lowered unconditionally
reset_below_zero(n) == n - 1
\* sde_rsc_client_reset_vsync_refcount
reset_vsync_refcount(n) == IF n > 0 THEN n - 1 ELSE 0

\* the vsync came, or five waits for it failed
vblank_waited(e) ==
    /\ pc[e] \in {"wait_on", "wait_off"}
    /\ rsc' = [rsc EXCEPT !.wait = IF seen[e] THEN reset_vsync_refcount(@) ELSE @]
    /\ seen' = [seen EXCEPT ![e] = FALSE]
    /\ Go(e, IF pc[e] = "wait_on" THEN "on" ELSE "unpower")
    /\ UNCHANGED <<cfg, vote, pend, ph, faults, failed>>

\* the way down
power_off(e) ==
    /\ pc[e] = "unpower" /\ PowerFree
    /\ IF _resource_changed(ph, "core", FALSE)
       THEN sde_rsc_client_state_update(e, "power", "idle", FALSE)
       ELSE /\ ph' = sde_power_resource_enable(ph, "core", FALSE)
            /\ Go(e, "off")
            /\ UNCHANGED <<cfg, vote, rsc, pend, seen, faults, failed>>

Next ==
    \/ vsync_waited
    \/ \E e \in Encoders :
          \/ power_on(e) \/ power_clocks(e) \/ power_undo(e) \/ rsc_on(e)
          \/ rsc_off(e) \/ vsync_refcount(e) \/ vblank_waited(e) \/ power_off(e)
Spec == Init /\ [][Next]_vars
-----------------------------------------------------------------------------
(* Properties.                                                             *)

\* Every variable has its type; the vsync count is that of encoders waiting at
\* most, so that none is left behind to delay every later switch.
TypeOK ==
    /\ cfg \in Configs /\ vote \in [Clients -> States]
    /\ rsc \in [state : States, hw : States, collapse : BOOLEAN, clk : 0..1,
                wait : 0..Cardinality(Encoders)]
    /\ rsc.wait <= Cardinality({e \in Encoders : pc[e] \in {"check_on", "check_off"} \/ seen[e]})
    /\ ph \in PowerHandles({"core"})
    /\ pc \in [Encoders -> {"off", "clocks", "undo", "powered", "on", "check_on",
                            "check_off", "wait_on", "wait_off", "unpower"}]
    /\ seen \in [Encoders -> BOOLEAN] /\ faults \in 0..MaxFaults /\ failed \in BOOLEAN

\* the state the votes ask for
Wanted ==
    CASE cfg.v3 /\ ExtClk(vote) -> "clk"
      [] ~(cfg.v3 /\ ExtClk(vote)) /\ Some(vote, "vid") -> "vid"
      [] ~(cfg.v3 /\ ExtClk(vote)) /\ ~Some(vote, "vid") /\ Some(vote, "cmd") -> "cmd"
      [] OTHER -> IF Some(vote, "clk") THEN "clk" ELSE "idle"

\* Between requests, and unless the last switch failed, the RSC and its hardware
\* are in the state all votes together ask for, although a request may be
\* refused, redirected to another client's state, or found to be the current
\* one: no vote is forgotten (sde_rsc_client_state_update).
VotesHonoured == pend = NoRequest /\ ~failed => rsc.state = Wanted /\ rsc.hw = Wanted

\* Whatever failed or timed out: while the power handle has its clocks on, and is
\* not just switching them, the RSC has not collapsed the power and its own clocks
\* are held ("if all clients are in IDLE state then it enters in mode2 state",
\* sde_rsc_priv.h).
PowerMeansAwake == ph.res => ~rsc.collapse /\ rsc.clk = 1
=============================================================================
