--------------------------- MODULE DsiClkProofs ---------------------------
(***************************************************************************)
(* Theorems about DsiClk, for every set of panels, every set of steps that *)
(* may fail and every number of failures.  Base is inductive whatever      *)
(* fails; Clean adds what holds until the first failure.                   *)
(***************************************************************************)
EXTENDS DsiClk, SequenceTheorems, TLAPS

b2n(b) == IF b THEN 1 ELSE 0
-----------------------------------------------------------------------------
(* What is left of a request, by what is still to be switched.             *)

On1 == <<"core_on">>
On3 == <<"core_on", "lp_on", "hs_on">>
OnOff3 == <<"core_on", "hs_off", "lp_off">>
LinkOn2 == <<"lp_on", "hs_on">>
LinkOn1 == <<"hs_on">>
OnOff2 == <<"lp_on", "hs_on", "core_off">>
OnOff1 == <<"hs_on", "core_off">>
LinkOff2 == <<"hs_off", "lp_off">>
LinkOff1 == <<"lp_off">>
Off3 == <<"hs_off", "lp_off", "core_off">>
Off2 == <<"lp_off", "core_off">>
Off1 == <<"core_off">>
Force2 == <<"force_off", "force_on">>
Force1 == <<"force_on">>

First(s, x) == s # <<>> /\ Head(s) = x
Has(s, x) == \E i \in 1 .. Len(s) : s[i] = x

CoreGoesOn(s) == Has(s, "core_on")
CoreGoesOff(s) == Has(s, "core_off")
LinkGoesOn(s) == Has(s, "hs_on")
LinkGoesOff(s) == Has(s, "lp_off")
Forcing(s) == Has(s, "force_on")
\* in the middle of a switch of the link
LpIsOn(s) == First(s, "hs_on")
HsIsOff(s) == First(s, "lp_off")
ForcedOff(s) == First(s, "force_on")
Todos == {<<>>, On1, On3, OnOff3, LinkOn2, LinkOn1, OnOff2, OnOff1, LinkOff2,
          LinkOff1, Off3, Off2, Off1, Force2, Force1}
Rest(s) == IF Len(s) > 1 THEN Tail(s) ELSE <<>>
-----------------------------------------------------------------------------
(* The labels of each thread.                                              *)

DispFailed == {"prep_fail", "prep_core_off", "prep_link_off", "undo_link",
               "undo_core", "undone", "enc_refused"}
DispLabels == DispFailed \cup
    {"off", "on", "pre_enable", "prep_core", "prep_phy", "prep_link", "prep_panel",
     "enable", "splash_off", "splash_done", "enc_start", "enc_vote", "enc_voted",
     "post", "post_enable", "enabled", "kick", "force", "kicked",
     "bridge_disable", "pre_disable", "stop", "enc_unvote", "enc_unvoted",
     "post_disable", "unprep_link", "unprep_core", "disabled"}
RcLabels == {"idle", "rc_vote", "rc_voted", "rc_refused", "rc_unvote", "rc_unvoted"}
PanelLabels == {"idle", "bl_on", "bl", "tx_on", "tx", "tx_off", "bl_off", "bl_exit",
                "esd_on", "esd_read", "esd_off", "esd_off_bad", "esd_good", "esd_bad"}
DbgLabels == {"idle", "misr_on", "misr", "misr_off", "misr_exit"}

LabelsOK ==
    /\ pc["disp"] \in DispLabels /\ pc["rc"] \in RcLabels
    /\ pc["panel"] \in PanelLabels /\ pc["dbg"] \in DbgLabels
-----------------------------------------------------------------------------
(* The invariant that no failure breaks.                                   *)

\* a request under way belongs to a thread that waits for it
UpdOK ==
    /\ upd \in [by : Threads \cup {Free}, todo : Todos]
    /\ upd = NoUpdate <=> upd.todo = <<>>
    /\ Forcing(upd.todo) <=> pc["disp"] = "force"
    /\ Forcing(upd.todo) => upd.by = "disp"
    /\ upd # NoUpdate /\ ~Forcing(upd.todo) =>
         upd.by \in Threads /\ pc[upd.by] \in DOMAIN Calls

\* what is still to be switched is not yet switched
MngrOK ==
    /\ CoreGoesOn(upd.todo) => ~mngr["core"]
    /\ CoreGoesOff(upd.todo) => mngr["core"]
    /\ LinkGoesOn(upd.todo) => ~mngr["link"]
    /\ LinkGoesOff(upd.todo) => mngr["link"]
    /\ Forcing(upd.todo) => mngr["link"] /\ panel.rate

ClkOK ==
    /\ mngr["core"] => clk.core > 0
    /\ mngr["link"] /\ ~(panel.rate /\ faults > 0) /\ ~ForcedOff(upd.todo) =>
         clk.lp > 0 /\ (~HsIsOff(upd.todo) => clk.hs > 0)
    /\ LpIsOn(upd.todo) => clk.lp > 0

\* a client is on exactly when it has votes
RefOn == \A h \in Handles, k \in Clks : handle[h][k].on <=> handle[h][k].ref > 0

\* who holds rc_lock, and whether the encoder has its votes there
EncOK ==
    /\ pc["rc"] # "idle" => lock["rc"] = "rc"
    /\ pc["disp"] \in {"enc_vote", "enc_voted", "enc_refused", "enc_unvote",
                       "enc_unvoted"} => lock["rc"] = "disp"
    /\ pc["rc"] \in {"rc_vote", "rc_voted", "rc_refused"} => ~enc
    /\ pc["disp"] \in {"enc_vote", "enc_voted", "enc_refused"} => ~enc
    /\ pc["rc"] \in {"rc_unvote", "rc_unvoted"} => enc
    /\ pc["disp"] \in {"enc_unvote", "enc_unvoted"} => enc

\* the encoder's power vote was granted and is not returned
EncPower == enc \/ pc["disp"] \in {"enc_vote", "enc_voted", "enc_refused"}
                \/ pc["rc"] \in {"rc_vote", "rc_voted", "rc_refused"}
\* a commit that turns on, kicks off or turns off is under way
Commit == pc["disp"] \notin {"off", "on"}

\* Refcounts cover the votes that were granted (a refused vote may leave one
\* more), and the handle is on while one of those is there: a vote is never
\* returned with the handle off.
PowOK ==
    /\ ph.ref["core"] >= b2n(EncPower) + b2n(panel.kms) + b2n(Commit)
    /\ ph.ref["dsi"] >= b2n(mngr["core"])
    /\ ph.ref["splash"] >= b2n(panel.splash)
    /\ EncPower \/ panel.kms \/ mngr["core"] \/ panel.splash => ph.cur
    /\ ph.cur <=> ph.res
    /\ pc["disp"] \in {"splash_off", "splash_done"} => panel.splash

Base == /\ TypeOK /\ LabelsOK /\ UpdOK /\ MngrOK /\ ClkOK /\ RefOn /\ EncOK
        /\ PowOK
-----------------------------------------------------------------------------
(* The invariant that holds until the first failure.                       *)

\* where a thread is in its votes: they change when its request starts
Eff(t) == IF upd.by = t /\ pc[t] # "force" THEN Calls[pc[t]].ok ELSE pc[t]

VideoOn == {"enabled", "on", "kick", "force", "kicked", "bridge_disable"}
LinkHeld(l) ==
    \/ l \in {"prep_panel", "enable", "splash_off", "enc_start", "enc_vote",
              "enc_voted", "post", "post_enable", "stop", "enc_unvote",
              "enc_unvoted", "post_disable", "unprep_link", "tx", "tx_off",
              "esd_read", "esd_off", "esd_off_bad"}
    \/ cfg.mode = "vid" /\ l \in VideoOn
CoreHeld(l) ==
    \/ LinkHeld(l)
    \/ l \in {"prep_phy", "prep_link", "unprep_core", "bl", "tx_on", "bl_off",
              "misr", "misr_off"}
Held(l, k) == IF k = "link" THEN b2n(LinkHeld(l))
              ELSE b2n(CoreHeld(l)) + b2n(l \in {"tx", "tx_off"})
MdpHeld ==
    \/ enc /\ Eff("disp") # "enc_unvoted" /\ Eff("rc") # "rc_unvoted"
    \/ Eff("disp") = "enc_voted" \/ Eff("rc") = "rc_voted"

Blank == {"off", "pre_enable", "prep_core", "prep_phy", "unprep_link", "unprep_core",
          "disabled"}
\* nothing that only a failure leads to
NoFailure ==
    /\ ~panel.esd /\ pc["disp"] \notin DispFailed /\ pc["rc"] # "rc_refused"
    /\ pc["panel"] \notin {"esd_off_bad", "esd_bad"}
    /\ pc["disp"] \in {"post_enable", "pre_disable"} => cfg.mode = "cmd"
    /\ pc["disp"] \in Blank => ~panel.init

RefsExact ==
    \A k \in Clks :
        /\ handle["dsi"][k].ref = b2n(panel.splash) + Held(Eff("disp"), k)
                                  + Held(Eff("panel"), k) + Held(Eff("dbg"), k)
        /\ handle["mdp"][k].ref = b2n(MdpHeld)

Want(k) == \E h \in Handles : handle[h][k].on
MngrExact ==
    /\ CoreGoesOn(upd.todo) => Want("core")
    /\ CoreGoesOff(upd.todo) => ~Want("core")
    /\ ~CoreGoesOn(upd.todo) /\ ~CoreGoesOff(upd.todo) => mngr["core"] = Want("core")
    /\ LinkGoesOn(upd.todo) => Want("link")
    /\ LinkGoesOff(upd.todo) => ~Want("link")
    /\ ~LinkGoesOn(upd.todo) /\ ~LinkGoesOff(upd.todo) => mngr["link"] = Want("link")
    /\ mngr["link"] => mngr["core"]
    /\ LpIsOn(upd.todo) => mngr["core"]
    /\ panel.splash => mngr["link"]
    /\ \A t \in Threads : LinkHeld(Eff(t)) /\ upd.by # t => mngr["link"]

ClkExact ==
    /\ clk.core = b2n(mngr["core"])
    /\ clk.lp = b2n((mngr["link"] /\ ~ForcedOff(upd.todo)) \/ LpIsOn(upd.todo))
    /\ clk.hs = b2n(mngr["link"] /\ ~ForcedOff(upd.todo) /\ ~HsIsOff(upd.todo))

IoExact ==
    /\ io.vreg = mngr["core"] /\ io.lanes = io.ulps
    /\ io.ulps => (cfg.ulps \/ cfg.susp) /\ (panel.init \/ cfg.susp) /\ ~panel.splash
    /\ mngr["link"] \/ LpIsOn(upd.todo) => ~io.clamp /\ ~io.phyoff
    /\ mngr["link"] /\ ~ForcedOff(upd.todo) => ~io.ulps
    /\ io.ulps /\ ~mngr["core"] => io.clamp

PowExact ==
    /\ ph.ref["core"] = b2n(EncPower) + b2n(panel.kms) + b2n(Commit)
    /\ ph.ref["dsi"] = b2n(mngr["core"])
    /\ ph.ref["splash"] = b2n(panel.splash)
    /\ Commit => ph.cur

\* a command and a change of the clock rate exclude each other
PanelLock ==
    /\ pc["panel"] # "idle" => lock["panel"] = "panel"
    /\ pc["disp"] = "force" => lock["panel"] = "disp"

Clean == faults = 0 => /\ NoFailure /\ RefsExact /\ MngrExact /\ ClkExact /\ IoExact
                       /\ PowExact
IInv == Base /\ PanelLock /\ Clean
-----------------------------------------------------------------------------
(* Lemmas about the operators.                                             *)

\* Nothing is left to be switched.
LEMMA NoTodo ==
    /\ <<>> \in Todos /\ NoUpdate \in [by : Threads \cup {Free}, todo : Todos]
    /\ NoUpdate.todo = <<>> /\ NoUpdate.by = Free
    /\ ~CoreGoesOn(<<>>) /\ ~CoreGoesOff(<<>>) /\ ~LinkGoesOn(<<>>)
    /\ ~LinkGoesOff(<<>>) /\ ~Forcing(<<>>) /\ ~LpIsOn(<<>>)
    /\ ~HsIsOff(<<>>) /\ ~ForcedOff(<<>>)
  BY DEF Todos, NoUpdate, Free, Has, First, CoreGoesOn, CoreGoesOff, LinkGoesOn, LinkGoesOff,
         Forcing, LpIsOn, HsIsOff, ForcedOff

\* A list of switches is a sequence of switches.
LEMMA TodoSeq == \A s \in Todos : s \in Seq(Switch)
PROOF
  <1>0. <<>> \in Seq(Switch)
    OBVIOUS
  <1>1. On1 \in Seq(Switch)
    BY DEF On1, Switch
  <1>2. On3 \in Seq(Switch)
    BY DEF On3, Switch
  <1>3. OnOff3 \in Seq(Switch)
    BY DEF OnOff3, Switch
  <1>4. LinkOn2 \in Seq(Switch)
    BY DEF LinkOn2, Switch
  <1>5. LinkOn1 \in Seq(Switch)
    BY DEF LinkOn1, Switch
  <1>6. OnOff2 \in Seq(Switch)
    BY DEF OnOff2, Switch
  <1>7. OnOff1 \in Seq(Switch)
    BY DEF OnOff1, Switch
  <1>8. LinkOff2 \in Seq(Switch)
    BY DEF LinkOff2, Switch
  <1>9. LinkOff1 \in Seq(Switch)
    BY DEF LinkOff1, Switch
  <1>10. Off3 \in Seq(Switch)
    BY DEF Off3, Switch
  <1>11. Off2 \in Seq(Switch)
    BY DEF Off2, Switch
  <1>12. Off1 \in Seq(Switch)
    BY DEF Off1, Switch
  <1>13. Force2 \in Seq(Switch)
    BY DEF Force2, Switch
  <1>14. Force1 \in Seq(Switch)
    BY DEF Force1, Switch
  <1>. QED
    BY <1>0, <1>1, <1>2, <1>3, <1>4, <1>5, <1>6, <1>7, <1>8, <1>9, <1>10, <1>11, <1>12, <1>13, <1>14 DEF Todos

\* What each list of switches is made of.
LEMMA TodoKinds ==
    /\ On1 # <<>> /\ Head(On1) = "core_on" /\ Rest(On1) = <<>>
    /\ CoreGoesOn(On1) /\ ~CoreGoesOff(On1) /\ ~LinkGoesOn(On1)
    /\ ~LinkGoesOff(On1) /\ ~Forcing(On1) /\ ~LpIsOn(On1) /\ ~HsIsOff(On1)
    /\ ~ForcedOff(On1)
    /\ On3 # <<>> /\ Head(On3) = "core_on" /\ Rest(On3) = LinkOn2
    /\ CoreGoesOn(On3) /\ ~CoreGoesOff(On3) /\ LinkGoesOn(On3)
    /\ ~LinkGoesOff(On3) /\ ~Forcing(On3) /\ ~LpIsOn(On3) /\ ~HsIsOff(On3)
    /\ ~ForcedOff(On3)
    /\ OnOff3 # <<>> /\ Head(OnOff3) = "core_on" /\ Rest(OnOff3) = LinkOff2
    /\ CoreGoesOn(OnOff3) /\ ~CoreGoesOff(OnOff3) /\ ~LinkGoesOn(OnOff3)
    /\ LinkGoesOff(OnOff3) /\ ~Forcing(OnOff3) /\ ~LpIsOn(OnOff3)
    /\ ~HsIsOff(OnOff3) /\ ~ForcedOff(OnOff3)
    /\ LinkOn2 # <<>> /\ Head(LinkOn2) = "lp_on" /\ Rest(LinkOn2) = LinkOn1
    /\ ~CoreGoesOn(LinkOn2) /\ ~CoreGoesOff(LinkOn2) /\ LinkGoesOn(LinkOn2)
    /\ ~LinkGoesOff(LinkOn2) /\ ~Forcing(LinkOn2) /\ ~LpIsOn(LinkOn2)
    /\ ~HsIsOff(LinkOn2) /\ ~ForcedOff(LinkOn2)
    /\ LinkOn1 # <<>> /\ Head(LinkOn1) = "hs_on" /\ Rest(LinkOn1) = <<>>
    /\ ~CoreGoesOn(LinkOn1) /\ ~CoreGoesOff(LinkOn1) /\ LinkGoesOn(LinkOn1)
    /\ ~LinkGoesOff(LinkOn1) /\ ~Forcing(LinkOn1) /\ LpIsOn(LinkOn1)
    /\ ~HsIsOff(LinkOn1) /\ ~ForcedOff(LinkOn1)
    /\ OnOff2 # <<>> /\ Head(OnOff2) = "lp_on" /\ Rest(OnOff2) = OnOff1
    /\ ~CoreGoesOn(OnOff2) /\ CoreGoesOff(OnOff2) /\ LinkGoesOn(OnOff2)
    /\ ~LinkGoesOff(OnOff2) /\ ~Forcing(OnOff2) /\ ~LpIsOn(OnOff2)
    /\ ~HsIsOff(OnOff2) /\ ~ForcedOff(OnOff2)
    /\ OnOff1 # <<>> /\ Head(OnOff1) = "hs_on" /\ Rest(OnOff1) = Off1
    /\ ~CoreGoesOn(OnOff1) /\ CoreGoesOff(OnOff1) /\ LinkGoesOn(OnOff1)
    /\ ~LinkGoesOff(OnOff1) /\ ~Forcing(OnOff1) /\ LpIsOn(OnOff1)
    /\ ~HsIsOff(OnOff1) /\ ~ForcedOff(OnOff1)
    /\ LinkOff2 # <<>> /\ Head(LinkOff2) = "hs_off"
    /\ Rest(LinkOff2) = LinkOff1 /\ ~CoreGoesOn(LinkOff2)
    /\ ~CoreGoesOff(LinkOff2) /\ ~LinkGoesOn(LinkOff2) /\ LinkGoesOff(LinkOff2)
    /\ ~Forcing(LinkOff2) /\ ~LpIsOn(LinkOff2) /\ ~HsIsOff(LinkOff2)
    /\ ~ForcedOff(LinkOff2)
    /\ LinkOff1 # <<>> /\ Head(LinkOff1) = "lp_off" /\ Rest(LinkOff1) = <<>>
    /\ ~CoreGoesOn(LinkOff1) /\ ~CoreGoesOff(LinkOff1) /\ ~LinkGoesOn(LinkOff1)
    /\ LinkGoesOff(LinkOff1) /\ ~Forcing(LinkOff1) /\ ~LpIsOn(LinkOff1)
    /\ HsIsOff(LinkOff1) /\ ~ForcedOff(LinkOff1)
    /\ Off3 # <<>> /\ Head(Off3) = "hs_off" /\ Rest(Off3) = Off2
    /\ ~CoreGoesOn(Off3) /\ CoreGoesOff(Off3) /\ ~LinkGoesOn(Off3)
    /\ LinkGoesOff(Off3) /\ ~Forcing(Off3) /\ ~LpIsOn(Off3) /\ ~HsIsOff(Off3)
    /\ ~ForcedOff(Off3)
    /\ Off2 # <<>> /\ Head(Off2) = "lp_off" /\ Rest(Off2) = Off1
    /\ ~CoreGoesOn(Off2) /\ CoreGoesOff(Off2) /\ ~LinkGoesOn(Off2)
    /\ LinkGoesOff(Off2) /\ ~Forcing(Off2) /\ ~LpIsOn(Off2) /\ HsIsOff(Off2)
    /\ ~ForcedOff(Off2)
    /\ Off1 # <<>> /\ Head(Off1) = "core_off" /\ Rest(Off1) = <<>>
    /\ ~CoreGoesOn(Off1) /\ CoreGoesOff(Off1) /\ ~LinkGoesOn(Off1)
    /\ ~LinkGoesOff(Off1) /\ ~Forcing(Off1) /\ ~LpIsOn(Off1) /\ ~HsIsOff(Off1)
    /\ ~ForcedOff(Off1)
    /\ Force2 # <<>> /\ Head(Force2) = "force_off" /\ Rest(Force2) = Force1
    /\ ~CoreGoesOn(Force2) /\ ~CoreGoesOff(Force2) /\ ~LinkGoesOn(Force2)
    /\ ~LinkGoesOff(Force2) /\ Forcing(Force2) /\ ~LpIsOn(Force2)
    /\ ~HsIsOff(Force2) /\ ~ForcedOff(Force2)
    /\ Force1 # <<>> /\ Head(Force1) = "force_on" /\ Rest(Force1) = <<>>
    /\ ~CoreGoesOn(Force1) /\ ~CoreGoesOff(Force1) /\ ~LinkGoesOn(Force1)
    /\ ~LinkGoesOff(Force1) /\ Forcing(Force1) /\ ~LpIsOn(Force1)
    /\ ~HsIsOff(Force1) /\ ForcedOff(Force1)
PROOF
  <1>1. /\ On1 # <<>> /\ Head(On1) = "core_on" /\ Rest(On1) = <<>>
         /\ CoreGoesOn(On1) /\ ~CoreGoesOff(On1) /\ ~LinkGoesOn(On1)
         /\ ~LinkGoesOff(On1) /\ ~Forcing(On1) /\ ~LpIsOn(On1)
         /\ ~HsIsOff(On1) /\ ~ForcedOff(On1)
    BY DEF On1, Rest, Has, First, CoreGoesOn, CoreGoesOff, LinkGoesOn, LinkGoesOff,
         Forcing, LpIsOn, HsIsOff, ForcedOff
  <1>2. /\ On3 # <<>> /\ Head(On3) = "core_on" /\ Rest(On3) = LinkOn2
         /\ CoreGoesOn(On3) /\ ~CoreGoesOff(On3) /\ LinkGoesOn(On3)
         /\ ~LinkGoesOff(On3) /\ ~Forcing(On3) /\ ~LpIsOn(On3)
         /\ ~HsIsOff(On3) /\ ~ForcedOff(On3)
    BY DEF On3, Rest, Has, First, CoreGoesOn, CoreGoesOff, LinkGoesOn, LinkGoesOff,
         Forcing, LpIsOn, HsIsOff, ForcedOff, LinkOn2
  <1>3. /\ OnOff3 # <<>> /\ Head(OnOff3) = "core_on"
         /\ Rest(OnOff3) = LinkOff2 /\ CoreGoesOn(OnOff3)
         /\ ~CoreGoesOff(OnOff3) /\ ~LinkGoesOn(OnOff3) /\ LinkGoesOff(OnOff3)
         /\ ~Forcing(OnOff3) /\ ~LpIsOn(OnOff3) /\ ~HsIsOff(OnOff3)
         /\ ~ForcedOff(OnOff3)
    BY DEF OnOff3, Rest, Has, First, CoreGoesOn, CoreGoesOff, LinkGoesOn, LinkGoesOff,
         Forcing, LpIsOn, HsIsOff, ForcedOff, LinkOff2
  <1>4. /\ LinkOn2 # <<>> /\ Head(LinkOn2) = "lp_on"
         /\ Rest(LinkOn2) = LinkOn1 /\ ~CoreGoesOn(LinkOn2)
         /\ ~CoreGoesOff(LinkOn2) /\ LinkGoesOn(LinkOn2)
         /\ ~LinkGoesOff(LinkOn2) /\ ~Forcing(LinkOn2) /\ ~LpIsOn(LinkOn2)
         /\ ~HsIsOff(LinkOn2) /\ ~ForcedOff(LinkOn2)
    BY DEF LinkOn2, Rest, Has, First, CoreGoesOn, CoreGoesOff, LinkGoesOn, LinkGoesOff,
         Forcing, LpIsOn, HsIsOff, ForcedOff, LinkOn1
  <1>5. /\ LinkOn1 # <<>> /\ Head(LinkOn1) = "hs_on" /\ Rest(LinkOn1) = <<>>
         /\ ~CoreGoesOn(LinkOn1) /\ ~CoreGoesOff(LinkOn1)
         /\ LinkGoesOn(LinkOn1) /\ ~LinkGoesOff(LinkOn1) /\ ~Forcing(LinkOn1)
         /\ LpIsOn(LinkOn1) /\ ~HsIsOff(LinkOn1) /\ ~ForcedOff(LinkOn1)
    BY DEF LinkOn1, Rest, Has, First, CoreGoesOn, CoreGoesOff, LinkGoesOn, LinkGoesOff,
         Forcing, LpIsOn, HsIsOff, ForcedOff
  <1>6. /\ OnOff2 # <<>> /\ Head(OnOff2) = "lp_on" /\ Rest(OnOff2) = OnOff1
         /\ ~CoreGoesOn(OnOff2) /\ CoreGoesOff(OnOff2) /\ LinkGoesOn(OnOff2)
         /\ ~LinkGoesOff(OnOff2) /\ ~Forcing(OnOff2) /\ ~LpIsOn(OnOff2)
         /\ ~HsIsOff(OnOff2) /\ ~ForcedOff(OnOff2)
    BY DEF OnOff2, Rest, Has, First, CoreGoesOn, CoreGoesOff, LinkGoesOn, LinkGoesOff,
         Forcing, LpIsOn, HsIsOff, ForcedOff, OnOff1
  <1>7. /\ OnOff1 # <<>> /\ Head(OnOff1) = "hs_on" /\ Rest(OnOff1) = Off1
         /\ ~CoreGoesOn(OnOff1) /\ CoreGoesOff(OnOff1) /\ LinkGoesOn(OnOff1)
         /\ ~LinkGoesOff(OnOff1) /\ ~Forcing(OnOff1) /\ LpIsOn(OnOff1)
         /\ ~HsIsOff(OnOff1) /\ ~ForcedOff(OnOff1)
    BY DEF OnOff1, Rest, Has, First, CoreGoesOn, CoreGoesOff, LinkGoesOn, LinkGoesOff,
         Forcing, LpIsOn, HsIsOff, ForcedOff, Off1
  <1>8. /\ LinkOff2 # <<>> /\ Head(LinkOff2) = "hs_off"
         /\ Rest(LinkOff2) = LinkOff1 /\ ~CoreGoesOn(LinkOff2)
         /\ ~CoreGoesOff(LinkOff2) /\ ~LinkGoesOn(LinkOff2)
         /\ LinkGoesOff(LinkOff2) /\ ~Forcing(LinkOff2) /\ ~LpIsOn(LinkOff2)
         /\ ~HsIsOff(LinkOff2) /\ ~ForcedOff(LinkOff2)
    BY DEF LinkOff2, Rest, Has, First, CoreGoesOn, CoreGoesOff, LinkGoesOn, LinkGoesOff,
         Forcing, LpIsOn, HsIsOff, ForcedOff, LinkOff1
  <1>9. /\ LinkOff1 # <<>> /\ Head(LinkOff1) = "lp_off"
         /\ Rest(LinkOff1) = <<>> /\ ~CoreGoesOn(LinkOff1)
         /\ ~CoreGoesOff(LinkOff1) /\ ~LinkGoesOn(LinkOff1)
         /\ LinkGoesOff(LinkOff1) /\ ~Forcing(LinkOff1) /\ ~LpIsOn(LinkOff1)
         /\ HsIsOff(LinkOff1) /\ ~ForcedOff(LinkOff1)
    BY DEF LinkOff1, Rest, Has, First, CoreGoesOn, CoreGoesOff, LinkGoesOn, LinkGoesOff,
         Forcing, LpIsOn, HsIsOff, ForcedOff
  <1>10. /\ Off3 # <<>> /\ Head(Off3) = "hs_off" /\ Rest(Off3) = Off2
         /\ ~CoreGoesOn(Off3) /\ CoreGoesOff(Off3) /\ ~LinkGoesOn(Off3)
         /\ LinkGoesOff(Off3) /\ ~Forcing(Off3) /\ ~LpIsOn(Off3)
         /\ ~HsIsOff(Off3) /\ ~ForcedOff(Off3)
    BY DEF Off3, Rest, Has, First, CoreGoesOn, CoreGoesOff, LinkGoesOn, LinkGoesOff,
         Forcing, LpIsOn, HsIsOff, ForcedOff, Off2
  <1>11. /\ Off2 # <<>> /\ Head(Off2) = "lp_off" /\ Rest(Off2) = Off1
         /\ ~CoreGoesOn(Off2) /\ CoreGoesOff(Off2) /\ ~LinkGoesOn(Off2)
         /\ LinkGoesOff(Off2) /\ ~Forcing(Off2) /\ ~LpIsOn(Off2)
         /\ HsIsOff(Off2) /\ ~ForcedOff(Off2)
    BY DEF Off2, Rest, Has, First, CoreGoesOn, CoreGoesOff, LinkGoesOn, LinkGoesOff,
         Forcing, LpIsOn, HsIsOff, ForcedOff, Off1
  <1>12. /\ Off1 # <<>> /\ Head(Off1) = "core_off" /\ Rest(Off1) = <<>>
         /\ ~CoreGoesOn(Off1) /\ CoreGoesOff(Off1) /\ ~LinkGoesOn(Off1)
         /\ ~LinkGoesOff(Off1) /\ ~Forcing(Off1) /\ ~LpIsOn(Off1)
         /\ ~HsIsOff(Off1) /\ ~ForcedOff(Off1)
    BY DEF Off1, Rest, Has, First, CoreGoesOn, CoreGoesOff, LinkGoesOn, LinkGoesOff,
         Forcing, LpIsOn, HsIsOff, ForcedOff
  <1>13. /\ Force2 # <<>> /\ Head(Force2) = "force_off"
         /\ Rest(Force2) = Force1 /\ ~CoreGoesOn(Force2)
         /\ ~CoreGoesOff(Force2) /\ ~LinkGoesOn(Force2)
         /\ ~LinkGoesOff(Force2) /\ Forcing(Force2) /\ ~LpIsOn(Force2)
         /\ ~HsIsOff(Force2) /\ ~ForcedOff(Force2)
    BY DEF Force2, Rest, Has, First, CoreGoesOn, CoreGoesOff, LinkGoesOn, LinkGoesOff,
         Forcing, LpIsOn, HsIsOff, ForcedOff, Force1
  <1>14. /\ Force1 # <<>> /\ Head(Force1) = "force_on" /\ Rest(Force1) = <<>>
         /\ ~CoreGoesOn(Force1) /\ ~CoreGoesOff(Force1) /\ ~LinkGoesOn(Force1)
         /\ ~LinkGoesOff(Force1) /\ Forcing(Force1) /\ ~LpIsOn(Force1)
         /\ ~HsIsOff(Force1) /\ ForcedOff(Force1)
    BY DEF Force1, Rest, Has, First, CoreGoesOn, CoreGoesOff, LinkGoesOn, LinkGoesOff,
         Forcing, LpIsOn, HsIsOff, ForcedOff
  <1>. QED
    BY <1>1, <1>2, <1>3, <1>4, <1>5, <1>6, <1>7, <1>8, <1>9, <1>10, <1>11, <1>12, <1>13, <1>14

\* What is still to be switched before and after switching core clocks on.
LEMMA CoreOnTodo ==
    ASSUME NEW s \in Todos, s # <<>>, Head(s) = "core_on"
    PROVE  /\ Rest(s) \in Todos
           /\ CoreGoesOn(s) /\ ~CoreGoesOn(Rest(s)) /\ ~CoreGoesOff(s)
           /\ ~CoreGoesOff(Rest(s)) /\ (LinkGoesOn(Rest(s)) <=> LinkGoesOn(s))
           /\ (LinkGoesOff(Rest(s)) <=> LinkGoesOff(s)) /\ ~Forcing(s)
           /\ ~Forcing(Rest(s)) /\ ~LpIsOn(s) /\ ~LpIsOn(Rest(s)) /\ ~HsIsOff(s)
           /\ ~HsIsOff(Rest(s)) /\ ~ForcedOff(s) /\ ~ForcedOff(Rest(s))
  BY TodoKinds, NoTodo DEF Todos

\* What is still to be switched before and after switching LP clocks on.
LEMMA LpOnTodo ==
    ASSUME NEW s \in Todos, s # <<>>, Head(s) = "lp_on"
    PROVE  /\ Rest(s) \in Todos
           /\ ~CoreGoesOn(s) /\ ~CoreGoesOn(Rest(s))
           /\ (CoreGoesOff(Rest(s)) <=> CoreGoesOff(s)) /\ LinkGoesOn(s)
           /\ LinkGoesOn(Rest(s)) /\ ~LinkGoesOff(s) /\ ~LinkGoesOff(Rest(s))
           /\ ~Forcing(s) /\ ~Forcing(Rest(s)) /\ ~LpIsOn(s) /\ LpIsOn(Rest(s))
           /\ ~HsIsOff(s) /\ ~HsIsOff(Rest(s)) /\ ~ForcedOff(s)
           /\ ~ForcedOff(Rest(s))
  BY TodoKinds, NoTodo DEF Todos

\* What is still to be switched before and after switching HS clocks on.
LEMMA HsOnTodo ==
    ASSUME NEW s \in Todos, s # <<>>, Head(s) = "hs_on"
    PROVE  /\ Rest(s) \in Todos
           /\ ~CoreGoesOn(s) /\ ~CoreGoesOn(Rest(s))
           /\ (CoreGoesOff(Rest(s)) <=> CoreGoesOff(s)) /\ LinkGoesOn(s)
           /\ ~LinkGoesOn(Rest(s)) /\ ~LinkGoesOff(s) /\ ~LinkGoesOff(Rest(s))
           /\ ~Forcing(s) /\ ~Forcing(Rest(s)) /\ LpIsOn(s) /\ ~LpIsOn(Rest(s))
           /\ ~HsIsOff(s) /\ ~HsIsOff(Rest(s)) /\ ~ForcedOff(s)
           /\ ~ForcedOff(Rest(s))
  BY TodoKinds, NoTodo DEF Todos

\* What is still to be switched before and after switching HS clocks off.
LEMMA HsOffTodo ==
    ASSUME NEW s \in Todos, s # <<>>, Head(s) = "hs_off"
    PROVE  /\ Rest(s) \in Todos
           /\ ~CoreGoesOn(s) /\ ~CoreGoesOn(Rest(s))
           /\ (CoreGoesOff(Rest(s)) <=> CoreGoesOff(s)) /\ ~LinkGoesOn(s)
           /\ ~LinkGoesOn(Rest(s)) /\ LinkGoesOff(s) /\ LinkGoesOff(Rest(s))
           /\ ~Forcing(s) /\ ~Forcing(Rest(s)) /\ ~LpIsOn(s) /\ ~LpIsOn(Rest(s))
           /\ ~HsIsOff(s) /\ HsIsOff(Rest(s)) /\ ~ForcedOff(s)
           /\ ~ForcedOff(Rest(s))
  BY TodoKinds, NoTodo DEF Todos

\* What is still to be switched before and after switching LP clocks off.
LEMMA LpOffTodo ==
    ASSUME NEW s \in Todos, s # <<>>, Head(s) = "lp_off"
    PROVE  /\ Rest(s) \in Todos
           /\ ~CoreGoesOn(s) /\ ~CoreGoesOn(Rest(s))
           /\ (CoreGoesOff(Rest(s)) <=> CoreGoesOff(s)) /\ ~LinkGoesOn(s)
           /\ ~LinkGoesOn(Rest(s)) /\ LinkGoesOff(s) /\ ~LinkGoesOff(Rest(s))
           /\ ~Forcing(s) /\ ~Forcing(Rest(s)) /\ ~LpIsOn(s) /\ ~LpIsOn(Rest(s))
           /\ HsIsOff(s) /\ ~HsIsOff(Rest(s)) /\ ~ForcedOff(s)
           /\ ~ForcedOff(Rest(s))
  BY TodoKinds, NoTodo DEF Todos

\* What is still to be switched before and after switching core clocks off.
LEMMA CoreOffTodo ==
    ASSUME NEW s \in Todos, s # <<>>, Head(s) = "core_off"
    PROVE  /\ Rest(s) \in Todos
           /\ ~CoreGoesOn(s) /\ ~CoreGoesOn(Rest(s)) /\ CoreGoesOff(s)
           /\ ~CoreGoesOff(Rest(s)) /\ ~LinkGoesOn(s) /\ ~LinkGoesOn(Rest(s))
           /\ ~LinkGoesOff(s) /\ ~LinkGoesOff(Rest(s)) /\ ~Forcing(s)
           /\ ~Forcing(Rest(s)) /\ ~LpIsOn(s) /\ ~LpIsOn(Rest(s)) /\ ~HsIsOff(s)
           /\ ~HsIsOff(Rest(s)) /\ ~ForcedOff(s) /\ ~ForcedOff(Rest(s))
  BY TodoKinds, NoTodo DEF Todos

\* What is still to be switched before and after switching link clocks off for a new rate.
LEMMA ForceOffTodo ==
    ASSUME NEW s \in Todos, s # <<>>, Head(s) = "force_off"
    PROVE  /\ Rest(s) \in Todos
           /\ ~CoreGoesOn(s) /\ ~CoreGoesOn(Rest(s)) /\ ~CoreGoesOff(s)
           /\ ~CoreGoesOff(Rest(s)) /\ ~LinkGoesOn(s) /\ ~LinkGoesOn(Rest(s))
           /\ ~LinkGoesOff(s) /\ ~LinkGoesOff(Rest(s)) /\ Forcing(s)
           /\ Forcing(Rest(s)) /\ ~LpIsOn(s) /\ ~LpIsOn(Rest(s)) /\ ~HsIsOff(s)
           /\ ~HsIsOff(Rest(s)) /\ ~ForcedOff(s) /\ ForcedOff(Rest(s))
  BY TodoKinds, NoTodo DEF Todos

\* What is still to be switched before and after switching link clocks on at a new rate.
LEMMA ForceOnTodo ==
    ASSUME NEW s \in Todos, s # <<>>, Head(s) = "force_on"
    PROVE  /\ Rest(s) \in Todos
           /\ ~CoreGoesOn(s) /\ ~CoreGoesOn(Rest(s)) /\ ~CoreGoesOff(s)
           /\ ~CoreGoesOff(Rest(s)) /\ ~LinkGoesOn(s) /\ ~LinkGoesOn(Rest(s))
           /\ ~LinkGoesOff(s) /\ ~LinkGoesOff(Rest(s)) /\ Forcing(s)
           /\ ~Forcing(Rest(s)) /\ ~LpIsOn(s) /\ ~LpIsOn(Rest(s)) /\ ~HsIsOff(s)
           /\ ~HsIsOff(Rest(s)) /\ ForcedOff(s) /\ ~ForcedOff(Rest(s))
  BY TodoKinds, NoTodo DEF Todos
\* The table of the calls.
LEMMA CallsTable ==
    /\ DOMAIN Calls = {
         "prep_core", "prep_link", "prep_link_off", "prep_core_off",
         "splash_off", "undo_link", "undo_core", "enc_vote", "post_enable",
         "pre_disable", "enc_unvote", "unprep_link", "unprep_core",
         "rc_vote", "rc_unvote", "bl_on", "tx_on", "tx_off", "bl_off",
         "esd_on", "esd_off", "esd_off_bad", "misr_on", "misr_off"}
    /\ Calls["prep_core"].h = "dsi" /\ Calls["prep_core"].clks = {"core"} /\ Calls["prep_core"].on = TRUE
    /\ Calls["prep_core"].ok = "prep_phy" /\ Calls["prep_core"].fail = "prep_fail"
    /\ Calls["prep_link"].h = "dsi" /\ Calls["prep_link"].clks = {"link"} /\ Calls["prep_link"].on = TRUE
    /\ Calls["prep_link"].ok = "prep_panel" /\ Calls["prep_link"].fail = "prep_core_off"
    /\ Calls["prep_link_off"].h = "dsi" /\ Calls["prep_link_off"].clks = {"link"} /\ Calls["prep_link_off"].on = FALSE
    /\ Calls["prep_link_off"].ok = "prep_core_off" /\ Calls["prep_link_off"].fail = "prep_core_off"
    /\ Calls["prep_core_off"].h = "dsi" /\ Calls["prep_core_off"].clks = {"core"} /\ Calls["prep_core_off"].on = FALSE
    /\ Calls["prep_core_off"].ok = "prep_fail" /\ Calls["prep_core_off"].fail = "prep_fail"
    /\ Calls["splash_off"].h = "dsi" /\ Calls["splash_off"].clks = Clks /\ Calls["splash_off"].on = FALSE
    /\ Calls["splash_off"].ok = "splash_done" /\ Calls["splash_off"].fail = "splash_done"
    /\ Calls["undo_link"].h = "dsi" /\ Calls["undo_link"].clks = {"link"} /\ Calls["undo_link"].on = FALSE
    /\ Calls["undo_link"].ok = "undo_core" /\ Calls["undo_link"].fail = "undo_core"
    /\ Calls["undo_core"].h = "dsi" /\ Calls["undo_core"].clks = {"core"} /\ Calls["undo_core"].on = FALSE
    /\ Calls["undo_core"].ok = "undone" /\ Calls["undo_core"].fail = "undone"
    /\ Calls["enc_vote"].h = "mdp" /\ Calls["enc_vote"].clks = Clks /\ Calls["enc_vote"].on = TRUE
    /\ Calls["enc_vote"].ok = "enc_voted" /\ Calls["enc_vote"].fail = "enc_refused"
    /\ Calls["post_enable"].h = "dsi" /\ Calls["post_enable"].clks = Clks /\ Calls["post_enable"].on = FALSE
    /\ Calls["post_enable"].ok = "enabled" /\ Calls["post_enable"].fail = "enabled"
    /\ Calls["pre_disable"].h = "dsi" /\ Calls["pre_disable"].clks = Clks /\ Calls["pre_disable"].on = TRUE
    /\ Calls["pre_disable"].ok = "stop" /\ Calls["pre_disable"].fail = "stop"
    /\ Calls["enc_unvote"].h = "mdp" /\ Calls["enc_unvote"].clks = Clks /\ Calls["enc_unvote"].on = FALSE
    /\ Calls["enc_unvote"].ok = "enc_unvoted" /\ Calls["enc_unvote"].fail = "enc_unvoted"
    /\ Calls["unprep_link"].h = "dsi" /\ Calls["unprep_link"].clks = {"link"} /\ Calls["unprep_link"].on = FALSE
    /\ Calls["unprep_link"].ok = "unprep_core" /\ Calls["unprep_link"].fail = "unprep_core"
    /\ Calls["unprep_core"].h = "dsi" /\ Calls["unprep_core"].clks = {"core"} /\ Calls["unprep_core"].on = FALSE
    /\ Calls["unprep_core"].ok = "disabled" /\ Calls["unprep_core"].fail = "disabled"
    /\ Calls["rc_vote"].h = "mdp" /\ Calls["rc_vote"].clks = Clks /\ Calls["rc_vote"].on = TRUE
    /\ Calls["rc_vote"].ok = "rc_voted" /\ Calls["rc_vote"].fail = "rc_refused"
    /\ Calls["rc_unvote"].h = "mdp" /\ Calls["rc_unvote"].clks = Clks /\ Calls["rc_unvote"].on = FALSE
    /\ Calls["rc_unvote"].ok = "rc_unvoted" /\ Calls["rc_unvote"].fail = "rc_unvoted"
    /\ Calls["bl_on"].h = "dsi" /\ Calls["bl_on"].clks = {"core"} /\ Calls["bl_on"].on = TRUE
    /\ Calls["bl_on"].ok = "bl" /\ Calls["bl_on"].fail = "bl_exit"
    /\ Calls["tx_on"].h = "dsi" /\ Calls["tx_on"].clks = Clks /\ Calls["tx_on"].on = TRUE
    /\ Calls["tx_on"].ok = "tx" /\ Calls["tx_on"].fail = "bl_off"
    /\ Calls["tx_off"].h = "dsi" /\ Calls["tx_off"].clks = Clks /\ Calls["tx_off"].on = FALSE
    /\ Calls["tx_off"].ok = "bl_off" /\ Calls["tx_off"].fail = "bl_off"
    /\ Calls["bl_off"].h = "dsi" /\ Calls["bl_off"].clks = {"core"} /\ Calls["bl_off"].on = FALSE
    /\ Calls["bl_off"].ok = "bl_exit" /\ Calls["bl_off"].fail = "bl_exit"
    /\ Calls["esd_on"].h = "dsi" /\ Calls["esd_on"].clks = Clks /\ Calls["esd_on"].on = TRUE
    /\ Calls["esd_on"].ok = "esd_read" /\ Calls["esd_on"].fail = "esd_read"
    /\ Calls["esd_off"].h = "dsi" /\ Calls["esd_off"].clks = Clks /\ Calls["esd_off"].on = FALSE
    /\ Calls["esd_off"].ok = "esd_good" /\ Calls["esd_off"].fail = "esd_good"
    /\ Calls["esd_off_bad"].h = "dsi" /\ Calls["esd_off_bad"].clks = Clks /\ Calls["esd_off_bad"].on = FALSE
    /\ Calls["esd_off_bad"].ok = "esd_bad" /\ Calls["esd_off_bad"].fail = "esd_bad"
    /\ Calls["misr_on"].h = "dsi" /\ Calls["misr_on"].clks = {"core"} /\ Calls["misr_on"].on = TRUE
    /\ Calls["misr_on"].ok = "misr" /\ Calls["misr_on"].fail = "misr_exit"
    /\ Calls["misr_off"].h = "dsi" /\ Calls["misr_off"].clks = {"core"} /\ Calls["misr_off"].on = FALSE
    /\ Calls["misr_off"].ok = "misr_exit" /\ Calls["misr_off"].fail = "misr_exit"
  BY DEF Calls, Call

\* What a call asks for.
LEMMA CallTypes ==
    ASSUME NEW l \in DOMAIN Calls
    PROVE  /\ Calls[l].h \in Handles
           /\ Calls[l].clks \in {Clks, {"core"}, {"link"}}
           /\ l # "force" /\ l \in Labels
           /\ Calls[l].ok \in Labels /\ Calls[l].fail \in Labels
           /\ Calls[l].ok # "force" /\ Calls[l].fail # "force"
PROOF
  <1>1. Calls[l].h \in Handles
    BY CallsTable DEF Handles
  <1>3. Calls[l].clks \in {Clks, {"core"}, {"link"}}
    BY CallsTable
  <1>4. l # "force" /\ l \in Labels
    BY CallsTable DEF Labels
  <1>5. Calls[l].ok \in Labels /\ Calls[l].ok # "force"
    BY CallsTable DEF Labels
  <1>6. Calls[l].fail \in Labels /\ Calls[l].fail # "force"
    BY CallsTable DEF Labels
  <1>. QED
    BY <1>1, <1>3, <1>4, <1>5, <1>6

\* A call leaves its thread among its own labels, and inside its commit or its
\* critical section.
LEMMA CallEnds ==
    ASSUME NEW l \in DOMAIN Calls, NEW e \in {Calls[l].ok, Calls[l].fail}
    PROVE  /\ l \in DispLabels => e \in DispLabels /\ e \notin {"off", "on"}
           /\ l \in RcLabels => e \in RcLabels /\ e # "idle"
           /\ l \in PanelLabels => e \in PanelLabels /\ e # "idle"
           /\ l \in DbgLabels => e \in DbgLabels
           /\ e \in {"enc_vote", "enc_voted", "enc_refused"} <=> l = "enc_vote"
           /\ e \in {"enc_unvote", "enc_unvoted"} <=> l = "enc_unvote"
           /\ e \in {"rc_vote", "rc_voted", "rc_refused"} <=> l = "rc_vote"
           /\ e \in {"rc_unvote", "rc_unvoted"} <=> l = "rc_unvote"
           /\ e \in {"splash_off", "splash_done"} <=> l = "splash_off"
  BY CallsTable
     DEF DispLabels, DispFailed, RcLabels, PanelLabels, DbgLabels

\* A list of three, made of two.
LEMMA Joins ==
    ASSUME NEW S, NEW p \in Seq(S), NEW q \in Seq(S), NEW x \in Seq(S),
           Len(x) = Len(p) + Len(q),
           \A i \in 1 .. Len(p) + Len(q) :
               x[i] = IF i <= Len(p) THEN p[i] ELSE q[i - Len(p)]
    PROVE  p \o q = x
PROOF
  <1>. DEFINE s == p \o q
  <1>1. /\ s \in Seq(S) /\ Len(s) = Len(p) + Len(q)
        /\ \A i \in 1 .. Len(p) + Len(q) :
               s[i] = IF i <= Len(p) THEN p[i] ELSE q[i - Len(p)]
    BY ConcatProperties, Zenon
  <1>. HIDE DEF s
  <1>2. Len(s) = Len(x) /\ \A i \in 1 .. Len(s) : s[i] = x[i]
    BY <1>1
  <1>3. s = x
    BY <1>1, <1>2, SeqEqual, Zenon
  <1>. QED
    BY <1>3 DEF s

\* One switch and two make three.
LEMMA Joined ==
    ASSUME NEW a \in Switch, NEW b \in Switch, NEW c \in Switch
    PROVE  /\ <<a>> \o <<b, c>> = <<a, b, c>>
           /\ <<b, c>> \o <<a>> = <<b, c, a>>
PROOF
  <1>. DEFINE p == <<a>>
              q == <<b, c>>
              x == <<a, b, c>>
              y == <<b, c, a>>
  <1>1. p \in Seq(Switch) /\ Len(p) = 1 /\ p[1] = a
    OBVIOUS
  <1>2. q \in Seq(Switch) /\ Len(q) = 2 /\ q[1] = b /\ q[2] = c
    OBVIOUS
  <1>3. x \in Seq(Switch) /\ Len(x) = 3 /\ x[1] = a /\ x[2] = b /\ x[3] = c
    OBVIOUS
  <1>4. y \in Seq(Switch) /\ Len(y) = 3 /\ y[1] = b /\ y[2] = c /\ y[3] = a
    OBVIOUS
  <1>. HIDE DEF p, q, x, y
  <1>5. Len(x) = Len(p) + Len(q) /\ Len(y) = Len(q) + Len(p)
    BY <1>1, <1>2, <1>3, <1>4
  <1>6. \A i \in 1 .. Len(p) + Len(q) :
            x[i] = IF i <= Len(p) THEN p[i] ELSE q[i - Len(p)]
    BY <1>1, <1>2, <1>3
  <1>7. \A i \in 1 .. Len(q) + Len(p) :
            y[i] = IF i <= Len(q) THEN q[i] ELSE p[i - Len(q)]
    BY <1>1, <1>2, <1>4
  <1>8. p \o q = x
    BY <1>1, <1>2, <1>3, <1>5, <1>6, Joins, Zenon
  <1>9. q \o p = y
    BY <1>1, <1>2, <1>4, <1>5, <1>7, Joins, Zenon
  <1>. QED
    BY <1>8, <1>9 DEF p, q, x, y

\* Empty parts of a list leave no trace.
LEMMA Concats ==
    ASSUME NEW p \in Seq(Switch), NEW q \in Seq(Switch)
    PROVE  LET e == <<>>
           IN  /\ ((p \o q) \o e) \o e = p \o q /\ ((p \o e) \o q) \o e = p \o q
               /\ ((p \o e) \o e) \o e = p /\ ((e \o q) \o e) \o p = q \o p
               /\ ((e \o e) \o q) \o p = q \o p /\ ((e \o e) \o e) \o p = p
               /\ ((e \o q) \o e) \o e = q /\ ((e \o e) \o q) \o e = q
               /\ ((e \o e) \o e) \o e = e
PROOF
  <1>1. <<>> \in Seq(Switch)
    OBVIOUS
  <1>2. \A r \in Seq(Switch) : r \o <<>> = r /\ <<>> \o r = r
    BY ConcatEmptySeq, Zenon
  <1>3. p \o q \in Seq(Switch) /\ q \o p \in Seq(Switch)
    BY ConcatProperties, Zenon
  <1>. QED
    BY <1>1, <1>2, <1>3, Zenon

\* What dsi_recheck_clk_state asks for is what is wanted and not yet so.
LEMMA SwitchesKinds ==
    ASSUME NEW hs, NEW s, s = Switches(hs), NEW wc, NEW wl,
           wc \in BOOLEAN, wl \in BOOLEAN, mngr \in [Clks -> BOOLEAN],
           wc <=> \E h \in Handles : hs[h]["core"].on,
           wl <=> \E h \in Handles : hs[h]["link"].on
    PROVE  /\ s \in Todos /\ ~Forcing(s) /\ ~LpIsOn(s) /\ ~HsIsOff(s) /\ ~ForcedOff(s)
           /\ CoreGoesOn(s) <=> wc /\ ~mngr["core"]
           /\ CoreGoesOff(s) <=> ~wc /\ mngr["core"]
           /\ LinkGoesOn(s) <=> wl /\ ~mngr["link"]
           /\ LinkGoesOff(s) <=> ~wl /\ mngr["link"]
PROOF
  <1>. DEFINE When(b, q) == IF b THEN q ELSE <<>>
             A == When(wc /\ ~mngr["core"], <<"core_on">>)
             B == When(wl /\ ~mngr["link"], <<"lp_on", "hs_on">>)
             C == When(~wl /\ mngr["link"], <<"hs_off", "lp_off">>)
             D == When(~wc /\ mngr["core"], <<"core_off">>)
             want == [k \in Clks |-> \E h \in Handles : hs[h][k].on]
  <1>1. want["core"] = wc /\ want["link"] = wl
    BY DEF Clks
  <1>2. s = ((A \o B) \o C) \o D
    BY <1>1 DEF Switches
  <1>. DEFINE c1 == <<"core_on">>
              c2 == <<"lp_on", "hs_on">>
              c3 == <<"hs_off", "lp_off">>
              c4 == <<"core_off">>
  <1>a. /\ c1 \in Seq(Switch) /\ c2 \in Seq(Switch) /\ c3 \in Seq(Switch)
        /\ c4 \in Seq(Switch)
    BY DEF Switch
  <1>s. /\ "core_on" \in Switch /\ "lp_on" \in Switch /\ "hs_on" \in Switch
        /\ "hs_off" \in Switch /\ "lp_off" \in Switch /\ "core_off" \in Switch
    BY DEF Switch
  <1>b. c1 \o c2 = On3 /\ c2 \o c4 = OnOff2
    BY <1>s, Joined DEF On3, OnOff2
  <1>c. c1 \o c3 = OnOff3 /\ c3 \o c4 = Off3
    BY <1>s, Joined DEF OnOff3, Off3
  <1>d. c1 = On1 /\ c2 = LinkOn2 /\ c3 = LinkOff2 /\ c4 = Off1
    BY DEF On1, LinkOn2, LinkOff2, Off1
  <1>e. /\ A = IF wc /\ ~mngr["core"] THEN c1 ELSE <<>>
        /\ B = IF wl /\ ~mngr["link"] THEN c2 ELSE <<>>
        /\ C = IF ~wl /\ mngr["link"] THEN c3 ELSE <<>>
        /\ D = IF ~wc /\ mngr["core"] THEN c4 ELSE <<>>
    OBVIOUS
  <1>. HIDE DEF A, B, C, D, c1, c2, c3, c4
  <1>3. CASE wc /\ ~mngr["core"] /\ wl /\ ~mngr["link"]
    <2>0. A = c1 /\ B = c2 /\ C = <<>> /\ D = <<>>
      BY <1>e, <1>3
    <2>1. s = ((c1 \o c2) \o <<>>) \o <<>>
      BY <1>2, <2>0, Zenon
    <2>2. ((c1 \o c2) \o <<>>) \o <<>> = c1 \o c2
      BY <1>a, Concats, Zenon
    <2>3. s = On3
      BY <2>1, <2>2, <1>b, <1>c, <1>d, Zenon
    <2>. QED
      BY <2>3, <1>3, TodoKinds DEF Todos
  <1>4. CASE wc /\ ~mngr["core"] /\ ~wl /\ mngr["link"]
    <2>0. A = c1 /\ B = <<>> /\ C = c3 /\ D = <<>>
      BY <1>e, <1>4
    <2>1. s = ((c1 \o <<>>) \o c3) \o <<>>
      BY <1>2, <2>0, Zenon
    <2>2. ((c1 \o <<>>) \o c3) \o <<>> = c1 \o c3
      BY <1>a, Concats, Zenon
    <2>3. s = OnOff3
      BY <2>1, <2>2, <1>b, <1>c, <1>d, Zenon
    <2>. QED
      BY <2>3, <1>4, TodoKinds DEF Todos
  <1>5. CASE wc /\ ~mngr["core"] /\ (wl <=> mngr["link"])
    <2>0. A = c1 /\ B = <<>> /\ C = <<>> /\ D = <<>>
      BY <1>e, <1>5
    <2>1. s = ((c1 \o <<>>) \o <<>>) \o <<>>
      BY <1>2, <2>0, Zenon
    <2>2. ((c1 \o <<>>) \o <<>>) \o <<>> = c1
      BY <1>a, Concats, Zenon
    <2>3. s = On1
      BY <2>1, <2>2, <1>b, <1>c, <1>d, Zenon
    <2>. QED
      BY <2>3, <1>5, TodoKinds DEF Todos
  <1>6. CASE ~wc /\ mngr["core"] /\ wl /\ ~mngr["link"]
    <2>0. A = <<>> /\ B = c2 /\ C = <<>> /\ D = c4
      BY <1>e, <1>6
    <2>1. s = ((<<>> \o c2) \o <<>>) \o c4
      BY <1>2, <2>0, Zenon
    <2>2. ((<<>> \o c2) \o <<>>) \o c4 = c2 \o c4
      BY <1>a, Concats, Zenon
    <2>3. s = OnOff2
      BY <2>1, <2>2, <1>b, <1>c, <1>d, Zenon
    <2>. QED
      BY <2>3, <1>6, TodoKinds DEF Todos
  <1>7. CASE ~wc /\ mngr["core"] /\ ~wl /\ mngr["link"]
    <2>0. A = <<>> /\ B = <<>> /\ C = c3 /\ D = c4
      BY <1>e, <1>7
    <2>1. s = ((<<>> \o <<>>) \o c3) \o c4
      BY <1>2, <2>0, Zenon
    <2>2. ((<<>> \o <<>>) \o c3) \o c4 = c3 \o c4
      BY <1>a, Concats, Zenon
    <2>3. s = Off3
      BY <2>1, <2>2, <1>b, <1>c, <1>d, Zenon
    <2>. QED
      BY <2>3, <1>7, TodoKinds DEF Todos
  <1>8. CASE ~wc /\ mngr["core"] /\ (wl <=> mngr["link"])
    <2>0. A = <<>> /\ B = <<>> /\ C = <<>> /\ D = c4
      BY <1>e, <1>8
    <2>1. s = ((<<>> \o <<>>) \o <<>>) \o c4
      BY <1>2, <2>0, Zenon
    <2>2. ((<<>> \o <<>>) \o <<>>) \o c4 = c4
      BY <1>a, Concats, Zenon
    <2>3. s = Off1
      BY <2>1, <2>2, <1>b, <1>c, <1>d, Zenon
    <2>. QED
      BY <2>3, <1>8, TodoKinds DEF Todos
  <1>9. CASE (wc <=> mngr["core"]) /\ wl /\ ~mngr["link"]
    <2>0. A = <<>> /\ B = c2 /\ C = <<>> /\ D = <<>>
      BY <1>e, <1>9
    <2>1. s = ((<<>> \o c2) \o <<>>) \o <<>>
      BY <1>2, <2>0, Zenon
    <2>2. ((<<>> \o c2) \o <<>>) \o <<>> = c2
      BY <1>a, Concats, Zenon
    <2>3. s = LinkOn2
      BY <2>1, <2>2, <1>b, <1>c, <1>d, Zenon
    <2>. QED
      BY <2>3, <1>9, TodoKinds DEF Todos
  <1>10. CASE (wc <=> mngr["core"]) /\ ~wl /\ mngr["link"]
    <2>0. A = <<>> /\ B = <<>> /\ C = c3 /\ D = <<>>
      BY <1>e, <1>10
    <2>1. s = ((<<>> \o <<>>) \o c3) \o <<>>
      BY <1>2, <2>0, Zenon
    <2>2. ((<<>> \o <<>>) \o c3) \o <<>> = c3
      BY <1>a, Concats, Zenon
    <2>3. s = LinkOff2
      BY <2>1, <2>2, <1>b, <1>c, <1>d, Zenon
    <2>. QED
      BY <2>3, <1>10, TodoKinds DEF Todos
  <1>11. CASE (wc <=> mngr["core"]) /\ (wl <=> mngr["link"])
    <2>0. A = <<>> /\ B = <<>> /\ C = <<>> /\ D = <<>>
      BY <1>e, <1>11
    <2>1. s = ((<<>> \o <<>>) \o <<>>) \o <<>>
      BY <1>2, <2>0, Zenon
    <2>2. ((<<>> \o <<>>) \o <<>>) \o <<>> = <<>>
      BY <1>a, Concats, Zenon
    <2>3. s = <<>>
      BY <2>1, <2>2, <1>b, <1>c, <1>d, Zenon
    <2>. QED
      BY <2>3, <1>11, NoTodo
  <1>. QED
    BY <1>3, <1>4, <1>5, <1>6, <1>7, <1>8, <1>9, <1>10, <1>11 DEF Clks

\* The refcount of a client, and that it is on exactly while it has votes.
LEMMA VoteCounts ==
    ASSUME NEW v \in [ref : Nat, on : BOOLEAN], v.on <=> v.ref > 0, NEW on
    PROVE  /\ Vote(v, on) \in [ref : Nat, on : BOOLEAN]
           /\ Vote(v, on).on <=> Vote(v, on).ref > 0
           /\ on => Vote(v, on).ref = v.ref + 1
           /\ ~on => Vote(v, on).ref = IF v.ref = 0 THEN 0 ELSE v.ref - 1
  BY DEF Vote

\* The refcounts after a vote, and after one is returned.
LEMMA VotedUp ==
    ASSUME NEW p \in PowerHandles(PowerClients), NEW c \in PowerClients
    PROVE  LET r == Voted(p, c, TRUE)
           IN  /\ r \in [PowerClients -> Nat] /\ r[c] = p.ref[c] + 1 /\ r[c] > 0
               /\ \A d \in PowerClients : d # c => r[d] = p.ref[d]
  BY DEF Voted, PowerHandles

LEMMA VotedDown ==
    ASSUME NEW p \in PowerHandles(PowerClients), NEW c \in PowerClients
    PROVE  LET r == Voted(p, c, FALSE)
           IN  /\ r \in [PowerClients -> Nat]
               /\ r[c] = IF p.ref[c] = 0 THEN 0 ELSE p.ref[c] - 1
               /\ \A d \in PowerClients : d # c => r[d] = p.ref[d]
  BY DEF Voted, PowerHandles

\* Some client has a vote.
LEMMA AnyVoteMeans ==
    ASSUME NEW p \in PowerHandles(PowerClients), NEW r
    PROVE  AnyVote(p, r) <=> r["core"] > 0 \/ r["dsi"] > 0 \/ r["splash"] > 0
  BY DEF AnyVote, PowerHandles, PowerClients

\* The fields of a power handle.
LEMMA HandleShape ==
    ASSUME NEW C, NEW r \in [C -> Nat], NEW s \in BOOLEAN, NEW t \in BOOLEAN
    PROVE  LET q == [ref |-> r, cur |-> s, res |-> t]
           IN  q \in PowerHandles(C) /\ q.ref = r /\ q.cur = s /\ q.res = t
  BY DEF PowerHandles

\* A granted vote raises the refcount and the handle is on.
LEMMA PowerOn ==
    ASSUME NEW p \in PowerHandles(PowerClients), p.cur <=> p.res,
           NEW c \in PowerClients
    PROVE  LET q == sde_power_resource_enable(p, c, TRUE)
           IN  /\ q \in PowerHandles(PowerClients) /\ q.cur /\ q.res
               /\ q.ref[c] = p.ref[c] + 1
               /\ \A d \in PowerClients : d # c => q.ref[d] = p.ref[d]
PROOF
  <1>. DEFINE r == Voted(p, c, TRUE)
              b == AnyVote(p, r)
              q == sde_power_resource_enable(p, c, TRUE)
  <1>1. /\ r \in [PowerClients -> Nat] /\ r[c] = p.ref[c] + 1 /\ r[c] > 0
        /\ \A d \in PowerClients : d # c => r[d] = p.ref[d]
    BY VotedUp
  <1>2. /\ p.ref \in [PowerClients -> Nat] /\ p.cur \in BOOLEAN /\ p.res \in BOOLEAN
        /\ p = [ref |-> p.ref, cur |-> p.cur, res |-> p.res]
    BY DEF PowerHandles
  <1>3. b \in BOOLEAN /\ b
    BY <1>1, AnyVoteMeans DEF PowerClients, AnyVote
  <1>4. CASE p.cur
    <2>1. ~_resource_changed(p, c, TRUE)
      BY <1>2, <1>3, <1>4 DEF _resource_changed
    <2>2. q = [p EXCEPT !.ref = r]
      BY <2>1 DEF sde_power_resource_enable
    <2>. HIDE DEF r, q
    <2>3. q.ref = r /\ q.cur /\ q.res /\ q \in PowerHandles(PowerClients)
      BY <1>1, <1>2, <1>4, <2>2 DEF PowerHandles
    <2>. QED
      BY <1>1, <2>3 DEF q
  <1>5. CASE ~p.cur
    <2>1. _resource_changed(p, c, TRUE)
      BY <1>2, <1>3, <1>5 DEF _resource_changed
    <2>a. PICK t \in BOOLEAN : t = TRUE
      OBVIOUS
    <2>b. q = [ref |-> r, cur |-> b, res |-> TRUE]
      BY <2>1 DEF sde_power_resource_enable
    <2>. HIDE DEF r, b, q
    <2>c. b = TRUE
      BY <1>3
    <2>2. q = [ref |-> r, cur |-> t, res |-> t]
      BY <2>a, <2>b, <2>c, Zenon
    <2>3. q.ref = r /\ q.cur = t /\ q.res = t /\ q \in PowerHandles(PowerClients)
      BY <1>1, <2>a, <2>2, HandleShape
    <2>. QED
      BY <1>1, <2>a, <2>3 DEF q
  <1>. QED
    BY <1>4, <1>5

\* A vote returned while the handle is on, or with no vote left, leaves the handle
\* on exactly as it believes, and on while there is a vote.
LEMMA PowerOff ==
    ASSUME NEW p \in PowerHandles(PowerClients), p.cur <=> p.res,
           p.cur \/ \A d \in PowerClients : p.ref[d] = 0,
           NEW c \in PowerClients
    PROVE  LET q == sde_power_resource_enable(p, c, FALSE)
           IN  /\ q \in PowerHandles(PowerClients) /\ (q.cur <=> q.res)
               /\ q.ref[c] = IF p.ref[c] = 0 THEN 0 ELSE p.ref[c] - 1
               /\ \A d \in PowerClients : d # c => q.ref[d] = p.ref[d]
               /\ \A d \in PowerClients : q.ref[d] > 0 => q.cur
               /\ q.cur \/ \A d \in PowerClients : q.ref[d] = 0
PROOF
  <1>. DEFINE r == Voted(p, c, FALSE)
              b == AnyVote(p, r)
              q == sde_power_resource_enable(p, c, FALSE)
  <1>1. /\ r \in [PowerClients -> Nat]
        /\ r[c] = IF p.ref[c] = 0 THEN 0 ELSE p.ref[c] - 1
        /\ \A d \in PowerClients : d # c => r[d] = p.ref[d]
    BY VotedDown
  <1>2. /\ p.ref \in [PowerClients -> Nat] /\ p.cur \in BOOLEAN /\ p.res \in BOOLEAN
        /\ p = [ref |-> p.ref, cur |-> p.cur, res |-> p.res]
    BY DEF PowerHandles
  <1>3. /\ b \in BOOLEAN
        /\ b <=> r["core"] > 0 \/ r["dsi"] > 0 \/ r["splash"] > 0
    BY AnyVoteMeans DEF AnyVote
  <1>4. _resource_changed(p, c, FALSE) <=> ~(b <=> p.cur)
    BY <1>2, <1>3 DEF _resource_changed
  <1>5. /\ \A d \in PowerClients : r[d] > 0 => b
        /\ b \/ \A d \in PowerClients : r[d] = 0
    <2>. HIDE DEF r, b, q
    <2>. QED
      BY <1>1, <1>3 DEF PowerClients
  <1>6. ~p.cur => ~b
    <2>. HIDE DEF r, b, q
    <2>. QED
      BY <1>1, <1>2, <1>3 DEF PowerClients
  <1>7. CASE p.cur /\ ~b
    <2>a. PICK t \in BOOLEAN : t = FALSE
      OBVIOUS
    <2>b. q = [ref |-> r, cur |-> b, res |-> FALSE]
      BY <1>4, <1>7 DEF sde_power_resource_enable
    <2>. HIDE DEF r, b, q
    <2>c. b = FALSE
      BY <1>3, <1>7
    <2>1. q = [ref |-> r, cur |-> t, res |-> t]
      BY <2>a, <2>b, <2>c, Zenon
    <2>2. q.ref = r /\ q.cur = t /\ q.res = t /\ q \in PowerHandles(PowerClients)
      BY <1>1, <2>a, <2>1, HandleShape
    <2>. QED
      BY <1>1, <1>5, <1>7, <2>a, <2>2 DEF q
  <1>8. CASE p.cur <=> b
    <2>1. q = [p EXCEPT !.ref = r]
      BY <1>4, <1>8 DEF sde_power_resource_enable
    <2>. HIDE DEF r, b, q
    <2>2. /\ q.ref = r /\ (q.cur <=> p.cur) /\ (q.res <=> p.res)
          /\ q \in PowerHandles(PowerClients)
      BY <1>1, <1>2, <2>1 DEF PowerHandles
    <2>. QED
      BY <1>1, <1>5, <1>8, <2>2 DEF q
  <1>. QED
    BY <1>6, <1>7, <1>8

\* Only with the handle off does a vote switch anything on, and fail in it.
LEMMA PowerSwitches ==
    ASSUME NEW p \in PowerHandles(PowerClients), NEW c \in PowerClients
    PROVE  _resource_changed(p, c, TRUE) <=> ~p.cur
PROOF
  <1>. DEFINE r == Voted(p, c, TRUE)
              b == AnyVote(p, r)
  <1>1. r[c] > 0
    BY VotedUp
  <1>2. p.cur \in BOOLEAN
    BY DEF PowerHandles
  <1>3. b \in BOOLEAN /\ b
    BY <1>1, AnyVoteMeans DEF PowerClients, AnyVote
  <1>. QED
    BY <1>2, <1>3 DEF _resource_changed

\* A refused vote leaves the handle off and raises the refcount.
LEMMA PowerRefused ==
    ASSUME NEW p \in PowerHandles(PowerClients), NEW c \in PowerClients, ~p.cur,
           NEW q, q = sde_power_resource_enable_fails(p, c)
    PROVE  /\ q \in PowerHandles(PowerClients) /\ ~q.cur /\ ~q.res
           /\ q.ref[c] = p.ref[c] + 1
           /\ \A d \in PowerClients : d # c => q.ref[d] = p.ref[d]
PROOF
  <1>. DEFINE r == Voted(p, c, TRUE)
  <1>1. /\ r \in [PowerClients -> Nat] /\ r[c] = p.ref[c] + 1
        /\ \A d \in PowerClients : d # c => r[d] = p.ref[d]
    BY VotedUp
  <1>2. p.ref \in [PowerClients -> Nat] /\ p.cur \in BOOLEAN
    BY DEF PowerHandles
  <1>. HIDE DEF r
  <1>3. PICK t \in BOOLEAN : t = FALSE
    OBVIOUS
  <1>4. q = [ref |-> r, cur |-> p.cur, res |-> t]
    BY <1>3 DEF sde_power_resource_enable_fails, r
  <1>5. q.ref = r /\ ~q.cur /\ ~q.res /\ q \in PowerHandles(PowerClients)
    BY <1>1, <1>2, <1>3, <1>4, HandleShape
  <1>. QED
    BY <1>1, <1>5

IoType == [vreg : BOOLEAN, clamp : BOOLEAN, ulps : BOOLEAN, lanes : BOOLEAN,
           phyoff : BOOLEAN]

\* What the callbacks do to the lanes.
LEMMA SetUlps ==
    ASSUME NEW x \in IoType, NEW e \in BOOLEAN, NEW y, y = dsi_display_set_ulps(x, e)
    PROVE  /\ y \in IoType /\ y.vreg = x.vreg /\ y.clamp = x.clamp
           /\ y.phyoff = x.phyoff
           /\ dsi_display_is_ulps_req_valid(x, e) => y.ulps = e /\ y.lanes = e
           /\ ~dsi_display_is_ulps_req_valid(x, e) => y = x
  BY DEF dsi_display_set_ulps, IoType
-----------------------------------------------------------------------------
(* The invariant that no failure breaks.                                   *)

PanelType == [init : BOOLEAN, esd : BOOLEAN, splash : BOOLEAN, rate : BOOLEAN,
              kms : BOOLEAN]
LockType == [{"display", "panel", "rc"} -> Threads \cup {Free}]

\* The types, one by one.
LEMMA Types ==
    ASSUME TypeOK
    PROVE  /\ pc \in [Threads -> Labels] /\ lock \in LockType
           /\ handle \in [Handles -> [Clks -> [ref : Nat, on : BOOLEAN]]]
           /\ mngr \in [Clks -> BOOLEAN] /\ clk \in [core : Nat, lp : Nat, hs : Nat]
           /\ ph \in PowerHandles(PowerClients) /\ io \in IoType
           /\ panel \in PanelType /\ enc \in BOOLEAN
           /\ faults \in 0 .. MaxFaults /\ faults \in Nat /\ MaxFaults \in Nat
  BY DsiClkConstants DEF TypeOK, LockType, IoType, PanelType

\* A step that leaves the clock manager alone keeps the types.
LEMMA StepType ==
    ASSUME TypeOK, UNCHANGED <<cfg, handle, mngr, upd, clk>>,
           pc' \in [Threads -> Labels], lock' \in LockType, io' \in IoType,
           ph' \in PowerHandles(PowerClients), panel' \in PanelType,
           enc' \in BOOLEAN, faults' \in 0 .. MaxFaults
    PROVE  TypeOK'
  BY DEF TypeOK, LockType, PanelType, IoType

\* A step that leaves the clock manager alone, by threads that wait for no
\* request, keeps what is known of it.
LEMMA VotesKept ==
    ASSUME Base, UNCHANGED <<handle, mngr, upd, clk>>, pc' \in [Threads -> Labels],
           \A u \in Threads : pc[u] \in DOMAIN Calls \/ pc[u] = "force"
                                  => pc'[u] = pc[u],
           pc'["disp"] = "force" => pc["disp"] = "force",
           panel.rate => panel'.rate, faults' \in 0 .. MaxFaults, faults' >= faults
    PROVE  UpdOK' /\ MngrOK' /\ ClkOK' /\ RefOn'
PROOF
  <1>1. UpdOK'
    BY DEF Base, UpdOK, Threads
  <1>2. MngrOK'
    BY DEF Base, MngrOK
  <1>3. ClkOK'
    BY Types DEF Base, ClkOK
  <1>4. RefOn'
    BY DEF Base, RefOn
  <1>. QED
    BY <1>1, <1>2, <1>3, <1>4

\* The labels of the threads are labels.
LEMMA ThreadLabels ==
    DispLabels \subseteq Labels /\ RcLabels \subseteq Labels
    /\ PanelLabels \subseteq Labels /\ DbgLabels \subseteq Labels
  BY CallsTable DEF DispLabels, DispFailed, RcLabels, PanelLabels, DbgLabels, Labels

\* Where a thread goes.
LEMMA GotoPc ==
    ASSUME pc \in [Threads -> Labels], NEW t \in Threads, NEW l \in Labels, Goto(t, l)
    PROVE  /\ pc' \in [Threads -> Labels] /\ pc'[t] = l
           /\ \A u \in Threads : u # t => pc'[u] = pc[u]
  BY DEF Goto

\* A failure is counted.
LEMMA FaultCount ==
    ASSUME TypeOK
    PROVE  /\ Works => faults' = faults /\ faults' \in 0 .. MaxFaults
           /\ \A s : Fails(s) => faults' = faults + 1 /\ faults' \in 0 .. MaxFaults
  BY Types DEF Works, Fails

\* Locks.
LEMMA TakeLock ==
    ASSUME lock \in LockType, NEW t \in Threads, NEW l \in {"display", "panel", "rc"},
           Take(t, l)
    PROVE  /\ lock' \in LockType /\ lock[l] = Free /\ lock'[l] = t
           /\ \A m \in {"display", "panel", "rc"} : m # l => lock'[m] = lock[m]
  BY DEF Take, LockType

LEMMA DropLock ==
    ASSUME lock \in LockType, NEW l \in {"display", "panel", "rc"}, Drop(l)
    PROVE  /\ lock' \in LockType /\ lock'[l] = Free
           /\ \A m \in {"display", "panel", "rc"} : m # l => lock'[m] = lock[m]
  BY DEF Drop, LockType

EncLabels == {"enc_vote", "enc_voted", "enc_refused", "enc_unvote", "enc_unvoted"}

\* A step that leaves the clock manager alone.
LEMMA StepBase ==
    ASSUME Base, UNCHANGED <<cfg, handle, mngr, upd, clk>>,
           NEW t \in Threads, NEW l, Goto(t, l),
           pc[t] \notin DOMAIN Calls, pc[t] # "force", l # "force",
           t = "disp" => l \in DispLabels, t = "rc" => l \in RcLabels,
           t = "panel" => l \in PanelLabels, t = "dbg" => l \in DbgLabels,
           lock' \in LockType, io' \in IoType, ph' \in PowerHandles(PowerClients),
           panel' \in PanelType, panel.rate => panel'.rate, enc' \in BOOLEAN,
           faults' \in 0 .. MaxFaults, faults' >= faults,
           EncOK', PowOK'
    PROVE  Base'
PROOF
  <1>1. l \in Labels
    BY ThreadLabels DEF Threads
  <1>2. /\ pc' \in [Threads -> Labels] /\ pc'[t] = l
        /\ \A u \in Threads : u # t => pc'[u] = pc[u]
    BY <1>1, Types, GotoPc DEF Base
  <1>3. TypeOK'
    BY <1>2, StepType DEF Base
  <1>4. LabelsOK'
    BY <1>2 DEF Base, LabelsOK, Threads
  <1>5. UpdOK' /\ MngrOK' /\ ClkOK' /\ RefOn'
    <2>1. \A u \in Threads : pc[u] \in DOMAIN Calls \/ pc[u] = "force" => pc'[u] = pc[u]
      BY <1>2
    <2>2. pc'["disp"] = "force" => pc["disp"] = "force"
      BY <1>2 DEF Threads
    <2>. QED
      BY <1>2, <2>1, <2>2, VotesKept
  <1>. QED
    BY <1>3, <1>4, <1>5 DEF Base

\* A step of the display, panel or debugfs thread that has no part in the votes
\* of power and of the encoder.
LEMMA QuietStep ==
    ASSUME Base, UNCHANGED <<cfg, handle, mngr, upd, clk, ph, enc>>,
           NEW t \in Threads \ {"rc"}, NEW l, Goto(t, l),
           pc[t] \notin DOMAIN Calls, pc[t] # "force", l # "force",
           t = "disp" => /\ l \in DispLabels \ (EncLabels \cup {"off", "on"})
                         /\ pc["disp"] \notin EncLabels \cup {"off", "on"}
                         /\ l \in {"splash_off", "splash_done"} => panel.splash,
           t = "panel" => l \in PanelLabels, t = "dbg" => l \in DbgLabels,
           lock' \in LockType, lock'["rc"] = lock["rc"], io' \in IoType,
           panel' \in PanelType, panel.rate => panel'.rate,
           panel'.kms = panel.kms, panel'.splash = panel.splash,
           faults' \in 0 .. MaxFaults, faults' >= faults
    PROVE  Base'
PROOF
  <1>1. l \in Labels
    BY ThreadLabels DEF Threads
  <1>2. /\ pc' \in [Threads -> Labels] /\ pc'[t] = l
        /\ \A u \in Threads : u # t => pc'[u] = pc[u]
    BY <1>1, Types, GotoPc DEF Base
  <1>3. EncOK'
    BY <1>2 DEF Base, EncOK, Threads, EncLabels
  <1>4. PowOK'
    <2>1. (EncPower' <=> EncPower) /\ (Commit' <=> Commit)
      BY <1>2 DEF EncPower, Commit, Threads, EncLabels
    <2>2. pc'["disp"] \in {"splash_off", "splash_done"} => panel'.splash
      BY <1>2 DEF Base, PowOK, Threads
    <2>. QED
      BY <2>1, <2>2 DEF Base, PowOK, b2n
  <1>5. ph' \in PowerHandles(PowerClients) /\ enc' \in BOOLEAN
    BY Types DEF Base
  <1>. QED
    BY <1>3, <1>4, <1>5, StepBase DEF Threads

\* The display thread, the panel user and debugfs.
LEMMA QuietDisp ==
    ASSUME Base, UNCHANGED <<cfg, handle, mngr, upd, clk, ph, enc>>,
           NEW l, Goto("disp", l), pc["disp"] \notin DOMAIN Calls,
           pc["disp"] \notin EncLabels \cup {"off", "on", "force"},
           l \in DispLabels, l \notin EncLabels \cup {"off", "on", "force"},
           l \in {"splash_off", "splash_done"} => panel.splash,
           lock' \in LockType, lock'["rc"] = lock["rc"], io' \in IoType,
           panel' \in PanelType, panel.rate => panel'.rate,
           panel'.kms = panel.kms, panel'.splash = panel.splash,
           faults' \in 0 .. MaxFaults, faults' >= faults
    PROVE  Base'
PROOF
  <1>1. "disp" \in Threads \ {"rc"} /\ "disp" # "panel" /\ "disp" # "dbg"
    BY DEF Threads
  <1>. QED
    BY <1>1, QuietStep

LEMMA QuietUser ==
    ASSUME Base, UNCHANGED <<cfg, handle, mngr, upd, clk, io, ph, enc>>,
           NEW t \in {"panel", "dbg"}, NEW l, Goto(t, l),
           pc[t] \notin DOMAIN Calls, t = "panel" => l \in PanelLabels,
           t = "dbg" => l \in DbgLabels,
           lock' \in LockType, lock'["rc"] = lock["rc"],
           panel' \in PanelType, panel.rate => panel'.rate,
           panel'.kms = panel.kms, panel'.splash = panel.splash,
           faults' \in 0 .. MaxFaults, faults' >= faults
    PROVE  Base'
PROOF
  <1>1. t \in Threads \ {"rc"} /\ t # "disp"
    BY DEF Threads
  <1>2. pc[t] # "force" /\ l # "force"
    BY DEF Base, LabelsOK, PanelLabels, DbgLabels
  <1>3. io' \in IoType
    BY Types DEF Base
  <1>. QED
    BY <1>1, <1>2, <1>3, QuietStep

-----------------------------------------------------------------------------
(* The invariant that holds until the first failure.                       *)

\* Votes are counted in numbers.
LEMMA HeldNat ==
    /\ \A l, k : Held(l, k) \in Nat /\ (LinkHeld(l) => Held(l, k) > 0)
    /\ \A l : Held(l, "link") <= Held(l, "core")
    /\ \A l : Held(l, "link") = b2n(LinkHeld(l))
    /\ \A l \in RcLabels : ~LinkHeld(l)
    /\ ~LinkHeld("idle") /\ \A k : Held("idle", k) = 0
PROOF
  <1>1. \A l : LinkHeld(l) => CoreHeld(l)
    BY DEF CoreHeld
  <1>2. \A l \in RcLabels : ~LinkHeld(l)
    BY DEF RcLabels, LinkHeld, VideoOn
  <1>3. ~CoreHeld("idle") /\ ~LinkHeld("idle")
    BY DEF CoreHeld, LinkHeld, VideoOn
  <1>. QED
    BY <1>1, <1>2, <1>3 DEF Held, b2n

\* A step of a thread that waits for no request moves its votes only.
LEMMA EffMoves ==
    ASSUME Base, UNCHANGED upd, NEW t \in Threads, NEW l, Goto(t, l),
           pc[t] \notin DOMAIN Calls, pc[t] # "force"
    PROVE  /\ Eff(t) = pc[t] /\ Eff(t)' = l /\ upd.by # t
           /\ \A u \in Threads : u # t => Eff(u)' = Eff(u)
PROOF
  <1>1. upd.by # t
    BY NoTodo DEF Base, UpdOK, NoUpdate, Free, Threads
  <1>2. pc \in [Threads -> Labels]
    BY Types DEF Base
  <1>3. pc'[t] = l /\ \A u \in Threads : u # t => pc'[u] = pc[u]
    BY <1>2 DEF Goto
  <1>. QED
    BY <1>1, <1>3 DEF Eff

\* Refcounts and clocks after a step that leaves the clock manager alone: the votes
\* its thread holds do not change.
LEMMA StepClean ==
    ASSUME Base, RefsExact, MngrExact, ClkExact,
           UNCHANGED <<cfg, handle, mngr, upd, clk>>,
           NEW t \in Threads, NEW l, Goto(t, l),
           pc[t] \notin DOMAIN Calls, pc[t] # "force",
           t = "rc" => l \in RcLabels /\ panel'.splash = panel.splash,
           t # "rc" => \A k \in Clks : b2n(panel'.splash) + Held(l, k)
                                       = b2n(panel.splash) + Held(pc[t], k),
           LinkHeld(l) => LinkHeld(pc[t]) \/ panel.splash,
           MdpHeld' <=> MdpHeld, panel'.splash => panel.splash
    PROVE  RefsExact' /\ MngrExact' /\ ClkExact'
PROOF
  <1>1. /\ Eff(t) = pc[t] /\ Eff(t)' = l /\ upd.by # t
        /\ \A u \in Threads : u # t => Eff(u)' = Eff(u)
    BY EffMoves
  <1>2. \A m, k : Held(m, k)' = Held(m, k) /\ (LinkHeld(m)' <=> LinkHeld(m))
    BY DEF Held, CoreHeld, LinkHeld
  <1>3. RefsExact'
    <2>. SUFFICES ASSUME NEW k \in Clks
                  PROVE  /\ handle["dsi"][k].ref = b2n(panel'.splash)
                              + Held(Eff("disp")', k) + Held(Eff("panel")', k)
                              + Held(Eff("dbg")', k)
                         /\ handle["mdp"][k].ref = b2n(MdpHeld')
      BY <1>2 DEF RefsExact
    <2>1. /\ handle["dsi"][k].ref = b2n(panel.splash) + Held(Eff("disp"), k)
               + Held(Eff("panel"), k) + Held(Eff("dbg"), k)
          /\ handle["mdp"][k].ref = b2n(MdpHeld)
      BY DEF RefsExact
    <2>2. \A m : Held(m, k) \in Nat
      BY HeldNat
    <2>3. b2n(panel.splash) \in Nat /\ b2n(panel'.splash) \in Nat
      BY DEF b2n
    <2>4. handle["mdp"][k].ref = b2n(MdpHeld')
      BY <2>1 DEF b2n
    <2>5. CASE t = "disp"
      BY <2>1, <2>2, <2>3, <2>4, <2>5, <1>1 DEF Threads
    <2>6. CASE t = "panel"
      BY <2>1, <2>2, <2>3, <2>4, <2>6, <1>1 DEF Threads
    <2>7. CASE t = "dbg"
      BY <2>1, <2>2, <2>3, <2>4, <2>7, <1>1 DEF Threads
    <2>8. CASE t = "rc"
      BY <2>1, <2>2, <2>3, <2>4, <2>8, <1>1 DEF Threads
    <2>. QED
      BY <2>5, <2>6, <2>7, <2>8 DEF Threads
  <1>4. MngrExact'
    <2>1. \A u \in Threads : LinkHeld(Eff(u)') /\ upd.by # u => mngr["link"]
      BY <1>1 DEF MngrExact
    <2>2. \A u \in Threads : LinkHeld(Eff(u))' <=> LinkHeld(Eff(u)')
      BY DEF LinkHeld
    <2>3. Want("core")' = Want("core") /\ Want("link")' = Want("link")
      BY DEF Want
    <2>. QED
      BY <2>1, <2>2, <2>3 DEF MngrExact
  <1>5. ClkExact'
    BY DEF ClkExact
  <1>. QED
    BY <1>3, <1>4, <1>5

\* Until the first failure, a quiet step of a thread that keeps its votes.
LEMMA QuietClean ==
    ASSUME Base, RefsExact, MngrExact, ClkExact, PowExact,
           UNCHANGED <<cfg, handle, mngr, upd, clk, ph, enc>>,
           NEW t \in Threads \ {"rc"}, NEW l, Goto(t, l),
           pc[t] \notin DOMAIN Calls, pc[t] # "force", l # "force",
           t = "disp" => /\ l \notin EncLabels \cup {"off", "on"}
                         /\ pc["disp"] \notin EncLabels \cup {"off", "on"},
           t = "panel" => l \in PanelLabels, t = "dbg" => l \in DbgLabels,
           \A k \in Clks : Held(l, k) = Held(pc[t], k),
           panel'.splash = panel.splash, panel'.kms = panel.kms
    PROVE  RefsExact' /\ MngrExact' /\ ClkExact' /\ PowExact'
PROOF
  <1>1. pc \in [Threads -> Labels] /\ LabelsOK
    BY Types DEF Base
  <1>2. pc'[t] = l /\ \A u \in Threads : u # t => pc'[u] = pc[u]
    BY <1>1 DEF Goto
  <1>3. /\ Eff(t) = pc[t] /\ Eff(t)' = l /\ upd.by # t
        /\ \A u \in Threads : u # t => Eff(u)' = Eff(u)
    BY EffMoves
  <1>4. MdpHeld' <=> MdpHeld
    BY <1>3 DEF MdpHeld, EncLabels, Threads
  <1>5. LinkHeld(l) => LinkHeld(pc[t])
    BY HeldNat DEF b2n, Clks
  <1>6. \A k \in Clks : b2n(panel'.splash) + Held(l, k)
                        = b2n(panel.splash) + Held(pc[t], k)
    OBVIOUS
  <1>7. RefsExact' /\ MngrExact' /\ ClkExact'
    BY <1>4, <1>5, <1>6, StepClean
  <1>8. (EncPower' <=> EncPower) /\ (Commit' <=> Commit)
    BY <1>2 DEF EncPower, Commit, Threads, EncLabels
  <1>9. PowExact'
    BY <1>8 DEF PowExact, b2n
  <1>. QED
    BY <1>7, <1>9

\* What holds until the first failure, part by part.
LEMMA CleanParts ==
    ASSUME IInv, faults = 0
    PROVE  /\ Base /\ PanelLock /\ NoFailure /\ RefsExact /\ MngrExact /\ ClkExact
           /\ IoExact /\ PowExact
  BY DEF IInv, Clean

\* What the panel is like is not changed.
LEMMA SameCfg == ASSUME TypeOK PROVE cfg.mode \in {"cmd", "vid"}
  BY DsiClkConstants DEF TypeOK, Panels

\* In the middle of a change of rate.
LEMMA ForcedIsForcing == \A s \in Todos : ForcedOff(s) => Forcing(s)
  BY TodoKinds, NoTodo DEF Todos

\* A thread that waits for no request holds the votes of its label.
LEMMA EffHere ==
    ASSUME Base, NEW t \in Threads, pc[t] \notin DOMAIN Calls
    PROVE  Eff(t) = pc[t] /\ (pc[t] # "force" => upd.by # t)
  BY NoTodo DEF Base, UpdOK, NoUpdate, Free, Threads, Eff

\* dsi_bridge_pre_enable.
LEMMA KeepsPreEnable ==
    ASSUME IInv, dsi_bridge_pre_enable
    PROVE  IInv'
PROOF
  <1>0. Base /\ TypeOK /\ PanelLock
    BY DEF IInv, Base
  <1>1. PICK l \in {"prep_core"} : Goto("disp", l)
    BY DEF dsi_bridge_pre_enable, Step, Fails
  <1>2. /\ pc["disp"] = "pre_enable" /\ io' = io
        /\ UNCHANGED <<cfg, handle, mngr, upd, clk, ph, enc>>
    BY DEF dsi_bridge_pre_enable, At, Step, votes
  <1>3. lock' \in LockType /\ lock'["rc"] = lock["rc"] /\ lock'["panel"] = lock["panel"]
    BY <1>0, Types, TakeLock DEF dsi_bridge_pre_enable, Threads
  <1>4. /\ panel' \in PanelType /\ panel'.rate = panel.rate
        /\ panel'.kms = panel.kms /\ panel'.splash = panel.splash
        /\ panel'.init = panel.init /\ ~panel'.esd
    BY <1>0, <1>1, Types DEF dsi_bridge_pre_enable, PanelType, PanelLock, Step, Goto
  <1>5. /\ faults' \in 0 .. MaxFaults /\ faults' >= faults
        /\ faults' = 0 => faults = 0
    BY <1>0, Types, FaultCount DEF dsi_bridge_pre_enable
  <1>6. /\ "pre_enable" \notin DOMAIN Calls /\ "pre_enable" \notin EncLabels \cup {"off", "on", "force"}
        /\ l \in DispLabels /\ l \notin EncLabels \cup {"off", "on", "force"}
    BY CallsTable DEF DispLabels, DispFailed, EncLabels
  <1>7. io' \in IoType
    BY <1>0, <1>2, Types
  <1>8. Base'
    BY <1>0, <1>1, <1>2, <1>3, <1>4, <1>5, <1>6, <1>7, QuietDisp
  <1>9. pc'["disp"] = l /\ \A u \in Threads : u # "disp" => pc'[u] = pc[u]
    BY <1>0, <1>1, Types DEF Goto, Threads
  <1>10. PanelLock'
    BY <1>0, <1>3, <1>6, <1>9 DEF PanelLock, Threads
  <1>11. ASSUME faults' = 0
         PROVE  NoFailure' /\ RefsExact' /\ MngrExact' /\ ClkExact' /\ IoExact' /\ PowExact'
    <2>1. /\ faults = 0 /\ NoFailure /\ RefsExact /\ MngrExact /\ ClkExact /\ IoExact
          /\ PowExact
      BY <1>5, <1>11, CleanParts
    <2>2. l \in {"prep_core"}
      BY <1>1, <1>11, <2>1
    <2>3. \A k \in Clks : Held(l, k) = Held("pre_enable", k)
      BY <1>0, <1>1, <2>2, SameCfg DEF Held, CoreHeld, LinkHeld, VideoOn, b2n
    <2>4. RefsExact' /\ MngrExact' /\ ClkExact' /\ PowExact'
      BY <1>0, <1>1, <1>2, <1>4, <1>6, <2>1, <2>3, QuietClean DEF Threads
    <2>5. NoFailure'
      BY <1>1, <1>2, <1>4, <1>9, <2>1, <2>2 DEF NoFailure, Blank, DispFailed, Threads
    <2>6. IoExact'
      BY <1>0, <1>2, <1>4, <2>1, Types DEF IoExact, PanelType
    <2>. QED
      BY <2>4, <2>5, <2>6
  <1>. QED
    BY <1>8, <1>10, <1>11 DEF IInv, Clean

\* The PHY is set up, or fails.
LEMMA KeepsPhySetup ==
    ASSUME IInv, PhySetup
    PROVE  IInv'
PROOF
  <1>0. Base /\ TypeOK /\ PanelLock
    BY DEF IInv, Base
  <1>1. PICK l \in {"prep_link", "prep_core_off"} : Goto("disp", l) /\ (l \in {"prep_link"} \/ faults' = faults + 1)
    BY DEF PhySetup, Step, Fails
  <1>2. /\ pc["disp"] = "prep_phy" /\ io' \in IoType
        /\ io'.vreg = io.vreg /\ io'.clamp = io.clamp /\ io'.ulps = io.ulps
        /\ io'.phyoff = io.phyoff /\ (io'.lanes = io.lanes \/ (~(cfg.susp /\ io.ulps) /\ ~io'.lanes))
        /\ UNCHANGED <<cfg, handle, mngr, upd, clk, ph, enc>>
    <2>1. pc["disp"] = "prep_phy" /\ UNCHANGED <<cfg, handle, mngr, upd, clk, ph, enc>>
      BY DEF PhySetup, At
    <2>2. io \in IoType
      BY <1>0, Types
    <2>3. io' = io \/ (~(cfg.susp /\ io.ulps) /\ io' = [io EXCEPT !.lanes = FALSE])
      BY DEF PhySetup
    <2>4. CASE io' = io
      BY <2>1, <2>2, <2>4
    <2>5. CASE ~(cfg.susp /\ io.ulps) /\ io' = [io EXCEPT !.lanes = FALSE]
      BY <2>1, <2>2, <2>5 DEF IoType
    <2>. QED
      BY <2>3, <2>4, <2>5
  <1>3. lock' \in LockType /\ lock'["rc"] = lock["rc"] /\ lock'["panel"] = lock["panel"]
    BY <1>0, Types DEF PhySetup
  <1>4. /\ panel' \in PanelType /\ panel'.rate = panel.rate
        /\ panel'.kms = panel.kms /\ panel'.splash = panel.splash
        /\ panel' = panel
    BY <1>0, <1>1, Types DEF PhySetup, PanelType, PanelLock, Step, Goto
  <1>5. /\ faults' \in 0 .. MaxFaults /\ faults' >= faults
        /\ faults' = 0 => faults = 0
    BY <1>0, Types, FaultCount DEF PhySetup
  <1>6. /\ "prep_phy" \notin DOMAIN Calls /\ "prep_phy" \notin EncLabels \cup {"off", "on", "force"}
        /\ l \in DispLabels /\ l \notin EncLabels \cup {"off", "on", "force"}
    BY CallsTable DEF DispLabels, DispFailed, EncLabels
  <1>7. io' \in IoType
    BY <1>0, <1>2, Types
  <1>8. Base'
    BY <1>0, <1>1, <1>2, <1>3, <1>4, <1>5, <1>6, <1>7, QuietDisp
  <1>9. pc'["disp"] = l /\ \A u \in Threads : u # "disp" => pc'[u] = pc[u]
    BY <1>0, <1>1, Types DEF Goto, Threads
  <1>10. PanelLock'
    BY <1>0, <1>3, <1>6, <1>9 DEF PanelLock, Threads
  <1>11. ASSUME faults' = 0
         PROVE  NoFailure' /\ RefsExact' /\ MngrExact' /\ ClkExact' /\ IoExact' /\ PowExact'
    <2>1. /\ faults = 0 /\ NoFailure /\ RefsExact /\ MngrExact /\ ClkExact /\ IoExact
          /\ PowExact
      BY <1>5, <1>11, CleanParts
    <2>2. l \in {"prep_link"}
      BY <1>1, <1>11, <2>1
    <2>3. \A k \in Clks : Held(l, k) = Held("prep_phy", k)
      BY <1>0, <1>1, <2>2, SameCfg DEF Held, CoreHeld, LinkHeld, VideoOn, b2n
    <2>4. RefsExact' /\ MngrExact' /\ ClkExact' /\ PowExact'
      BY <1>0, <1>1, <1>2, <1>4, <1>6, <2>1, <2>3, QuietClean DEF Threads
    <2>5. NoFailure'
      BY <1>1, <1>2, <1>4, <1>9, <2>1, <2>2 DEF NoFailure, Blank, DispFailed, Threads
    <2>6. IoExact'
      BY <1>0, <1>2, <1>4, <2>1, Types DEF IoExact, NoFailure, Blank, PanelType, IoType
    <2>. QED
      BY <2>4, <2>5, <2>6
  <1>. QED
    BY <1>8, <1>10, <1>11 DEF IInv, Clean

\* The panel is prepared, or fails.
LEMMA KeepsPanelPrepare ==
    ASSUME IInv, PanelPrepare
    PROVE  IInv'
PROOF
  <1>0. Base /\ TypeOK /\ PanelLock
    BY DEF IInv, Base
  <1>1. PICK l \in {"enable", "prep_link_off"} : Goto("disp", l) /\ (l \in {"enable"} \/ faults' = faults + 1)
    BY DEF PanelPrepare, Step, Fails
  <1>2. /\ pc["disp"] = "prep_panel" /\ io' = io
        /\ UNCHANGED <<cfg, handle, mngr, upd, clk, ph, enc>>
    BY DEF PanelPrepare, At, Step, votes
  <1>3. lock' \in LockType /\ lock'["rc"] = lock["rc"] /\ lock'["panel"] = lock["panel"]
    BY <1>0, Types, DropLock DEF PanelPrepare
  <1>4. /\ panel' \in PanelType /\ panel'.rate = panel.rate
        /\ panel'.kms = panel.kms /\ panel'.splash = panel.splash
        /\ panel' = panel
    BY <1>0, <1>1, Types DEF PanelPrepare, PanelType, PanelLock, Step, Goto
  <1>5. /\ faults' \in 0 .. MaxFaults /\ faults' >= faults
        /\ faults' = 0 => faults = 0
    BY <1>0, Types, FaultCount DEF PanelPrepare
  <1>6. /\ "prep_panel" \notin DOMAIN Calls /\ "prep_panel" \notin EncLabels \cup {"off", "on", "force"}
        /\ l \in DispLabels /\ l \notin EncLabels \cup {"off", "on", "force"}
    BY CallsTable DEF DispLabels, DispFailed, EncLabels
  <1>7. io' \in IoType
    BY <1>0, <1>2, Types
  <1>8. Base'
    BY <1>0, <1>1, <1>2, <1>3, <1>4, <1>5, <1>6, <1>7, QuietDisp
  <1>9. pc'["disp"] = l /\ \A u \in Threads : u # "disp" => pc'[u] = pc[u]
    BY <1>0, <1>1, Types DEF Goto, Threads
  <1>10. PanelLock'
    BY <1>0, <1>3, <1>6, <1>9 DEF PanelLock, Threads
  <1>11. ASSUME faults' = 0
         PROVE  NoFailure' /\ RefsExact' /\ MngrExact' /\ ClkExact' /\ IoExact' /\ PowExact'
    <2>1. /\ faults = 0 /\ NoFailure /\ RefsExact /\ MngrExact /\ ClkExact /\ IoExact
          /\ PowExact
      BY <1>5, <1>11, CleanParts
    <2>2. l \in {"enable"}
      BY <1>1, <1>11, <2>1
    <2>3. \A k \in Clks : Held(l, k) = Held("prep_panel", k)
      BY <1>0, <1>1, <2>2, SameCfg DEF Held, CoreHeld, LinkHeld, VideoOn, b2n
    <2>4. RefsExact' /\ MngrExact' /\ ClkExact' /\ PowExact'
      BY <1>0, <1>1, <1>2, <1>4, <1>6, <2>1, <2>3, QuietClean DEF Threads
    <2>5. NoFailure'
      BY <1>1, <1>2, <1>4, <1>9, <2>1, <2>2 DEF NoFailure, Blank, DispFailed, Threads
    <2>6. IoExact'
      BY <1>0, <1>2, <1>4, <2>1, Types DEF IoExact, PanelType
    <2>. QED
      BY <2>4, <2>5, <2>6
  <1>. QED
    BY <1>8, <1>10, <1>11 DEF IInv, Clean

\* dsi_display_prepare failed; its caller goes on.
LEMMA KeepsPrepareFails ==
    ASSUME IInv, PrepareFails
    PROVE  IInv'
PROOF
  <1>0. Base /\ TypeOK /\ PanelLock
    BY DEF IInv, Base
  <1>1. PICK l \in {"enc_start"} : Goto("disp", l)
    BY DEF PrepareFails, Step, Fails
  <1>2. /\ pc["disp"] = "prep_fail" /\ io' = io
        /\ UNCHANGED <<cfg, handle, mngr, upd, clk, ph, enc>>
    BY DEF PrepareFails, At, Step, votes
  <1>3. lock' \in LockType /\ lock'["rc"] = lock["rc"] /\ lock'["panel"] = lock["panel"]
    BY <1>0, Types, DropLock DEF PrepareFails
  <1>4. /\ panel' \in PanelType /\ panel'.rate = panel.rate
        /\ panel'.kms = panel.kms /\ panel'.splash = panel.splash
    BY <1>0, <1>1, Types DEF PrepareFails, PanelType, PanelLock, Step, Goto
  <1>5. /\ faults' \in 0 .. MaxFaults /\ faults' >= faults
        /\ faults' = 0 => faults = 0
    BY <1>0, Types, FaultCount DEF PrepareFails
  <1>6. /\ "prep_fail" \notin DOMAIN Calls /\ "prep_fail" \notin EncLabels \cup {"off", "on", "force"}
        /\ l \in DispLabels /\ l \notin EncLabels \cup {"off", "on", "force"}
    BY CallsTable DEF DispLabels, DispFailed, EncLabels
  <1>7. io' \in IoType
    BY <1>0, <1>2, Types
  <1>8. Base'
    BY <1>0, <1>1, <1>2, <1>3, <1>4, <1>5, <1>6, <1>7, QuietDisp
  <1>9. pc'["disp"] = l /\ \A u \in Threads : u # "disp" => pc'[u] = pc[u]
    BY <1>0, <1>1, Types DEF Goto, Threads
  <1>10. PanelLock'
    BY <1>0, <1>3, <1>6, <1>9 DEF PanelLock, Threads
  <1>11. faults' # 0
    BY <1>2, <1>5, CleanParts DEF NoFailure, Blank, DispFailed
  <1>. QED
    BY <1>8, <1>10, <1>11 DEF IInv, Clean

\* dsi_display_enable: the boot picture is taken over, the panel is turned on, or
\* fails.
LEMMA KeepsEnable ==
    ASSUME IInv, dsi_display_enable
    PROVE  IInv'
PROOF
  <1>0. Base /\ TypeOK /\ PanelLock
    BY DEF IInv, Base
  <1>1. PICK l \in {"splash_off", "enc_start", "undo_link"} : Goto("disp", l) /\ ((l = "splash_off" => panel.splash) /\ (l \in {"splash_off", "enc_start"} \/ faults' = faults + 1))
    BY DEF dsi_display_enable, Step, Fails
  <1>2. /\ pc["disp"] = "enable" /\ io' = io
        /\ UNCHANGED <<cfg, handle, mngr, upd, clk, ph, enc>>
    BY DEF dsi_display_enable, At, Step, votes
  <1>3. lock' \in LockType /\ lock'["rc"] = lock["rc"] /\ lock'["panel"] = lock["panel"]
    BY <1>0, Types, TakeLock DEF dsi_display_enable, Threads
  <1>4. /\ panel' \in PanelType /\ panel'.rate = panel.rate
        /\ panel'.kms = panel.kms /\ panel'.splash = panel.splash
        /\ panel.init => panel'.init
        /\ panel'.esd = panel.esd
    BY <1>0, <1>1, Types DEF dsi_display_enable, PanelType, PanelLock, Step, Goto
  <1>5. /\ faults' \in 0 .. MaxFaults /\ faults' >= faults
        /\ faults' = 0 => faults = 0
    BY <1>0, Types, FaultCount DEF dsi_display_enable
  <1>6. /\ "enable" \notin DOMAIN Calls /\ "enable" \notin EncLabels \cup {"off", "on", "force"}
        /\ l \in DispLabels /\ l \notin EncLabels \cup {"off", "on", "force"}
    BY CallsTable DEF DispLabels, DispFailed, EncLabels
  <1>7. io' \in IoType
    BY <1>0, <1>2, Types
  <1>8. Base'
    BY <1>0, <1>1, <1>2, <1>3, <1>4, <1>5, <1>6, <1>7, QuietDisp
  <1>9. pc'["disp"] = l /\ \A u \in Threads : u # "disp" => pc'[u] = pc[u]
    BY <1>0, <1>1, Types DEF Goto, Threads
  <1>10. PanelLock'
    BY <1>0, <1>3, <1>6, <1>9 DEF PanelLock, Threads
  <1>11. ASSUME faults' = 0
         PROVE  NoFailure' /\ RefsExact' /\ MngrExact' /\ ClkExact' /\ IoExact' /\ PowExact'
    <2>1. /\ faults = 0 /\ NoFailure /\ RefsExact /\ MngrExact /\ ClkExact /\ IoExact
          /\ PowExact
      BY <1>5, <1>11, CleanParts
    <2>2. l \in {"splash_off", "enc_start"}
      BY <1>1, <1>11, <2>1
    <2>3. \A k \in Clks : Held(l, k) = Held("enable", k)
      BY <1>0, <1>1, <2>2, SameCfg DEF Held, CoreHeld, LinkHeld, VideoOn, b2n
    <2>4. RefsExact' /\ MngrExact' /\ ClkExact' /\ PowExact'
      BY <1>0, <1>1, <1>2, <1>4, <1>6, <2>1, <2>3, QuietClean DEF Threads
    <2>5. NoFailure'
      BY <1>1, <1>2, <1>4, <1>9, <2>1, <2>2 DEF NoFailure, Blank, DispFailed, Threads
    <2>6. IoExact'
      BY <1>0, <1>2, <1>4, <2>1, Types DEF IoExact, PanelType
    <2>. QED
      BY <2>4, <2>5, <2>6
  <1>. QED
    BY <1>8, <1>10, <1>11 DEF IInv, Clean

\* dsi_display_enable failed; its caller goes on.
LEMMA KeepsEnableUndone ==
    ASSUME IInv, EnableUndone
    PROVE  IInv'
PROOF
  <1>0. Base /\ TypeOK /\ PanelLock
    BY DEF IInv, Base
  <1>1. PICK l \in {"enc_start"} : Goto("disp", l)
    BY DEF EnableUndone, Step, Fails
  <1>2. /\ pc["disp"] = "undone" /\ io' = io
        /\ UNCHANGED <<cfg, handle, mngr, upd, clk, ph, enc>>
    BY DEF EnableUndone, At, Step, votes
  <1>3. lock' \in LockType /\ lock'["rc"] = lock["rc"] /\ lock'["panel"] = lock["panel"]
    BY <1>0, Types, DropLock DEF EnableUndone
  <1>4. /\ panel' \in PanelType /\ panel'.rate = panel.rate
        /\ panel'.kms = panel.kms /\ panel'.splash = panel.splash
    BY <1>0, <1>1, Types DEF EnableUndone, PanelType, PanelLock, Step, Goto
  <1>5. /\ faults' \in 0 .. MaxFaults /\ faults' >= faults
        /\ faults' = 0 => faults = 0
    BY <1>0, Types, FaultCount DEF EnableUndone
  <1>6. /\ "undone" \notin DOMAIN Calls /\ "undone" \notin EncLabels \cup {"off", "on", "force"}
        /\ l \in DispLabels /\ l \notin EncLabels \cup {"off", "on", "force"}
    BY CallsTable DEF DispLabels, DispFailed, EncLabels
  <1>7. io' \in IoType
    BY <1>0, <1>2, Types
  <1>8. Base'
    BY <1>0, <1>1, <1>2, <1>3, <1>4, <1>5, <1>6, <1>7, QuietDisp
  <1>9. pc'["disp"] = l /\ \A u \in Threads : u # "disp" => pc'[u] = pc[u]
    BY <1>0, <1>1, Types DEF Goto, Threads
  <1>10. PanelLock'
    BY <1>0, <1>3, <1>6, <1>9 DEF PanelLock, Threads
  <1>11. faults' # 0
    BY <1>2, <1>5, CleanParts DEF NoFailure, Blank, DispFailed
  <1>. QED
    BY <1>8, <1>10, <1>11 DEF IInv, Clean

\* dsi_bridge_enable: command mode returns the votes of the display.
LEMMA KeepsBridgeEnable ==
    ASSUME IInv, dsi_bridge_enable
    PROVE  IInv'
PROOF
  <1>0. Base /\ TypeOK /\ PanelLock
    BY DEF IInv, Base
  <1>1. PICK l \in {"post_enable", "enabled"} : Goto("disp", l) /\ (l = "post_enable" <=> cfg.mode = "cmd")
    BY DEF dsi_bridge_enable, Step, Fails
  <1>2. /\ pc["disp"] = "post" /\ io' = io
        /\ UNCHANGED <<cfg, handle, mngr, upd, clk, ph, enc>>
    BY DEF dsi_bridge_enable, At, Step, votes
  <1>3. lock' \in LockType /\ lock'["rc"] = lock["rc"] /\ lock'["panel"] = lock["panel"]
    BY <1>0, Types, TakeLock DEF dsi_bridge_enable, Threads
  <1>4. /\ panel' \in PanelType /\ panel'.rate = panel.rate
        /\ panel'.kms = panel.kms /\ panel'.splash = panel.splash
        /\ panel' = panel
    BY <1>0, <1>1, Types DEF dsi_bridge_enable, PanelType, PanelLock, Step, Goto
  <1>5. /\ faults' \in 0 .. MaxFaults /\ faults' >= faults
        /\ faults' = 0 => faults = 0
    BY <1>0, Types, FaultCount DEF dsi_bridge_enable
  <1>6. /\ "post" \notin DOMAIN Calls /\ "post" \notin EncLabels \cup {"off", "on", "force"}
        /\ l \in DispLabels /\ l \notin EncLabels \cup {"off", "on", "force"}
    BY CallsTable DEF DispLabels, DispFailed, EncLabels
  <1>7. io' \in IoType
    BY <1>0, <1>2, Types
  <1>8. Base'
    BY <1>0, <1>1, <1>2, <1>3, <1>4, <1>5, <1>6, <1>7, QuietDisp
  <1>9. pc'["disp"] = l /\ \A u \in Threads : u # "disp" => pc'[u] = pc[u]
    BY <1>0, <1>1, Types DEF Goto, Threads
  <1>10. PanelLock'
    BY <1>0, <1>3, <1>6, <1>9 DEF PanelLock, Threads
  <1>11. ASSUME faults' = 0
         PROVE  NoFailure' /\ RefsExact' /\ MngrExact' /\ ClkExact' /\ IoExact' /\ PowExact'
    <2>1. /\ faults = 0 /\ NoFailure /\ RefsExact /\ MngrExact /\ ClkExact /\ IoExact
          /\ PowExact
      BY <1>5, <1>11, CleanParts
    <2>2. l \in {"post_enable", "enabled"}
      BY <1>1, <1>11, <2>1
    <2>3. \A k \in Clks : Held(l, k) = Held("post", k)
      BY <1>0, <1>1, <2>2, SameCfg DEF Held, CoreHeld, LinkHeld, VideoOn, b2n
    <2>4. RefsExact' /\ MngrExact' /\ ClkExact' /\ PowExact'
      BY <1>0, <1>1, <1>2, <1>4, <1>6, <2>1, <2>3, QuietClean DEF Threads
    <2>5. NoFailure'
      BY <1>1, <1>2, <1>4, <1>9, <2>1, <2>2 DEF NoFailure, Blank, DispFailed, Threads
    <2>6. IoExact'
      BY <1>0, <1>2, <1>4, <2>1, Types DEF IoExact, PanelType
    <2>. QED
      BY <2>4, <2>5, <2>6
  <1>. QED
    BY <1>8, <1>10, <1>11 DEF IInv, Clean

\* dsi_bridge_disable: command mode votes again.
LEMMA KeepsBridgeDisable ==
    ASSUME IInv, dsi_bridge_disable
    PROVE  IInv'
PROOF
  <1>0. Base /\ TypeOK /\ PanelLock
    BY DEF IInv, Base
  <1>1. PICK l \in {"pre_disable", "stop"} : Goto("disp", l) /\ (l = "pre_disable" <=> cfg.mode = "cmd")
    BY DEF dsi_bridge_disable, Step, Fails
  <1>2. /\ pc["disp"] = "bridge_disable" /\ io' = io
        /\ UNCHANGED <<cfg, handle, mngr, upd, clk, ph, enc>>
    BY DEF dsi_bridge_disable, At, Step, votes
  <1>3. lock' \in LockType /\ lock'["rc"] = lock["rc"] /\ lock'["panel"] = lock["panel"]
    BY <1>0, Types, TakeLock DEF dsi_bridge_disable, Threads
  <1>4. /\ panel' \in PanelType /\ panel'.rate = panel.rate
        /\ panel'.kms = panel.kms /\ panel'.splash = panel.splash
        /\ panel' = panel
    BY <1>0, <1>1, Types DEF dsi_bridge_disable, PanelType, PanelLock, Step, Goto
  <1>5. /\ faults' \in 0 .. MaxFaults /\ faults' >= faults
        /\ faults' = 0 => faults = 0
    BY <1>0, Types, FaultCount DEF dsi_bridge_disable
  <1>6. /\ "bridge_disable" \notin DOMAIN Calls /\ "bridge_disable" \notin EncLabels \cup {"off", "on", "force"}
        /\ l \in DispLabels /\ l \notin EncLabels \cup {"off", "on", "force"}
    BY CallsTable DEF DispLabels, DispFailed, EncLabels
  <1>7. io' \in IoType
    BY <1>0, <1>2, Types
  <1>8. Base'
    BY <1>0, <1>1, <1>2, <1>3, <1>4, <1>5, <1>6, <1>7, QuietDisp
  <1>9. pc'["disp"] = l /\ \A u \in Threads : u # "disp" => pc'[u] = pc[u]
    BY <1>0, <1>1, Types DEF Goto, Threads
  <1>10. PanelLock'
    BY <1>0, <1>3, <1>6, <1>9 DEF PanelLock, Threads
  <1>11. ASSUME faults' = 0
         PROVE  NoFailure' /\ RefsExact' /\ MngrExact' /\ ClkExact' /\ IoExact' /\ PowExact'
    <2>1. /\ faults = 0 /\ NoFailure /\ RefsExact /\ MngrExact /\ ClkExact /\ IoExact
          /\ PowExact
      BY <1>5, <1>11, CleanParts
    <2>2. l \in {"pre_disable", "stop"}
      BY <1>1, <1>11, <2>1
    <2>3. \A k \in Clks : Held(l, k) = Held("bridge_disable", k)
      BY <1>0, <1>1, <2>2, SameCfg DEF Held, CoreHeld, LinkHeld, VideoOn, b2n
    <2>4. RefsExact' /\ MngrExact' /\ ClkExact' /\ PowExact'
      BY <1>0, <1>1, <1>2, <1>4, <1>6, <2>1, <2>3, QuietClean DEF Threads
    <2>5. NoFailure'
      BY <1>1, <1>2, <1>4, <1>9, <2>1, <2>2 DEF NoFailure, Blank, DispFailed, Threads
    <2>6. IoExact'
      BY <1>0, <1>2, <1>4, <2>1, Types DEF IoExact, PanelType
    <2>. QED
      BY <2>4, <2>5, <2>6
  <1>. QED
    BY <1>8, <1>10, <1>11 DEF IInv, Clean

\* dsi_bridge_post_disable: the panel is blank.
LEMMA KeepsPostDisable ==
    ASSUME IInv, dsi_bridge_post_disable
    PROVE  IInv'
PROOF
  <1>0. Base /\ TypeOK /\ PanelLock
    BY DEF IInv, Base
  <1>1. PICK l \in {"unprep_link"} : Goto("disp", l)
    BY DEF dsi_bridge_post_disable, Step, Fails
  <1>2. /\ pc["disp"] = "post_disable" /\ io' = io
        /\ UNCHANGED <<cfg, handle, mngr, upd, clk, ph, enc>>
    BY DEF dsi_bridge_post_disable, At, Step, votes
  <1>3. lock' \in LockType /\ lock'["rc"] = lock["rc"] /\ lock'["panel"] = lock["panel"]
    BY <1>0, Types, TakeLock DEF dsi_bridge_post_disable, Threads
  <1>4. /\ panel' \in PanelType /\ panel'.rate = panel.rate
        /\ panel'.kms = panel.kms /\ panel'.splash = panel.splash
        /\ ~panel'.init /\ panel'.esd = panel.esd
    BY <1>0, <1>1, Types DEF dsi_bridge_post_disable, PanelType, PanelLock, Step, Goto
  <1>5. /\ faults' \in 0 .. MaxFaults /\ faults' >= faults
        /\ faults' = 0 => faults = 0
    BY <1>0, Types, FaultCount DEF dsi_bridge_post_disable
  <1>6. /\ "post_disable" \notin DOMAIN Calls /\ "post_disable" \notin EncLabels \cup {"off", "on", "force"}
        /\ l \in DispLabels /\ l \notin EncLabels \cup {"off", "on", "force"}
    BY CallsTable DEF DispLabels, DispFailed, EncLabels
  <1>7. io' \in IoType
    BY <1>0, <1>2, Types
  <1>8. Base'
    BY <1>0, <1>1, <1>2, <1>3, <1>4, <1>5, <1>6, <1>7, QuietDisp
  <1>9. pc'["disp"] = l /\ \A u \in Threads : u # "disp" => pc'[u] = pc[u]
    BY <1>0, <1>1, Types DEF Goto, Threads
  <1>10. PanelLock'
    BY <1>0, <1>3, <1>6, <1>9 DEF PanelLock, Threads
  <1>11. ASSUME faults' = 0
         PROVE  NoFailure' /\ RefsExact' /\ MngrExact' /\ ClkExact' /\ IoExact' /\ PowExact'
    <2>1. /\ faults = 0 /\ NoFailure /\ RefsExact /\ MngrExact /\ ClkExact /\ IoExact
          /\ PowExact
      BY <1>5, <1>11, CleanParts
    <2>2. l \in {"unprep_link"}
      BY <1>1, <1>11, <2>1
    <2>3. \A k \in Clks : Held(l, k) = Held("post_disable", k)
      BY <1>0, <1>1, <2>2, SameCfg DEF Held, CoreHeld, LinkHeld, VideoOn, b2n
    <2>4. RefsExact' /\ MngrExact' /\ ClkExact' /\ PowExact'
      BY <1>0, <1>1, <1>2, <1>4, <1>6, <2>1, <2>3, QuietClean DEF Threads
    <2>5. NoFailure'
      BY <1>1, <1>2, <1>4, <1>9, <2>1, <2>2 DEF NoFailure, Blank, DispFailed, Threads
    <2>6. IoExact'
      <3>1. ~ForcedOff(upd.todo)
        BY <1>0, <1>2, ForcedIsForcing DEF Base, UpdOK
      <3>2. mngr["link"]
        <4>1. LinkHeld("post_disable") /\ "disp" \in Threads
          BY DEF LinkHeld, Threads
        <4>. QED
          BY <1>0, <1>2, <1>6, <2>1, <4>1, EffHere DEF MngrExact
      <3>. QED
        BY <1>0, <1>2, <1>4, <2>1, <3>1, <3>2, Types DEF IoExact, PanelType
    <2>. QED
      BY <2>4, <2>5, <2>6
  <1>. QED
    BY <1>8, <1>10, <1>11 DEF IInv, Clean

\* A step of the panel user or of debugfs that keeps its votes.
LEMMA UserMoves ==
    ASSUME IInv, NEW t \in {"panel", "dbg"}, NEW l, Goto(t, l),
           pc[t] \notin DOMAIN Calls,
           UNCHANGED <<cfg, votes, ph, enc>>,
           t = "panel" => l \in PanelLabels, t = "dbg" => l \in DbgLabels,
           lock' \in LockType, lock'["rc"] = lock["rc"], PanelLock',
           panel' \in PanelType, panel'.rate = panel.rate, panel'.init = panel.init,
           panel'.kms = panel.kms, panel'.splash = panel.splash,
           faults' \in 0 .. MaxFaults, faults' >= faults,
           faults' = 0 => /\ \A k \in Clks : Held(l, k) = Held(pc[t], k)
                          /\ ~panel.esd => ~panel'.esd
                          /\ l \notin {"esd_off_bad", "esd_bad"}
    PROVE  IInv'
PROOF
  <1>0. Base /\ TypeOK /\ PanelLock /\ LabelsOK
    BY DEF IInv, Base
  <1>1. UNCHANGED <<cfg, handle, mngr, upd, clk, io, ph, enc>>
    BY DEF votes
  <1>2. Base'
    BY <1>0, <1>1, QuietUser
  <1>3. t \in Threads /\ pc'[t] = l /\ \A u \in Threads : u # t => pc'[u] = pc[u]
    BY <1>0, Types DEF Goto, Threads
  <1>4. ASSUME faults' = 0
        PROVE  NoFailure' /\ RefsExact' /\ MngrExact' /\ ClkExact' /\ IoExact' /\ PowExact'
    <2>1. faults = 0
      BY <1>0, <1>4, Types
    <2>2. /\ NoFailure /\ RefsExact /\ MngrExact /\ ClkExact /\ IoExact /\ PowExact
      BY <2>1, CleanParts
    <2>3. pc[t] # "force" /\ l # "force" /\ t \in Threads \ {"rc"} /\ t # "disp"
      BY <1>0 DEF LabelsOK, PanelLabels, DbgLabels, Threads
    <2>4. RefsExact' /\ MngrExact' /\ ClkExact' /\ PowExact'
      BY <1>0, <1>1, <1>4, <2>2, <2>3, QuietClean
    <2>5. NoFailure'
      BY <1>1, <1>3, <1>4, <2>2, <2>3 DEF NoFailure, Blank, Threads
    <2>6. IoExact'
      BY <1>1, <2>2 DEF IoExact
    <2>. QED
      BY <2>4, <2>5, <2>6
  <1>. QED
    BY <1>2, <1>4 DEF IInv, Clean

\* The panel user enters: no change of the clock rate is under way.
LEMMA PanelUserKeeps ==
    ASSUME IInv, NEW l \in {"bl_on", "esd_on", "esd_bad"}, PanelUser(l),
           (Works /\ l # "esd_bad") \/ Fails("esd")
    PROVE  IInv'
PROOF
  <1>0. Base /\ TypeOK /\ PanelLock /\ LabelsOK
    BY DEF IInv, Base
  <1>1. /\ pc["panel"] = "idle" /\ Goto("panel", l) /\ panel' = panel
        /\ UNCHANGED <<cfg, votes, ph, enc>> /\ Take("panel", "panel")
    BY DEF PanelUser
  <1>2. /\ lock' \in LockType /\ lock["panel"] = Free /\ lock'["panel"] = "panel"
        /\ lock'["rc"] = lock["rc"]
    BY <1>0, <1>1, Types, TakeLock DEF Threads
  <1>3. pc'["panel"] = l /\ pc'["disp"] = pc["disp"]
    BY <1>0, <1>1, Types DEF Goto, Threads
  <1>4. PanelLock'
    BY <1>0, <1>2, <1>3 DEF PanelLock, Free
  <1>5. /\ faults' \in 0 .. MaxFaults /\ faults' >= faults
        /\ faults' = 0 => l # "esd_bad"
    BY <1>0, Types, FaultCount
  <1>6. "idle" \notin DOMAIN Calls /\ l \in PanelLabels
    BY CallsTable DEF PanelLabels
  <1>7. l # "esd_bad" => \A k \in Clks : Held(l, k) = Held("idle", k)
    BY DEF Held, CoreHeld, LinkHeld, VideoOn, b2n
  <1>8. panel' \in PanelType /\ panel'.rate = panel.rate
    BY <1>0, <1>1, Types
  <1>. QED
    BY <1>1, <1>2, <1>4, <1>5, <1>6, <1>7, <1>8, UserMoves

\* The panel user goes on.
LEMMA PanelStepKeeps ==
    ASSUME IInv, NEW f, NEW l, PanelStep(f, l), Works \/ Fails("esd"),
           \/ f = "bl" /\ l \in {"bl_off", "tx_on"}
           \/ f = "tx" /\ l = "tx_off"
           \/ f = "esd_read" /\ l \in {"esd_off", "esd_off_bad"},
           l = "esd_off_bad" => Fails("esd")
    PROVE  IInv'
PROOF
  <1>0. Base /\ TypeOK /\ PanelLock /\ LabelsOK
    BY DEF IInv, Base
  <1>1. /\ pc["panel"] = f /\ Goto("panel", l) /\ panel' = panel /\ lock' = lock
        /\ UNCHANGED <<cfg, votes, ph, enc>>
    BY DEF PanelStep
  <1>3. pc'["panel"] = l /\ pc'["disp"] = pc["disp"]
    BY <1>0, <1>1, Types DEF Goto, Threads
  <1>4. PanelLock'
    BY <1>0, <1>1, <1>3 DEF PanelLock
  <1>5. /\ faults' \in 0 .. MaxFaults /\ faults' >= faults
        /\ faults' = 0 => l # "esd_off_bad"
    BY <1>0, Types, FaultCount
  <1>6. f \notin DOMAIN Calls /\ l \in PanelLabels /\ l # "esd_bad"
    BY CallsTable DEF PanelLabels
  <1>7. \A k \in Clks : Held(l, k) = Held(f, k)
    BY DEF Held, CoreHeld, LinkHeld, VideoOn, b2n
  <1>8. panel' \in PanelType /\ panel'.rate = panel.rate /\ lock' \in LockType
    BY <1>0, <1>1, Types
  <1>. QED
    BY <1>1, <1>4, <1>5, <1>6, <1>7, <1>8, UserMoves

\* The panel user leaves.
LEMMA PanelExitKeeps ==
    ASSUME IInv, NEW f \in {"bl_exit", "esd_good", "esd_bad"}, PanelExit(f)
    PROVE  IInv'
PROOF
  <1>0. Base /\ TypeOK /\ PanelLock /\ LabelsOK
    BY DEF IInv, Base
  <1>1. /\ pc["panel"] = f /\ Goto("panel", "idle") /\ Drop("panel")
        /\ UNCHANGED <<cfg, votes, ph, enc, faults>>
    BY DEF PanelExit
  <1>2. /\ lock' \in LockType /\ lock'["rc"] = lock["rc"] /\ lock["panel"] = "panel"
    BY <1>0, <1>1, Types, DropLock DEF PanelLock
  <1>3. pc'["panel"] = "idle" /\ pc'["disp"] = pc["disp"]
    BY <1>0, <1>1, Types DEF Goto, Threads, Labels
  <1>4. PanelLock'
    BY <1>0, <1>2, <1>3 DEF PanelLock
  <1>5. /\ faults' \in 0 .. MaxFaults /\ faults' >= faults
        /\ faults' = 0 => f # "esd_bad"
    BY <1>0, <1>1, Types, CleanParts DEF NoFailure, Blank
  <1>6. f \notin DOMAIN Calls /\ "idle" \in PanelLabels
    BY CallsTable DEF PanelLabels
  <1>7. \A k \in Clks : Held("idle", k) = Held(f, k)
    BY DEF Held, CoreHeld, LinkHeld, VideoOn, b2n
  <1>8. /\ panel' \in PanelType /\ panel'.rate = panel.rate /\ panel'.init = panel.init
        /\ panel'.kms = panel.kms /\ panel'.splash = panel.splash
        /\ f # "esd_bad" => (~panel.esd => ~panel'.esd)
    BY <1>0, Types DEF PanelExit, PanelType
  <1>. QED
    BY <1>1, <1>2, <1>4, <1>5, <1>6, <1>7, <1>8, UserMoves

\* dsi_display_set_backlight, dsi_host_transfer and dsi_display_check_status.
LEMMA KeepsPanelUser ==
    ASSUME IInv, \/ dsi_display_set_backlight \/ dsi_host_transfer \/ BacklightExit
                 \/ dsi_display_check_status
    PROVE  IInv'
PROOF
  <1>1. CASE dsi_display_set_backlight
    BY <1>1, PanelUserKeeps DEF dsi_display_set_backlight
  <1>2. CASE dsi_host_transfer
    <2>1. CASE PanelStep("bl", IF panel.esd THEN "bl_off" ELSE "tx_on") /\ Works
      <3>1. PICK l \in {"bl_off", "tx_on"} : PanelStep("bl", l)
        BY <2>1
      <3>. QED
        BY <2>1, <3>1, PanelStepKeeps
    <2>2. CASE PanelStep("tx", "tx_off") /\ Works
      BY <2>2, PanelStepKeeps
    <2>. QED
      BY <1>2, <2>1, <2>2 DEF dsi_host_transfer
  <1>3. CASE BacklightExit
    BY <1>3, PanelExitKeeps DEF BacklightExit
  <1>4. CASE dsi_display_check_status
    <2>1. CASE PanelUser("esd_on") /\ Works
      BY <2>1, PanelUserKeeps
    <2>2. CASE PanelUser("esd_bad") /\ Fails("esd")
      BY <2>2, PanelUserKeeps
    <2>3. CASE PanelStep("esd_read", "esd_off") /\ Works
      BY <2>3, PanelStepKeeps
    <2>4. CASE PanelStep("esd_read", "esd_off_bad") /\ Fails("esd")
      BY <2>4, PanelStepKeeps
    <2>5. CASE PanelExit("esd_good") \/ PanelExit("esd_bad")
      BY <2>5, PanelExitKeeps
    <2>. QED
      BY <1>4, <2>1, <2>2, <2>3, <2>4, <2>5 DEF dsi_display_check_status
  <1>. QED
    BY <1>1, <1>2, <1>3, <1>4

\* debugfs_misr.
LEMMA KeepsMisr ==
    ASSUME IInv, debugfs_misr
    PROVE  IInv'
PROOF
  <1>0. Base /\ TypeOK /\ PanelLock /\ LabelsOK
    BY DEF IInv, Base
  <1>1. UNCHANGED <<cfg, votes, ph, enc, faults>> /\ panel' = panel
    BY DEF debugfs_misr
  <1>2. PICK f, l : /\ pc["dbg"] = f /\ Goto("dbg", l)
                    /\ \/ f = "idle" /\ l = "misr_on"
                       \/ f = "misr" /\ l = "misr_off"
                       \/ f = "misr_exit" /\ l = "idle"
    BY DEF debugfs_misr
  <1>3. lock' \in LockType /\ lock'["rc"] = lock["rc"] /\ lock'["panel"] = lock["panel"]
    BY <1>0, Types, TakeLock, DropLock DEF debugfs_misr, Threads
  <1>4. pc'["panel"] = pc["panel"] /\ pc'["disp"] = pc["disp"]
    BY <1>0, <1>2, Types DEF Goto, Threads
  <1>5. PanelLock'
    BY <1>0, <1>3, <1>4 DEF PanelLock
  <1>6. f \notin DOMAIN Calls /\ l \in DbgLabels /\ l \notin {"esd_off_bad", "esd_bad"}
    BY <1>2, CallsTable DEF DbgLabels
  <1>7. \A k \in Clks : Held(l, k) = Held(f, k)
    BY <1>2 DEF Held, CoreHeld, LinkHeld, VideoOn, b2n
  <1>8. /\ panel' \in PanelType /\ panel'.rate = panel.rate
        /\ faults' \in 0 .. MaxFaults /\ faults' >= faults
    BY <1>0, <1>1, Types
  <1>. QED
    BY <1>1, <1>2, <1>3, <1>5, <1>6, <1>7, <1>8, UserMoves

\* sysfs_dynamic_dsi_clk_write asks for a rate.
LEMMA KeepsRate ==
    ASSUME IInv, sysfs_dynamic_dsi_clk_write
    PROVE  IInv'
PROOF
  <1>0. Base /\ TypeOK /\ PanelLock
    BY DEF IInv, Base
  <1>1. UNCHANGED <<cfg, pc, lock, handle, mngr, upd, clk, io, ph, enc, faults>>
    BY DEF sysfs_dynamic_dsi_clk_write, votes
  <1>2. /\ panel' \in PanelType /\ panel'.rate /\ panel'.kms = panel.kms
        /\ panel'.splash = panel.splash /\ panel'.init = panel.init
        /\ panel'.esd = panel.esd
    BY <1>0, Types DEF sysfs_dynamic_dsi_clk_write, PanelType
  <1>3. TypeOK'
    BY <1>0, <1>1, <1>2, Types, StepType
  <1>4. UpdOK' /\ MngrOK' /\ ClkOK' /\ RefOn'
    BY <1>0, <1>1, <1>2, Types, VotesKept
  <1>5. LabelsOK' /\ EncOK' /\ PanelLock'
    BY <1>0, <1>1 DEF Base, LabelsOK, EncOK, PanelLock
  <1>6. PowOK'
    BY <1>0, <1>1, <1>2 DEF Base, PowOK, EncPower, Commit
  <1>7. ASSUME faults' = 0
        PROVE  NoFailure' /\ RefsExact' /\ MngrExact' /\ ClkExact' /\ IoExact' /\ PowExact'
    <2>1. NoFailure /\ RefsExact /\ MngrExact /\ ClkExact /\ IoExact /\ PowExact
      BY <1>1, <1>7, CleanParts
    <2>2. NoFailure' /\ ClkExact' /\ IoExact'
      BY <1>1, <1>2, <2>1 DEF NoFailure, Blank, ClkExact, IoExact
    <2>3. PowExact'
      BY <1>1, <1>2, <2>1 DEF PowExact, EncPower, Commit
    <2>4. RefsExact'
      <3>1. \A m, k : Held(m, k)' = Held(m, k)
        BY <1>1 DEF Held, CoreHeld, LinkHeld
      <3>2. \A u \in Threads : Eff(u)' = Eff(u)
        BY <1>1 DEF Eff
      <3>3. MdpHeld' <=> MdpHeld
        BY <1>1, <3>2 DEF MdpHeld, Threads
      <3>. SUFFICES ASSUME NEW k \in Clks
                    PROVE  /\ handle["dsi"][k].ref = b2n(panel'.splash)
                                + Held(Eff("disp")', k) + Held(Eff("panel")', k)
                                + Held(Eff("dbg")', k)
                           /\ handle["mdp"][k].ref = b2n(MdpHeld')
        BY <1>1, <3>1 DEF RefsExact
      <3>4. Eff("disp")' = Eff("disp") /\ Eff("panel")' = Eff("panel") /\ Eff("dbg")' = Eff("dbg")
        BY <3>2 DEF Threads
      <3>. QED
        BY <1>2, <2>1, <3>3, <3>4 DEF RefsExact, b2n
    <2>5. MngrExact'
      BY <1>1, <1>2, <2>1 DEF MngrExact, Want, LinkHeld, Eff
    <2>. QED
      BY <2>1, <2>2, <2>3, <2>4, <2>5
  <1>. QED
    BY <1>3, <1>4, <1>5, <1>6, <1>7 DEF IInv, Base, Clean

\* sde_kms_prepare_commit votes for power, which may be refused.
LEMMA KeepsPrepareCommit ==
    ASSUME IInv, NEW at \in {"pre_enable", "kick", "bridge_disable"},
           sde_kms_prepare_commit(at)
    PROVE  IInv'
PROOF
  <1>0. Base /\ TypeOK /\ PanelLock /\ PowOK
    BY DEF IInv, Base
  <1>1. /\ pc["disp"] \in {"off", "on"} /\ Goto("disp", at)
        /\ pc["disp"] = "off" <=> at = "pre_enable"
        /\ UNCHANGED <<cfg, lock, handle, mngr, upd, clk, io, panel, enc>>
    BY DEF sde_kms_prepare_commit, votes
  <1>2. /\ ph' \in PowerHandles(PowerClients)
        /\ ph'.ref["core"] = ph.ref["core"] + 1 /\ ph'.ref["dsi"] = ph.ref["dsi"]
        /\ ph'.ref["splash"] = ph.ref["splash"]
        /\ ph.cur => ph'.cur
        /\ ph'.cur <=> ph'.res
        /\ faults' \in 0 .. MaxFaults /\ faults' >= faults
        /\ faults' = 0 => ph'.cur
    <2>1. /\ ph \in PowerHandles(PowerClients) /\ (ph.cur <=> ph.res)
          /\ "core" \in PowerClients /\ "dsi" \in PowerClients /\ "splash" \in PowerClients
      BY <1>0, Types DEF PowOK, PowerClients
    <2>2. CASE ph' = sde_power_resource_enable(ph, "core", TRUE) /\ Works
      <3>1. faults' \in 0 .. MaxFaults /\ faults' >= faults
        BY <2>2, <1>0, Types, FaultCount
      <3>. QED
        BY <2>1, <2>2, <3>1, PowerOn
    <2>3. CASE /\ Fails("power") /\ _resource_changed(ph, "core", TRUE)
               /\ ph' = sde_power_resource_enable_fails(ph, "core")
      <3>1. faults' \in 0 .. MaxFaults /\ faults' >= faults /\ faults' # 0
        BY <2>3, <1>0, Types, FaultCount
      <3>2. ~ph.cur
        BY <2>1, <2>3, PowerSwitches
      <3>. QED
        BY <2>1, <2>3, <3>1, <3>2, PowerRefused
    <2>. QED
      BY <2>2, <2>3 DEF sde_kms_prepare_commit
  <1>3. pc'["disp"] = at /\ \A u \in Threads : u # "disp" => pc'[u] = pc[u]
    BY <1>0, <1>1, Types DEF Goto, Threads
  <1>4. /\ pc["disp"] \notin DOMAIN Calls /\ pc["disp"] # "force" /\ at # "force"
        /\ at \in DispLabels
    BY <1>1, CallsTable DEF DispLabels
  <1>5. EncOK' /\ PanelLock'
    BY <1>0, <1>1, <1>3 DEF Base, EncOK, PanelLock, Threads
  <1>6. (EncPower' <=> EncPower) /\ Commit' /\ ~Commit
    BY <1>1, <1>3 DEF EncPower, Commit, Threads
  <1>7. PowOK'
    <2>1. /\ ph.ref["core"] \in Nat /\ ph.ref["dsi"] \in Nat /\ ph.ref["splash"] \in Nat
      BY <1>0, Types DEF PowerHandles, PowerClients
    <2>. QED
      BY <1>0, <1>1, <1>2, <1>3, <1>6, <2>1 DEF PowOK, b2n
  <1>8. Base'
    <2>1. lock' \in LockType /\ io' \in IoType /\ panel' \in PanelType /\ enc' \in BOOLEAN
      BY <1>0, <1>1, Types
    <2>. QED
      BY <1>0, <1>1, <1>2, <1>4, <1>5, <1>7, <2>1, StepBase DEF Threads
  <1>9. ASSUME faults' = 0
        PROVE  NoFailure' /\ RefsExact' /\ MngrExact' /\ ClkExact' /\ IoExact' /\ PowExact'
    <2>1. faults = 0
      BY <1>0, <1>2, <1>9, Types
    <2>2. NoFailure /\ RefsExact /\ MngrExact /\ ClkExact /\ IoExact /\ PowExact
      BY <2>1, CleanParts
    <2>3. NoFailure' /\ IoExact'
      BY <1>1, <1>3, <2>2 DEF NoFailure, Blank, IoExact, DispFailed, Threads
    <2>4. PowExact'
      BY <1>0, <1>1, <1>2, <1>6, <1>9, <2>2 DEF PowExact, b2n
    <2>5. \A k \in Clks : Held(at, k) = Held(pc["disp"], k)
      BY <1>0, <1>1, SameCfg DEF Held, CoreHeld, LinkHeld, VideoOn, b2n
    <2>6. LinkHeld(at) => LinkHeld(pc["disp"])
      BY <2>5, HeldNat DEF b2n, Clks
    <2>7. MdpHeld' <=> MdpHeld
      <3>1. /\ Eff("disp") = pc["disp"] /\ Eff("disp")' = at /\ Eff("rc")' = Eff("rc")
        BY <1>0, <1>1, <1>4, EffMoves DEF Threads
      <3>. QED
        BY <1>1, <3>1 DEF MdpHeld
    <2>8. RefsExact' /\ MngrExact' /\ ClkExact'
      BY <1>0, <1>1, <1>4, <2>2, <2>5, <2>6, <2>7, StepClean DEF Threads
    <2>. QED
      BY <2>3, <2>4, <2>8
  <1>. QED
    BY <1>5, <1>8, <1>9 DEF IInv, Clean
-----------------------------------------------------------------------------
(* The encoder's votes, and the end of a commit.                           *)

\* A vote for power that is granted, and one that is returned.
LEMMA PowerUp ==
    ASSUME Base, NEW c \in PowerClients, ph' = sde_power_resource_enable(ph, c, TRUE)
    PROVE  /\ ph' \in PowerHandles(PowerClients) /\ ph'.cur /\ ph'.res
           /\ ph'.ref[c] = ph.ref[c] + 1
           /\ \A d \in PowerClients : ph.ref[d] \in Nat /\ (d # c => ph'.ref[d] = ph.ref[d])
PROOF
  <1>1. ph \in PowerHandles(PowerClients) /\ (ph.cur <=> ph.res)
    BY Types DEF Base, PowOK
  <1>2. \A d \in PowerClients : ph.ref[d] \in Nat
    BY <1>1 DEF PowerHandles
  <1>. QED
    BY <1>1, <1>2, PowerOn

LEMMA PowerLost ==
    ASSUME Base, ~ph.cur, NEW c \in PowerClients,
           ph' = sde_power_resource_enable_fails(ph, c)
    PROVE  /\ ph' \in PowerHandles(PowerClients) /\ ~ph'.cur /\ ~ph'.res
           /\ ph'.ref[c] = ph.ref[c] + 1
           /\ \A d \in PowerClients : d # c => ph'.ref[d] = ph.ref[d]
PROOF
  <1>1. ph \in PowerHandles(PowerClients)
    BY Types DEF Base
  <1>. QED
    BY <1>1, PowerRefused

LEMMA PowerDown ==
    ASSUME Base, ph.cur, NEW c \in PowerClients,
           ph' = sde_power_resource_enable(ph, c, FALSE)
    PROVE  /\ ph' \in PowerHandles(PowerClients) /\ (ph'.cur <=> ph'.res)
           /\ ph'.ref[c] = IF ph.ref[c] = 0 THEN 0 ELSE ph.ref[c] - 1
           /\ \A d \in PowerClients : /\ ph.ref[d] \in Nat
                                      /\ (d # c => ph'.ref[d] = ph.ref[d])
                                      /\ (ph'.ref[d] > 0 => ph'.cur)
PROOF
  <1>1. ph \in PowerHandles(PowerClients) /\ (ph.cur <=> ph.res)
    BY Types DEF Base, PowOK
  <1>2. \A d \in PowerClients : ph.ref[d] \in Nat
    BY <1>1 DEF PowerHandles
  <1>. QED
    BY <1>1, <1>2, PowerOff

\* A thread without rc_lock has no part in the encoder's votes.
LEMMA OutsideRc ==
    ASSUME Base
    PROVE  /\ lock["rc"] # "disp" => pc["disp"] \notin EncLabels /\ Eff("disp") \notin EncLabels
           /\ lock["rc"] # "rc" => pc["rc"] = "idle" /\ Eff("rc") = "idle"
PROOF
  <1>1. lock["rc"] # "disp" => pc["disp"] \notin EncLabels
    BY DEF Base, EncOK, EncLabels
  <1>2. lock["rc"] # "rc" => pc["rc"] = "idle"
    BY DEF Base, EncOK
  <1>3. "idle" \notin DOMAIN Calls
    BY CallsTable
  <1>4. lock["rc"] # "rc" => Eff("rc") = "idle"
    BY <1>2, <1>3, EffHere DEF Threads
  <1>5. ASSUME pc["disp"] \notin EncLabels PROVE Eff("disp") \notin EncLabels
    <2>1. CASE pc["disp"] \in DOMAIN Calls
      BY <1>5, <2>1, CallEnds DEF Eff, EncLabels
    <2>2. CASE pc["disp"] \notin DOMAIN Calls
      BY <1>5, <2>2, EffHere DEF Threads
    <2>. QED
      BY <2>1, <2>2
  <1>. QED
    BY <1>1, <1>2, <1>4, <1>5

\* A step of the display thread or of the idle timer that leaves clocks, lanes and
\* panel alone.
LEMMA EncStep ==
    ASSUME IInv, NEW t \in {"disp", "rc"}, NEW l, Goto(t, l),
           UNCHANGED <<cfg, handle, mngr, upd, clk, io, panel>>,
           pc[t] \notin DOMAIN Calls, pc[t] # "force",
           t = "disp" => l \in DispLabels /\ l # "force",
           t = "rc" => l \in RcLabels,
           lock' \in LockType, lock'["panel"] = lock["panel"],
           ph' \in PowerHandles(PowerClients), enc' \in BOOLEAN,
           faults' \in 0 .. MaxFaults, faults' >= faults, EncOK', PowOK',
           faults' = 0 =>
               /\ t = "disp" =>
                    /\ \A k \in Clks : Held(l, k) = Held(pc["disp"], k)
                    /\ l \notin DispFailed
                    /\ l \notin {"post_enable", "pre_disable"} \cup Blank
               /\ l # "rc_refused" /\ (MdpHeld' <=> MdpHeld) /\ PowExact'
    PROVE  IInv'
PROOF
  <1>0. Base /\ TypeOK /\ PanelLock
    BY DEF IInv, Base
  <1>1. t \in Threads /\ t # "panel" /\ t # "dbg"
    BY DEF Threads
  <1>2. l # "force"
    BY DEF RcLabels
  <1>3. Base'
    <2>1. io' \in IoType /\ panel' \in PanelType /\ (panel.rate => panel'.rate)
      BY <1>0, Types
    <2>. QED
      BY <1>0, <1>1, <1>2, <2>1, StepBase
  <1>4. pc'[t] = l /\ \A u \in Threads : u # t => pc'[u] = pc[u]
    BY <1>0, <1>1, Types DEF Goto
  <1>5. PanelLock'
    BY <1>0, <1>2, <1>4 DEF PanelLock, Threads
  <1>6. ASSUME faults' = 0
        PROVE  NoFailure' /\ RefsExact' /\ MngrExact' /\ ClkExact' /\ IoExact' /\ PowExact'
    <2>1. faults = 0
      BY <1>0, <1>6, Types
    <2>2. NoFailure /\ RefsExact /\ MngrExact /\ ClkExact /\ IoExact /\ PowExact
      BY <2>1, CleanParts
    <2>3. NoFailure'
      <3>1. CASE t = "disp"
        BY <1>4, <1>6, <2>2, <3>1 DEF NoFailure, Threads
      <3>2. CASE t = "rc"
        BY <1>4, <1>6, <2>2, <3>2 DEF NoFailure, Threads
      <3>. QED
        BY <3>1, <3>2
    <2>4. IoExact'
      BY <2>2 DEF IoExact
    <2>5. LinkHeld(l) => LinkHeld(pc[t]) \/ panel.splash
      <3>1. CASE t = "disp"
        BY <1>6, <3>1, HeldNat DEF b2n, Clks
      <3>2. CASE t = "rc"
        BY <3>2, HeldNat
      <3>. QED
        BY <3>1, <3>2
    <2>6. t # "rc" => \A k \in Clks : b2n(panel'.splash) + Held(l, k)
                                      = b2n(panel.splash) + Held(pc[t], k)
      BY <1>6
    <2>7. RefsExact' /\ MngrExact' /\ ClkExact'
      BY <1>0, <1>1, <1>6, <2>2, <2>5, <2>6, StepClean
    <2>. QED
      BY <1>6, <2>3, <2>4, <2>7
  <1>. QED
    BY <1>3, <1>5, <1>6 DEF IInv, Clean

\* The encoder votes for power.
LEMMA KeepsEncoderPower ==
    ASSUME IInv, NEW t \in {"disp", "rc"}, NEW at, NEW yes, NEW no,
           EncoderPower(t, at, yes, no),
           t = "disp" => at = "enc_start" /\ yes = "enc_vote" /\ no = "post",
           t = "rc" => at = "idle" /\ yes = "rc_vote" /\ no = "idle"
    PROVE  IInv'
PROOF
  <1>0. Base /\ TypeOK /\ EncOK /\ PowOK
    BY DEF IInv, Base
  <1>1. /\ pc[t] = at /\ ~enc /\ lock["rc"] = Free
        /\ UNCHANGED <<cfg, handle, mngr, upd, clk, io, panel, enc>>
    BY DEF EncoderPower, votes
  <1>2. /\ pc[t] \notin DOMAIN Calls /\ pc[t] # "force" /\ t \in Threads
        /\ "disp" \in Threads /\ "rc" \in Threads
    BY <1>1, CallsTable DEF Threads
  <1>3. /\ pc["rc"] = "idle" /\ Eff("rc") = "idle" /\ pc["disp"] \notin EncLabels
        /\ Eff("disp") \notin EncLabels
    BY <1>0, <1>1, OutsideRc DEF Free
  <1>4. ~EncPower /\ ~MdpHeld
    BY <1>1, <1>3 DEF EncPower, MdpHeld, EncLabels
  <1>c. "core" \in PowerClients /\ "dsi" \in PowerClients /\ "splash" \in PowerClients
    BY DEF PowerClients
  <1>l. pc \in [Threads -> Labels] /\ lock \in LockType /\ enc \in BOOLEAN /\ faults \in Nat
    BY <1>0, Types
  <1>5. CASE /\ ph' = sde_power_resource_enable(ph, "core", TRUE)
             /\ Goto(t, yes) /\ Take(t, "rc") /\ Works
    <2>1. /\ ph' \in PowerHandles(PowerClients) /\ ph'.cur /\ ph'.res
          /\ ph'.ref["core"] = ph.ref["core"] + 1 /\ ph'.ref["dsi"] = ph.ref["dsi"]
          /\ ph'.ref["splash"] = ph.ref["splash"] /\ ph.ref["core"] \in Nat
      BY <1>0, <1>5, <1>c, PowerUp
    <2>2. lock' \in LockType /\ lock'["rc"] = t /\ lock'["panel"] = lock["panel"]
      BY <1>2, <1>5, <1>l, TakeLock
    <2>3. pc'[t] = yes /\ \A u \in Threads : u # t => pc'[u] = pc[u]
      BY <1>2, <1>5, <1>l DEF Goto
    <2>4. EncOK'
      BY <1>1, <1>2, <1>3, <2>2, <2>3 DEF EncOK, EncLabels
    <2>5. EncPower' /\ (Commit' <=> Commit)
      BY <1>1, <1>2, <2>3 DEF EncPower, Commit
    <2>6. PowOK'
      <3>1. pc'["disp"] \in {"splash_off", "splash_done"} => panel'.splash
        BY <1>0, <1>1, <1>2, <2>3 DEF PowOK
      <3>. QED
        BY <1>0, <1>1, <1>4, <2>1, <2>5, <3>1 DEF PowOK, b2n
    <2>7. faults' \in 0 .. MaxFaults /\ faults' >= faults
      BY <1>0, <1>5, <1>l, FaultCount
    <2>8. MdpHeld' <=> MdpHeld
      <3>1. Eff(t)' = yes /\ \A u \in Threads : u # t => Eff(u)' = Eff(u)
        BY <1>0, <1>1, <1>2, <1>5, EffMoves
      <3>. QED
        BY <1>1, <1>2, <1>3, <1>4, <3>1 DEF MdpHeld, EncLabels
    <2>9. faults' = 0 => PowExact'
      <3>1. PowExact \/ faults' # 0
        BY <1>l, <2>7, CleanParts
      <3>. QED
        BY <1>1, <1>4, <2>1, <2>5, <3>1 DEF PowExact, b2n
    <2>10. t = "disp" => \A k \in Clks : Held(yes, k) = Held(pc["disp"], k)
      BY <1>1 DEF Held, CoreHeld, LinkHeld, VideoOn, b2n
    <2>11. /\ t = "disp" => yes \in DispLabels /\ yes # "force" /\ yes \notin DispFailed
           /\ t = "rc" => yes \in RcLabels
           /\ yes # "rc_refused"
           /\ t = "disp" => yes \notin {"post_enable", "pre_disable"} \cup Blank
      BY DEF DispLabels, DispFailed, RcLabels, Blank
    <2>. QED
      BY <1>1, <1>2, <1>5, <1>l, <2>1, <2>2, <2>4, <2>6, <2>7, <2>8, <2>9, <2>10, <2>11, EncStep
  <1>6. CASE /\ Fails("power") /\ _resource_changed(ph, "core", TRUE)
             /\ ph' = sde_power_resource_enable_fails(ph, "core")
             /\ Goto(t, no) /\ UNCHANGED lock
    <2>0. faults' \in 0 .. MaxFaults /\ faults' >= faults /\ faults' # 0
      BY <1>0, <1>6, <1>l, FaultCount
    <2>p. ph \in PowerHandles(PowerClients) /\ (ph.cur <=> ph.res)
      BY <1>0, Types DEF PowOK
    <2>q. ~ph.cur
      BY <1>6, <1>c, <2>p, PowerSwitches
    <2>e. ph' = sde_power_resource_enable_fails(ph, "core")
      BY <1>6
    <2>1. /\ ph' \in PowerHandles(PowerClients) /\ ~ph'.cur /\ ~ph'.res
          /\ ph'.ref["core"] = ph.ref["core"] + 1 /\ ph'.ref["dsi"] = ph.ref["dsi"]
          /\ ph'.ref["splash"] = ph.ref["splash"] /\ ph.ref["core"] \in Nat
      <3>1. ph.ref["core"] \in Nat
        BY <1>c, <2>p DEF PowerHandles
      <3>2. /\ ph' \in PowerHandles(PowerClients) /\ ~ph'.cur /\ ~ph'.res
            /\ ph'.ref["core"] = ph.ref["core"] + 1
            /\ \A d \in PowerClients : d # "core" => ph'.ref[d] = ph.ref[d]
        BY <1>0, <1>c, <2>q, <2>e, PowerLost
      <3>. QED
        BY <1>c, <3>1, <3>2
    <2>3. pc'[t] = no /\ \A u \in Threads : u # t => pc'[u] = pc[u]
      BY <1>2, <1>6, <1>l DEF Goto
    <2>4. EncOK'
      BY <1>0, <1>1, <1>2, <1>3, <1>6, <2>3 DEF EncOK, EncLabels
    <2>5. ~EncPower' /\ (Commit' <=> Commit)
      BY <1>1, <1>2, <1>3, <2>3 DEF EncPower, Commit, EncLabels
    <2>6. PowOK'
      <3>1. pc'["disp"] \in {"splash_off", "splash_done"} => panel'.splash
        BY <1>0, <1>1, <1>2, <2>3 DEF PowOK
      <3>. QED
        BY <1>0, <1>1, <1>4, <2>1, <2>q, <2>5, <3>1 DEF PowOK, b2n
    <2>11. /\ t = "disp" => no \in DispLabels /\ no # "force"
           /\ t = "rc" => no \in RcLabels
      BY DEF DispLabels, DispFailed, RcLabels, Blank
    <2>. QED
      BY <1>1, <1>2, <1>6, <1>l, <2>0, <2>1, <2>4, <2>6, <2>11, EncStep
  <1>. QED
    BY <1>5, <1>6 DEF EncoderPower

\* The encoder has its votes.
LEMMA KeepsEncoderVoted ==
    ASSUME IInv, NEW t \in {"disp", "rc"}, NEW at, NEW next, EncoderVoted(t, at, next),
           t = "disp" => at = "enc_voted" /\ next = "post",
           t = "rc" => at = "rc_voted" /\ next = "idle"
    PROVE  IInv'
PROOF
  <1>0. Base /\ TypeOK /\ EncOK /\ PowOK
    BY DEF IInv, Base
  <1>1. /\ pc[t] = at /\ Goto(t, next) /\ Drop("rc") /\ enc'
        /\ UNCHANGED <<cfg, handle, mngr, upd, clk, io, ph, panel, faults>>
    BY DEF EncoderVoted, votes
  <1>2. /\ pc[t] \notin DOMAIN Calls /\ pc[t] # "force" /\ t \in Threads
        /\ "disp" \in Threads /\ "rc" \in Threads /\ lock["rc"] = t /\ ~enc
    BY <1>0, <1>1, CallsTable DEF Threads, EncOK
  <1>3. /\ t = "disp" => pc["rc"] = "idle" /\ Eff("rc") = "idle"
        /\ t = "rc" => pc["disp"] \notin EncLabels /\ Eff("disp") \notin EncLabels
    BY <1>0, <1>2, OutsideRc
  <1>l. /\ pc \in [Threads -> Labels] /\ lock \in LockType /\ ph \in PowerHandles(PowerClients)
        /\ faults' \in 0 .. MaxFaults /\ faults' >= faults
    BY <1>0, <1>1, Types
  <1>b. enc' \in BOOLEAN
    BY DEF EncoderVoted
  <1>4. lock' \in LockType /\ lock'["rc"] = Free /\ lock'["panel"] = lock["panel"]
    BY <1>1, <1>l, DropLock
  <1>5. pc'[t] = next /\ \A u \in Threads : u # t => pc'[u] = pc[u]
    BY <1>1, <1>2, <1>l DEF Goto
  <1>6. EncOK'
    BY <1>1, <1>2, <1>3, <1>4, <1>5 DEF EncOK, EncLabels
  <1>7. EncPower /\ EncPower' /\ (Commit' <=> Commit)
    BY <1>1, <1>2, <1>5 DEF EncPower, Commit
  <1>8. PowOK'
    <2>1. pc'["disp"] \in {"splash_off", "splash_done"} => panel'.splash
      BY <1>0, <1>1, <1>2, <1>5 DEF PowOK
    <2>. QED
      BY <1>0, <1>1, <1>7, <2>1 DEF PowOK, b2n
  <1>9. MdpHeld' <=> MdpHeld
    <2>1. /\ Eff(t) = at /\ Eff(t)' = next
          /\ \A u \in Threads : u # t => Eff(u)' = Eff(u)
      BY <1>0, <1>1, <1>2, EffMoves
    <2>. QED
      BY <1>1, <1>2, <1>3, <2>1 DEF MdpHeld, EncLabels
  <1>10. faults' = 0 => PowExact'
    <2>1. PowExact \/ faults' # 0
      BY <1>1, CleanParts
    <2>. QED
      BY <1>1, <1>7, <2>1 DEF PowExact, b2n
  <1>11. t = "disp" => \A k \in Clks : Held(next, k) = Held(pc["disp"], k)
    BY <1>1 DEF Held, CoreHeld, LinkHeld, VideoOn, b2n
  <1>12. /\ t = "disp" => next \in DispLabels /\ next # "force" /\ next \notin DispFailed
         /\ t = "rc" => next \in RcLabels
         /\ next # "rc_refused"
         /\ t = "disp" => next \notin {"post_enable", "pre_disable"} \cup Blank
    BY DEF DispLabels, DispFailed, RcLabels, Blank
  <1>. QED
    BY <1>1, <1>2, <1>b, <1>l, <1>4, <1>6, <1>8, <1>9, <1>10, <1>11, <1>12, EncStep

\* The encoder returns its power vote.
LEMMA KeepsEncoderUnpower ==
    ASSUME IInv, NEW t \in {"disp", "rc"}, NEW at, NEW next, EncoderUnpower(t, at, next),
           t = "disp" => \/ at = "enc_refused" /\ next = "post"
                         \/ at = "enc_unvoted" /\ next = "post_disable",
           t = "rc" => at \in {"rc_refused", "rc_unvoted"} /\ next = "idle"
    PROVE  IInv'
PROOF
  <1>0. Base /\ TypeOK /\ EncOK /\ PowOK
    BY DEF IInv, Base
  <1>1. /\ pc[t] = at /\ Goto(t, next) /\ Drop("rc") /\ ~enc'
        /\ ph' = sde_power_resource_enable(ph, "core", FALSE)
        /\ UNCHANGED <<cfg, handle, mngr, upd, clk, io, panel, faults>>
    BY DEF EncoderUnpower, votes
  <1>u. UNCHANGED <<mngr, panel, faults>>
    BY <1>1
  <1>2. /\ pc[t] \notin DOMAIN Calls /\ pc[t] # "force" /\ t \in Threads
        /\ "disp" \in Threads /\ "rc" \in Threads /\ lock["rc"] = t
    BY <1>0, <1>1, CallsTable DEF Threads, EncOK
  <1>3. /\ t = "disp" => pc["rc"] = "idle" /\ Eff("rc") = "idle"
        /\ t = "rc" => pc["disp"] \notin EncLabels /\ Eff("disp") \notin EncLabels
    BY <1>0, <1>2, OutsideRc
  <1>l. /\ pc \in [Threads -> Labels] /\ lock \in LockType
        /\ faults' \in 0 .. MaxFaults /\ faults' >= faults
    BY <1>0, <1>1, Types
  <1>b. enc' \in BOOLEAN
    BY DEF EncoderUnpower
  <1>4. lock' \in LockType /\ lock'["rc"] = Free /\ lock'["panel"] = lock["panel"]
    BY <1>1, <1>l, DropLock
  <1>5. pc'[t] = next /\ \A u \in Threads : u # t => pc'[u] = pc[u]
    BY <1>1, <1>2, <1>l DEF Goto
  <1>6. EncOK'
    BY <1>1, <1>2, <1>3, <1>4, <1>5 DEF EncOK, EncLabels
  <1>7. EncPower /\ ~EncPower' /\ (Commit' <=> Commit)
    <2>1. EncPower
      BY <1>0, <1>1, <1>2 DEF EncPower, EncOK
    <2>2. ~EncPower' /\ (Commit' <=> Commit)
      BY <1>1, <1>2, <1>3, <1>5 DEF EncPower, Commit, EncLabels
    <2>. QED
      BY <2>1, <2>2
  <1>c. "core" \in PowerClients /\ "dsi" \in PowerClients /\ "splash" \in PowerClients
    BY DEF PowerClients
  <1>p. /\ ph' \in PowerHandles(PowerClients) /\ (ph'.cur <=> ph'.res)
        /\ ph.ref["core"] \in Nat /\ ph.ref["dsi"] \in Nat /\ ph.ref["splash"] \in Nat
        /\ ph'.ref["core"] = IF ph.ref["core"] = 0 THEN 0 ELSE ph.ref["core"] - 1
        /\ ph'.ref["dsi"] = ph.ref["dsi"] /\ ph'.ref["splash"] = ph.ref["splash"]
        /\ ph'.ref["core"] > 0 \/ ph'.ref["dsi"] > 0 \/ ph'.ref["splash"] > 0 => ph'.cur
    <2>1. ph.cur
      BY <1>0, <1>7 DEF PowOK
    <2>. QED
      BY <1>0, <1>1, <1>c, <2>1, PowerDown
  <1>8. PowOK'
    <2>1. pc'["disp"] \in {"splash_off", "splash_done"} => panel'.splash
      BY <1>0, <1>1, <1>2, <1>5 DEF PowOK
    <2>. QED
      BY <1>0, <1>u, <1>7, <1>p, <2>1 DEF PowOK, b2n
  <1>9. faults' = 0 => (MdpHeld' <=> MdpHeld)
    <2>1. /\ Eff(t) = at /\ Eff(t)' = next
          /\ \A u \in Threads : u # t => Eff(u)' = Eff(u)
      BY <1>0, <1>1, <1>2, EffMoves
    <2>2. faults' = 0 => NoFailure
      BY <1>1, CleanParts
    <2>. QED
      BY <1>1, <1>2, <1>3, <2>1, <2>2 DEF MdpHeld, EncLabels, NoFailure, DispFailed
  <1>10. faults' = 0 => PowExact'
    <2>1. PowExact \/ faults' # 0
      BY <1>1, CleanParts
    <2>. QED
      BY <1>u, <1>7, <1>p, <2>1 DEF PowExact, b2n
  <1>11. t = "disp" /\ faults' = 0 => \A k \in Clks : Held(next, k) = Held(pc["disp"], k)
    <2>1. faults' = 0 => NoFailure
      BY <1>1, CleanParts
    <2>. QED
      BY <1>1, <2>1 DEF Held, CoreHeld, LinkHeld, VideoOn, b2n, NoFailure, DispFailed
  <1>12. /\ t = "disp" => next \in DispLabels /\ next # "force" /\ next \notin DispFailed
         /\ t = "rc" => next \in RcLabels
         /\ next # "rc_refused"
         /\ t = "disp" => next \notin {"post_enable", "pre_disable"} \cup Blank
    BY DEF DispLabels, DispFailed, RcLabels, Blank
  <1>. QED
    BY <1>1, <1>2, <1>b, <1>l, <1>p, <1>4, <1>6, <1>8, <1>9, <1>10, <1>11, <1>12, EncStep

\* The encoder's STOP.
LEMMA KeepsEncoderStop ==
    ASSUME IInv, EncoderStop
    PROVE  IInv'
PROOF
  <1>0. Base /\ TypeOK /\ EncOK /\ PowOK
    BY DEF IInv, Base
  <1>. DEFINE l == IF enc THEN "enc_unvote" ELSE "post_disable"
  <1>1. /\ pc["disp"] = "stop" /\ Goto("disp", l) /\ lock["rc"] = Free
        /\ UNCHANGED <<cfg, handle, mngr, upd, clk, io, ph, panel, enc, faults>>
    BY DEF EncoderStop, At, Step, votes
  <1>2. /\ pc["disp"] \notin DOMAIN Calls /\ "disp" \in Threads /\ "rc" \in Threads
    BY <1>1, CallsTable DEF Threads
  <1>3. pc["rc"] = "idle" /\ Eff("rc") = "idle"
    BY <1>0, <1>1, OutsideRc DEF Free
  <1>l. /\ pc \in [Threads -> Labels] /\ lock \in LockType /\ ph \in PowerHandles(PowerClients)
        /\ enc \in BOOLEAN /\ faults' \in 0 .. MaxFaults /\ faults' >= faults
    BY <1>0, <1>1, Types
  <1>4. /\ lock' \in LockType /\ (enc => lock'["rc"] = "disp")
        /\ lock'["panel"] = lock["panel"]
    <2>1. lock' = [lock EXCEPT !["display"] = IF @ = "disp" THEN Free ELSE @,
                               !["rc"] = IF enc THEN "disp" ELSE Free]
      BY DEF EncoderStop
    <2>. QED
      BY <1>2, <1>l, <2>1 DEF LockType
  <1>5. pc'["disp"] = l /\ \A u \in Threads : u # "disp" => pc'[u] = pc[u]
    BY <1>1, <1>2, <1>l DEF Goto
  <1>6. EncOK'
    BY <1>1, <1>2, <1>3, <1>4, <1>5 DEF EncOK
  <1>7. (EncPower' <=> EncPower) /\ (Commit' <=> Commit)
    BY <1>1, <1>2, <1>5 DEF EncPower, Commit
  <1>8. PowOK'
    BY <1>0, <1>1, <1>5, <1>7 DEF PowOK, b2n
  <1>9. MdpHeld' <=> MdpHeld
    <2>1. /\ Eff("disp") = "stop" /\ Eff("disp")' = l /\ Eff("rc")' = Eff("rc")
      BY <1>0, <1>1, <1>2, EffMoves
    <2>. QED
      BY <1>1, <1>3, <2>1 DEF MdpHeld
  <1>10. faults' = 0 => PowExact'
    <2>1. PowExact \/ faults' # 0
      BY <1>1, CleanParts
    <2>. QED
      BY <1>1, <1>7, <2>1 DEF PowExact, b2n
  <1>11. \A k \in Clks : Held(l, k) = Held(pc["disp"], k)
    BY <1>1 DEF Held, CoreHeld, LinkHeld, VideoOn, b2n
  <1>12. /\ l \in DispLabels /\ l # "force" /\ l \notin DispFailed
         /\ l # "rc_refused"
         /\ l \notin {"post_enable", "pre_disable"} \cup Blank
    BY DEF DispLabels, DispFailed, Blank
  <1>. HIDE DEF l
  <1>. QED
    BY <1>1, <1>2, <1>l, <1>4, <1>6, <1>8, <1>9, <1>10, <1>11, <1>12, EncStep

\* The idle timer.
LEMMA KeepsRcIdle ==
    ASSUME IInv, RcIdle
    PROVE  IInv'
PROOF
  <1>0. Base /\ TypeOK /\ EncOK /\ PowOK
    BY DEF IInv, Base
  <1>1. /\ pc["rc"] = "idle" /\ Goto("rc", "rc_unvote") /\ Take("rc", "rc") /\ enc
        /\ pc["disp"] \in {"on", "kick", "kicked"}
        /\ UNCHANGED <<cfg, handle, mngr, upd, clk, io, ph, panel, enc, faults>>
    BY DEF RcIdle, votes
  <1>2. /\ pc["rc"] \notin DOMAIN Calls /\ "disp" \in Threads /\ "rc" \in Threads
        /\ pc["rc"] # "force"
    BY <1>1, CallsTable DEF Threads
  <1>l. /\ pc \in [Threads -> Labels] /\ lock \in LockType /\ ph \in PowerHandles(PowerClients)
        /\ enc \in BOOLEAN /\ faults' \in 0 .. MaxFaults /\ faults' >= faults
    BY <1>0, <1>1, Types
  <1>4. lock' \in LockType /\ lock'["rc"] = "rc" /\ lock'["panel"] = lock["panel"]
    BY <1>1, <1>2, <1>l, TakeLock
  <1>5. pc'["rc"] = "rc_unvote" /\ \A u \in Threads : u # "rc" => pc'[u] = pc[u]
    BY <1>1, <1>2, <1>l DEF Goto
  <1>6. EncOK'
    BY <1>1, <1>2, <1>4, <1>5 DEF EncOK
  <1>7. (EncPower' <=> EncPower) /\ (Commit' <=> Commit)
    BY <1>1, <1>2, <1>5 DEF EncPower, Commit
  <1>8. PowOK'
    BY <1>0, <1>1, <1>2, <1>5, <1>7 DEF PowOK, b2n
  <1>9. MdpHeld' <=> MdpHeld
    <2>1. /\ Eff("rc") = "idle" /\ Eff("rc")' = "rc_unvote" /\ Eff("disp")' = Eff("disp")
      BY <1>0, <1>1, <1>2, EffMoves
    <2>. QED
      BY <1>1, <2>1 DEF MdpHeld
  <1>10. faults' = 0 => PowExact'
    <2>1. PowExact \/ faults' # 0
      BY <1>1, CleanParts
    <2>. QED
      BY <1>1, <1>7, <2>1 DEF PowExact, b2n
  <1>11. "rc_unvote" \in RcLabels
    BY DEF RcLabels
  <1>. QED
    BY <1>1, <1>2, <1>l, <1>4, <1>6, <1>8, <1>9, <1>10, <1>11, EncStep

\* The boot picture's votes are returned.
LEMMA KeepsSplashCleanup ==
    ASSUME IInv, dsi_display_splash_res_cleanup
    PROVE  IInv'
PROOF
  <1>0. Base /\ TypeOK /\ PanelLock /\ EncOK /\ PowOK
    BY DEF IInv, Base
  <1>1. /\ pc["disp"] = "splash_done" /\ Goto("disp", "enc_start")
        /\ UNCHANGED <<cfg, handle, mngr, upd, clk, io, lock, enc, faults>>
    BY DEF dsi_display_splash_res_cleanup, At, Step, votes
  <1>2. panel.splash /\ ph.cur
    BY <1>0, <1>1 DEF PowOK
  <1>3. /\ panel' \in PanelType /\ panel'.rate = panel.rate /\ panel'.kms = panel.kms
        /\ ~panel'.splash /\ panel'.init /\ panel'.esd = panel.esd
    BY <1>0, Types DEF dsi_display_splash_res_cleanup, PanelType
  <1>c. "core" \in PowerClients /\ "dsi" \in PowerClients /\ "splash" \in PowerClients
    BY DEF PowerClients
  <1>p. /\ ph' \in PowerHandles(PowerClients) /\ (ph'.cur <=> ph'.res)
        /\ ph.ref["core"] \in Nat /\ ph.ref["dsi"] \in Nat /\ ph.ref["splash"] \in Nat
        /\ ph'.ref["splash"] = IF ph.ref["splash"] = 0 THEN 0 ELSE ph.ref["splash"] - 1
        /\ ph'.ref["dsi"] = ph.ref["dsi"] /\ ph'.ref["core"] = ph.ref["core"]
        /\ ph'.ref["core"] > 0 \/ ph'.ref["dsi"] > 0 \/ ph'.ref["splash"] > 0 => ph'.cur
    <2>1. ph' = sde_power_resource_enable(ph, "splash", FALSE)
      BY DEF dsi_display_splash_res_cleanup
    <2>. QED
      BY <1>0, <1>2, <1>c, <2>1, PowerDown
  <1>4. /\ pc["disp"] \notin DOMAIN Calls /\ pc["disp"] # "force"
        /\ "enc_start" \in DispLabels /\ "disp" \in Threads /\ "rc" \in Threads
    BY <1>1, CallsTable DEF DispLabels, Threads
  <1>5. pc'["disp"] = "enc_start" /\ \A u \in Threads : u # "disp" => pc'[u] = pc[u]
    BY <1>0, <1>1, <1>4, Types DEF Goto
  <1>6. EncOK' /\ PanelLock'
    BY <1>0, <1>1, <1>4, <1>5 DEF EncOK, PanelLock, Threads
  <1>7. (EncPower' <=> EncPower) /\ Commit /\ Commit'
    BY <1>1, <1>4, <1>5 DEF EncPower, Commit
  <1>8. PowOK'
    <2>1. mngr' = mngr
      BY <1>1
    <2>. QED
      BY <1>0, <1>3, <1>5, <1>7, <1>p, <2>1 DEF PowOK, b2n
  <1>9. Base'
    <2>1. /\ lock' \in LockType /\ io' \in IoType /\ enc' \in BOOLEAN
          /\ faults' \in 0 .. MaxFaults /\ faults' >= faults
      BY <1>0, <1>1, Types
    <2>. QED
      BY <1>0, <1>1, <1>3, <1>4, <1>6, <1>8, <1>p, <2>1, StepBase
  <1>10. ASSUME faults' = 0
         PROVE  NoFailure' /\ RefsExact' /\ MngrExact' /\ ClkExact' /\ IoExact' /\ PowExact'
    <2>1. NoFailure /\ RefsExact /\ MngrExact /\ ClkExact /\ IoExact /\ PowExact
      BY <1>1, <1>10, CleanParts
    <2>2. NoFailure'
      BY <1>1, <1>3, <1>4, <1>5, <2>1 DEF NoFailure, Blank, DispFailed, Threads
    <2>3. IoExact'
      BY <1>1, <1>2, <1>3, <2>1 DEF IoExact
    <2>4. PowExact'
      <3>1. mngr' = mngr
        BY <1>1
      <3>. QED
        BY <1>2, <1>3, <1>7, <1>p, <2>1, <3>1 DEF PowExact, b2n
    <2>5. \A k \in Clks : b2n(panel'.splash) + Held("enc_start", k)
                          = b2n(panel.splash) + Held(pc["disp"], k)
      BY <1>1, <1>2, <1>3 DEF Held, CoreHeld, LinkHeld, VideoOn, b2n, Clks
    <2>6. MdpHeld' <=> MdpHeld
      <3>1. Eff("disp") = pc["disp"] /\ Eff("disp")' = "enc_start" /\ Eff("rc")' = Eff("rc")
        BY <1>0, <1>1, <1>4, EffMoves
      <3>. QED
        BY <1>1, <3>1 DEF MdpHeld
    <2>7. RefsExact' /\ MngrExact' /\ ClkExact'
      BY <1>0, <1>1, <1>2, <1>3, <1>4, <2>1, <2>5, <2>6, StepClean
    <2>. QED
      BY <2>2, <2>3, <2>4, <2>7
  <1>. QED
    BY <1>6, <1>9, <1>10 DEF IInv, Clean

\* What sde_kms_complete_commit does to the power handle.
LEMMA CommitPower ==
    ASSUME IInv, sde_kms_complete_commit
    PROVE  /\ ph' \in PowerHandles(PowerClients) /\ (ph'.cur <=> ph'.res)
           /\ panel' \in PanelType /\ panel'.rate = panel.rate
           /\ panel'.splash = panel.splash /\ panel'.init = panel.init
           /\ panel'.esd = panel.esd /\ (panel'.kms => panel.kms)
           /\ ph.ref["core"] \in Nat /\ ph.ref["dsi"] \in Nat /\ ph.ref["splash"] \in Nat
           /\ ph'.ref["dsi"] = ph.ref["dsi"] /\ ph'.ref["splash"] = ph.ref["splash"]
           /\ ~ph.cur => ph' = ph
           /\ ph.cur => /\ ph'.ref["core"] + b2n(panel.kms) + 1
                             = ph.ref["core"] + b2n(panel'.kms)
                        /\ \/ ph'.ref["core"] > 0 \/ ph'.ref["dsi"] > 0
                           \/ ph'.ref["splash"] > 0
                           => ph'.cur
PROOF
  <1>. DEFINE once == sde_power_resource_enable(ph, "core", FALSE)
              twice == sde_power_resource_enable(once, "core", FALSE)
              handoff == ph.cur /\ panel.kms /\ pc["disp"] # "disabled"
  <1>0. Base /\ TypeOK /\ PowOK
    BY DEF IInv, Base
  <1>1. /\ ph' = IF ~ph.cur THEN ph ELSE IF handoff THEN twice ELSE once
        /\ panel' = [panel EXCEPT !.kms = @ /\ ~handoff]
        /\ pc["disp"] \in {"enabled", "kicked", "disabled"}
    BY DEF sde_kms_complete_commit
  <1>2. panel \in PanelType /\ ph \in PowerHandles(PowerClients) /\ (ph.cur <=> ph.res)
    BY <1>0, Types DEF PowOK
  <1>3. handoff \in BOOLEAN
    OBVIOUS
  <1>c. "core" \in PowerClients /\ "dsi" \in PowerClients /\ "splash" \in PowerClients
    BY DEF PowerClients
  <1>r. /\ ph.ref["core"] \in Nat /\ ph.ref["dsi"] \in Nat /\ ph.ref["splash"] \in Nat
        /\ ph.ref["core"] >= b2n(panel.kms) + 1
    <2>1. ph.ref["core"] \in Nat /\ ph.ref["dsi"] \in Nat /\ ph.ref["splash"] \in Nat
      BY <1>2, <1>c DEF PowerHandles
    <2>2. Commit
      BY <1>1 DEF Commit
    <2>. QED
      BY <1>0, <2>1, <2>2 DEF PowOK, b2n
  <1>4. /\ panel' \in PanelType /\ panel'.rate = panel.rate
        /\ panel'.splash = panel.splash /\ panel'.init = panel.init
        /\ panel'.esd = panel.esd /\ (panel'.kms <=> panel.kms /\ ~handoff)
    <2>. HIDE DEF handoff
    <2>. QED
      BY <1>1, <1>2, <1>3 DEF PanelType
  <1>5. ph.cur =>
          /\ once \in PowerHandles(PowerClients) /\ (once.cur <=> once.res)
          /\ once.ref["core"] = ph.ref["core"] - 1
          /\ once.ref["dsi"] = ph.ref["dsi"] /\ once.ref["splash"] = ph.ref["splash"]
          /\ once.ref["core"] > 0 \/ once.ref["dsi"] > 0 \/ once.ref["splash"] > 0
             => once.cur
    <2>1. ph.cur =>
          /\ once \in PowerHandles(PowerClients) /\ (once.cur <=> once.res)
          /\ once.ref["core"] = IF ph.ref["core"] = 0 THEN 0 ELSE ph.ref["core"] - 1
          /\ \A d \in PowerClients : d # "core" => once.ref[d] = ph.ref[d]
          /\ \A d \in PowerClients : once.ref[d] > 0 => once.cur
      BY <1>2, <1>c, PowerOff
    <2>. HIDE DEF once
    <2>. QED
      BY <1>c, <1>r, <2>1 DEF b2n
  <1>6. CASE ~ph.cur
    BY <1>1, <1>2, <1>4, <1>6, <1>r
  <1>7. CASE ph.cur /\ ~handoff
    <2>1. ph' = once
      BY <1>1, <1>7
    <2>. HIDE DEF once, handoff
    <2>. QED
      BY <1>2, <1>4, <1>5, <1>7, <1>r, <2>1 DEF b2n
  <1>8. CASE handoff
    <2>1. ph' = twice /\ ph.cur /\ panel.kms
      BY <1>1, <1>8
    <2>2. once.ref["core"] > 0 /\ once.cur
      <3>. HIDE DEF once, handoff
      <3>. QED
        BY <1>5, <1>r, <2>1 DEF b2n
    <2>3. /\ twice \in PowerHandles(PowerClients) /\ (twice.cur <=> twice.res)
          /\ twice.ref["core"] = IF once.ref["core"] = 0 THEN 0 ELSE once.ref["core"] - 1
          /\ \A d \in PowerClients : d # "core" => twice.ref[d] = once.ref[d]
          /\ \A d \in PowerClients : twice.ref[d] > 0 => twice.cur
      <3>. HIDE DEF once, handoff
      <3>1. once \in PowerHandles(PowerClients) /\ (once.cur <=> once.res)
        BY <1>5, <2>1
      <3>. QED
        BY <1>c, <2>2, <3>1, PowerOff
    <2>. HIDE DEF once, twice, handoff
    <2>4. /\ twice.ref["core"] = ph.ref["core"] - 2
          /\ twice.ref["dsi"] = ph.ref["dsi"] /\ twice.ref["splash"] = ph.ref["splash"]
      BY <1>5, <1>c, <1>r, <2>1, <2>2, <2>3
    <2>. QED
      BY <1>4, <1>8, <1>c, <1>r, <2>1, <2>3, <2>4 DEF b2n
  <1>. QED
    BY <1>6, <1>7, <1>8

\* The end of a commit.
LEMMA KeepsCompleteCommit ==
    ASSUME IInv, sde_kms_complete_commit
    PROVE  IInv'
PROOF
  <1>0. Base /\ TypeOK /\ PanelLock /\ EncOK /\ PowOK
    BY DEF IInv, Base
  <1>. DEFINE l == IF pc["disp"] = "disabled" THEN "off" ELSE "on"
  <1>1. /\ pc["disp"] \in {"enabled", "kicked", "disabled"} /\ Goto("disp", l)
        /\ UNCHANGED <<cfg, handle, mngr, upd, clk, io, enc, faults>>
    BY DEF sde_kms_complete_commit, votes
  <1>p. /\ ph' \in PowerHandles(PowerClients) /\ (ph'.cur <=> ph'.res)
        /\ panel' \in PanelType /\ panel'.rate = panel.rate
        /\ panel'.splash = panel.splash /\ panel'.init = panel.init
        /\ panel'.esd = panel.esd /\ (panel'.kms => panel.kms)
        /\ ph.ref["core"] \in Nat /\ ph.ref["dsi"] \in Nat /\ ph.ref["splash"] \in Nat
        /\ ph'.ref["dsi"] = ph.ref["dsi"] /\ ph'.ref["splash"] = ph.ref["splash"]
        /\ ~ph.cur => ph' = ph
        /\ ph.cur => /\ ph'.ref["core"] + b2n(panel.kms) + 1
                          = ph.ref["core"] + b2n(panel'.kms)
                     /\ \/ ph'.ref["core"] > 0 \/ ph'.ref["dsi"] > 0
                        \/ ph'.ref["splash"] > 0
                        => ph'.cur
    BY CommitPower
  <1>r. ph'.ref["core"] \in Nat
    BY <1>p DEF PowerHandles, PowerClients
  <1>3. lock \in LockType /\ lock' \in LockType
        /\ \A m \in {"display", "panel", "rc"} : lock[m] # "disp" => lock'[m] = lock[m]
    <2>1. lock \in LockType
      BY <1>0, Types
    <2>2. lock' = [m \in DOMAIN lock |-> IF lock[m] = "disp" THEN Free ELSE lock[m]]
      BY DEF sde_kms_complete_commit
    <2>. QED
      BY <2>1, <2>2 DEF LockType
  <1>4. /\ pc["disp"] \notin DOMAIN Calls /\ pc["disp"] # "force" /\ l # "force"
        /\ l \in DispLabels /\ l \in {"off", "on"} /\ "disp" \in Threads /\ "rc" \in Threads
    BY <1>1, CallsTable DEF DispLabels, Threads
  <1>5. pc'["disp"] = l /\ \A u \in Threads : u # "disp" => pc'[u] = pc[u]
    BY <1>0, <1>1, <1>4, Types DEF Goto
  <1>6. EncOK' /\ PanelLock'
    BY <1>0, <1>1, <1>3, <1>4, <1>5 DEF EncOK, PanelLock, Threads
  <1>7. (EncPower' <=> EncPower) /\ Commit /\ ~Commit'
    BY <1>1, <1>4, <1>5 DEF EncPower, Commit
  <1>8. PowOK'
    <2>1. mngr' = mngr /\ pc'["disp"] \notin {"splash_off", "splash_done"}
      BY <1>1, <1>4, <1>5
    <2>2. CASE ph.cur
      BY <1>0, <1>p, <1>r, <1>7, <2>1, <2>2 DEF PowOK, b2n
    <2>3. CASE ~ph.cur
      <3>1. ph' = ph
        BY <1>p, <2>3
      <3>. QED
        BY <1>0, <1>p, <1>7, <2>1, <2>3, <3>1 DEF PowOK, b2n
    <2>. QED
      BY <2>2, <2>3
  <1>9. Base'
    <2>1. /\ io' \in IoType /\ enc' \in BOOLEAN
          /\ faults' \in 0 .. MaxFaults /\ faults' >= faults
      BY <1>0, <1>1, Types
    <2>. HIDE DEF l
    <2>. QED
      BY <1>0, <1>1, <1>3, <1>4, <1>6, <1>8, <1>p, <2>1, StepBase
  <1>10. ASSUME faults' = 0
         PROVE  NoFailure' /\ RefsExact' /\ MngrExact' /\ ClkExact' /\ IoExact' /\ PowExact'
    <2>1. NoFailure /\ RefsExact /\ MngrExact /\ ClkExact /\ IoExact /\ PowExact
      BY <1>1, <1>10, CleanParts
    <2>2. NoFailure'
      BY <1>1, <1>p, <1>4, <1>5, <2>1 DEF NoFailure, Blank, DispFailed, Threads
    <2>3. IoExact'
      BY <1>1, <1>p, <2>1 DEF IoExact
    <2>4. PowExact'
      <3>1. mngr' = mngr
        BY <1>1
      <3>. QED
        BY <1>p, <1>r, <1>7, <2>1, <3>1 DEF PowExact, b2n
    <2>5. \A k \in Clks : Held(l, k) = Held(pc["disp"], k)
      BY <1>0, <1>1, SameCfg DEF Held, CoreHeld, LinkHeld, VideoOn, b2n
    <2>. HIDE DEF l
    <2>6. MdpHeld' <=> MdpHeld
      <3>1. Eff("disp") = pc["disp"] /\ Eff("disp")' = l /\ Eff("rc")' = Eff("rc")
        BY <1>0, <1>1, <1>4, EffMoves
      <3>. QED
        BY <1>1, <1>4, <3>1 DEF MdpHeld
    <2>7. LinkHeld(l) => LinkHeld(pc["disp"])
      BY <2>5, HeldNat DEF b2n, Clks
    <2>8. RefsExact' /\ MngrExact' /\ ClkExact'
      BY <1>0, <1>1, <1>p, <1>4, <2>1, <2>5, <2>6, <2>7, StepClean
    <2>. QED
      BY <2>2, <2>3, <2>4, <2>8
  <1>. QED
    BY <1>6, <1>9, <1>10 DEF IInv, Clean

\* A frame, which may start a change of the clock rate.
LEMMA KeepsPreKickoff ==
    ASSUME IInv, dsi_display_pre_kickoff
    PROVE  IInv'
PROOF
  <1>0. /\ Base /\ TypeOK /\ LabelsOK /\ UpdOK /\ MngrOK /\ ClkOK /\ RefOn /\ EncOK
        /\ PowOK /\ PanelLock
    BY DEF IInv, Base
  <1>1. /\ pc["disp"] = "kick"
        /\ UNCHANGED <<cfg, handle, mngr, clk, io, ph, panel, enc, faults>>
    BY DEF dsi_display_pre_kickoff, PreKickoff, At
  <1>2. /\ pc["disp"] \notin DOMAIN Calls /\ pc["disp"] # "force" /\ "disp" \in Threads
        /\ "rc" \in Threads /\ "kicked" \in DispLabels /\ "force" \in DispLabels
    BY <1>1, CallsTable DEF DispLabels, Threads
  <1>l. /\ pc \in [Threads -> Labels] /\ lock \in LockType /\ ph \in PowerHandles(PowerClients)
        /\ enc \in BOOLEAN /\ faults' \in 0 .. MaxFaults /\ faults' >= faults
    BY <1>0, <1>1, Types
  <1>3. ASSUME NEW l \in {"kicked", "force"}, Goto("disp", l)
        PROVE  /\ pc' \in [Threads -> Labels] /\ pc'["disp"] = l
               /\ \A u \in Threads : u # "disp" => pc'[u] = pc[u]
               /\ EncPower' <=> EncPower
               /\ Commit /\ Commit'
               /\ PowOK'
               /\ PowExact => PowExact'
    <2>1. /\ pc' \in [Threads -> Labels] /\ pc'["disp"] = l
          /\ \A u \in Threads : u # "disp" => pc'[u] = pc[u]
      BY <1>2, <1>3, <1>l, GotoPc, ThreadLabels
    <2>2. (EncPower' <=> EncPower) /\ Commit /\ Commit'
      BY <1>1, <1>2, <2>1 DEF EncPower, Commit
    <2>3. PowOK'
      BY <1>0, <1>1, <2>1, <2>2 DEF PowOK, b2n
    <2>4. PowExact => PowExact'
      BY <1>1, <2>2 DEF PowExact, b2n
    <2>. QED
      BY <2>1, <2>2, <2>3, <2>4
  <1>4. CASE Goto("disp", "kicked") /\ UNCHANGED <<lock, upd>>
    <2>1. /\ pc'["disp"] = "kicked" /\ \A u \in Threads : u # "disp" => pc'[u] = pc[u]
          /\ PowOK' /\ (PowExact => PowExact')
      BY <1>3, <1>4
    <2>2. EncOK'
      BY <1>0, <1>1, <1>2, <1>4, <2>1 DEF EncOK
    <2>3. MdpHeld' <=> MdpHeld
      <3>1. Eff("disp") = pc["disp"] /\ Eff("disp")' = "kicked" /\ Eff("rc")' = Eff("rc")
        BY <1>0, <1>1, <1>2, <1>4, EffMoves
      <3>. QED
        BY <1>1, <3>1 DEF MdpHeld
    <2>4. faults' = 0 => PowExact'
      BY <1>1, <2>1, CleanParts
    <2>5. \A k \in Clks : Held("kicked", k) = Held(pc["disp"], k)
      BY <1>1 DEF Held, CoreHeld, LinkHeld, VideoOn, b2n
    <2>6. "kicked" \notin DispFailed /\ "kicked" \notin {"post_enable", "pre_disable"} \cup Blank
      BY DEF DispFailed, Blank
    <2>. QED
      BY <1>1, <1>2, <1>l, <1>4, <2>1, <2>2, <2>3, <2>4, <2>5, <2>6, EncStep
  <1>5. CASE /\ panel.rate /\ mngr["link"] /\ upd = NoUpdate
             /\ \A m \in {"display", "panel"} : lock[m] = Free
             /\ lock' = [m \in DOMAIN lock |->
                            IF m \in {"display", "panel"} THEN "disp" ELSE lock[m]]
             /\ upd' = [by |-> "disp", todo |-> Force2]
             /\ Goto("disp", "force")
    <2>1. /\ pc' \in [Threads -> Labels] /\ pc'["disp"] = "force"
          /\ \A u \in Threads : u # "disp" => pc'[u] = pc[u]
          /\ PowOK' /\ (PowExact => PowExact') /\ (EncPower' <=> EncPower)
      BY <1>3, <1>5
    <2>2. /\ lock' \in LockType /\ lock'["panel"] = "disp" /\ lock'["rc"] = lock["rc"]
          /\ lock["panel"] = Free
      BY <1>2, <1>5, <1>l DEF LockType
    <2>3. /\ upd'.by = "disp" /\ upd'.todo = Force2 /\ Force2 \in Todos /\ upd.todo = <<>>
          /\ upd.by = Free /\ upd' \in [by : Threads \cup {Free}, todo : Todos]
          /\ upd' # NoUpdate
      BY <1>2, <1>5, NoTodo, TodoKinds DEF Todos
    <2>4. /\ Forcing(Force2) /\ ~CoreGoesOn(Force2) /\ ~CoreGoesOff(Force2)
          /\ ~LinkGoesOn(Force2) /\ ~LinkGoesOff(Force2) /\ ~LpIsOn(Force2)
          /\ ~HsIsOff(Force2) /\ ~ForcedOff(Force2)
      BY TodoKinds
    <2>5. EncOK'
      BY <1>0, <1>1, <1>2, <2>1, <2>2 DEF EncOK
    <2>6. PanelLock'
      BY <1>0, <2>1, <2>2 DEF PanelLock, Threads, Free
    <2>7. TypeOK'
      <3>1. Force2 \in Seq(Switch)
        BY <2>3, TodoSeq
      <3>. QED
        BY <1>0, <1>1, <1>2, <2>1, <2>2, <2>3, <3>1 DEF TypeOK, LockType
    <2>8. LabelsOK'
      BY <1>0, <1>2, <2>1 DEF LabelsOK, Threads
    <2>9. UpdOK'
      BY <1>2, <2>1, <2>3, <2>4, TodoKinds DEF UpdOK
    <2>10. MngrOK' /\ ClkOK' /\ RefOn'
      <3>1. MngrOK'
        BY <1>1, <1>5, <2>3, <2>4 DEF MngrOK
      <3>2. ClkOK'
        BY <1>0, <1>1, <2>3, <2>4, NoTodo DEF ClkOK
      <3>3. RefOn'
        BY <1>0, <1>1 DEF RefOn
      <3>. QED
        BY <3>1, <3>2, <3>3
    <2>11. Base'
      BY <2>1, <2>5, <2>7, <2>8, <2>9, <2>10 DEF Base
    <2>12. ASSUME faults' = 0
           PROVE  NoFailure' /\ RefsExact' /\ MngrExact' /\ ClkExact' /\ IoExact' /\ PowExact'
      <3>1. NoFailure /\ RefsExact /\ MngrExact /\ ClkExact /\ IoExact /\ PowExact
        BY <1>1, <2>12, CleanParts
      <3>2. NoFailure'
        BY <1>1, <1>2, <2>1, <3>1 DEF NoFailure, Blank, DispFailed, Threads
      <3>3. IoExact' /\ ClkExact'
        BY <1>1, <2>3, <2>4, <3>1, NoTodo DEF IoExact, ClkExact
      <3>4. /\ \A u \in Threads : Eff(u) = pc[u] /\ Eff(u)' = pc'[u]
        BY <2>1, <2>3 DEF Eff, Threads, Free
      <3>5. /\ \A m, k : Held(m, k)' = Held(m, k)
            /\ \A k \in Clks : Held("force", k) = Held("kick", k)
        BY <1>1 DEF Held, CoreHeld, LinkHeld, VideoOn, b2n
      <3>6. MdpHeld' <=> MdpHeld
        BY <1>1, <1>2, <2>1, <3>4 DEF MdpHeld
      <3>7. RefsExact'
        <4>. SUFFICES ASSUME NEW k \in Clks
                      PROVE  /\ handle["dsi"][k].ref = b2n(panel'.splash)
                                  + Held(Eff("disp")', k) + Held(Eff("panel")', k)
                                  + Held(Eff("dbg")', k)
                             /\ handle["mdp"][k].ref = b2n(MdpHeld')
          BY <1>1, <3>5 DEF RefsExact
        <4>1. /\ Eff("disp")' = "force" /\ Eff("disp") = "kick"
              /\ Eff("panel")' = Eff("panel") /\ Eff("dbg")' = Eff("dbg")
          BY <1>1, <2>1, <3>4 DEF Threads
        <4>2. Held("force", k) = Held("kick", k)
          BY <3>5
        <4>3. panel' = panel
          BY <1>1
        <4>. QED
          BY <3>1, <3>6, <4>1, <4>2, <4>3 DEF RefsExact, b2n
      <3>8. MngrExact'
        <4>1. Want("core")' = Want("core") /\ Want("link")' = Want("link")
          BY <1>1 DEF Want
        <4>. QED
          BY <1>1, <1>5, <2>3, <2>4, <3>1, <4>1, NoTodo DEF MngrExact
      <3>. QED
        BY <2>1, <3>1, <3>2, <3>3, <3>7, <3>8
    <2>. QED
      BY <2>6, <2>11, <2>12 DEF IInv, Clean
  <1>. QED
    BY <1>4, <1>5 DEF dsi_display_pre_kickoff, PreKickoff, Force2
-----------------------------------------------------------------------------
(* A request for clocks.                                                   *)

\* Until the first failure, where a call leads.
LEMMA CallGoodEnd ==
    ASSUME NEW l \in DOMAIN Calls, l \notin DispFailed, l # "esd_off_bad"
    PROVE  /\ Calls[l].ok \notin DispFailed /\ Calls[l].ok # "rc_refused"
           /\ Calls[l].ok \notin {"esd_off_bad", "esd_bad", "post_enable", "pre_disable"}
           /\ Calls[l].ok \in Blank => l \in Blank
  BY CallsTable DEF DispFailed, Blank

\* The votes a thread holds change as its call asks for: the DSI client's.
LEMMA CallHolds ==
    ASSUME NEW l \in DOMAIN Calls, l \notin DispFailed, l # "esd_off_bad",
           l \in {"post_enable", "pre_disable"} => cfg.mode = "cmd",
           NEW k \in Clks
    PROVE  /\ Calls[l].h = "mdp" \/ k \notin Calls[l].clks =>
                  Held(Calls[l].ok, k) = Held(l, k)
           /\ Calls[l].h = "dsi" /\ k \in Calls[l].clks =>
                  Held(Calls[l].ok, k) = IF Calls[l].on THEN Held(l, k) + 1
                                                        ELSE Held(l, k) - 1
PROOF
  <1>1. CASE k = "core"
    BY <1>1, CallsTable DEF DispFailed, Held, CoreHeld, LinkHeld, VideoOn, b2n, Clks
  <1>2. CASE k = "link"
    BY <1>2, CallsTable DEF DispFailed, Held, LinkHeld, VideoOn, b2n, Clks
  <1>. QED
    BY <1>1, <1>2 DEF Clks

\* A thread returns from its call.
LEMMA CallReturns ==
    ASSUME Base, PanelLock, NEW t \in Threads, pc[t] \in DOMAIN Calls,
           NEW e \in {Calls[pc[t]].ok, Calls[pc[t]].fail}, Goto(t, e),
           UNCHANGED <<lock, enc>>
    PROVE  /\ pc' \in [Threads -> Labels] /\ LabelsOK' /\ EncOK' /\ PanelLock'
           /\ pc'[t] = e /\ \A u \in Threads : u # t => pc'[u] = pc[u]
           /\ EncPower' <=> EncPower
           /\ Commit' <=> Commit
           /\ pc'["disp"] \in {"splash_off", "splash_done"} =>
                  pc["disp"] \in {"splash_off", "splash_done"}
           /\ pc'["disp"] = "force" <=> pc["disp"] = "force"
PROOF
  <1>. DEFINE l == pc[t]
  <1>1. l \in DOMAIN Calls /\ e \in {Calls[l].ok, Calls[l].fail}
    OBVIOUS
  <1>2. l # "force" /\ e # "force" /\ e \in Labels
    BY <1>1, CallTypes
  <1>3. /\ pc' \in [Threads -> Labels] /\ pc'[t] = e
        /\ \A u \in Threads : u # t => pc'[u] = pc[u]
    BY <1>2, Types, GotoPc DEF Base
  <1>4. /\ l \in DispLabels => e \in DispLabels /\ e \notin {"off", "on"}
        /\ l \in RcLabels => e \in RcLabels /\ e # "idle"
        /\ l \in PanelLabels => e \in PanelLabels /\ e # "idle"
        /\ l \in DbgLabels => e \in DbgLabels
        /\ e \in {"enc_vote", "enc_voted", "enc_refused"} <=> l = "enc_vote"
        /\ e \in {"enc_unvote", "enc_unvoted"} <=> l = "enc_unvote"
        /\ e \in {"rc_vote", "rc_voted", "rc_refused"} <=> l = "rc_vote"
        /\ e \in {"rc_unvote", "rc_unvoted"} <=> l = "rc_unvote"
        /\ e \in {"splash_off", "splash_done"} <=> l = "splash_off"
    BY <1>1, CallEnds
  <1>5. l \notin {"off", "on", "idle", "enc_voted", "enc_refused", "enc_unvoted",
                  "rc_voted", "rc_refused", "rc_unvoted", "splash_done"}
    BY <1>1, CallsTable
  <1>. HIDE DEF l
  <1>6. pc[t] = l /\ LabelsOK /\ EncOK
    BY DEF l, Base
  <1>7. LabelsOK'
    BY <1>3, <1>4, <1>6 DEF LabelsOK, Threads
  <1>8. EncOK'
    <2>1. CASE t = "disp"
      BY <1>3, <1>4, <1>6, <2>1 DEF EncOK, Threads
    <2>2. CASE t = "rc"
      BY <1>3, <1>4, <1>5, <1>6, <2>2 DEF EncOK, Threads
    <2>3. CASE t \notin {"disp", "rc"}
      BY <1>3, <1>6, <2>3 DEF EncOK, Threads
    <2>. QED
      BY <2>1, <2>2, <2>3
  <1>9. PanelLock'
    BY <1>2, <1>3, <1>4, <1>5, <1>6 DEF PanelLock, Threads
  <1>10. (EncPower' <=> EncPower) /\ (Commit' <=> Commit)
    <2>1. CASE t = "disp"
      BY <1>3, <1>4, <1>5, <1>6, <2>1 DEF EncPower, Commit, Threads, LabelsOK
    <2>2. CASE t = "rc"
      BY <1>3, <1>4, <1>5, <1>6, <2>2 DEF EncPower, Commit, Threads
    <2>3. CASE t \notin {"disp", "rc"}
      BY <1>3, <1>6, <2>3 DEF EncPower, Commit, Threads
    <2>. QED
      BY <2>1, <2>2, <2>3
  <1>11. /\ pc'["disp"] \in {"splash_off", "splash_done"} =>
                pc["disp"] \in {"splash_off", "splash_done"}
         /\ pc'["disp"] = "force" <=> pc["disp"] = "force"
    BY <1>2, <1>3, <1>4, <1>6 DEF Threads
  <1>. QED
    BY <1>3, <1>7, <1>8, <1>9, <1>10, <1>11

\* Until the first failure, a thread that uses the link, and the boot picture, have
\* votes for it, and who wants the link wants core clocks.
LEMMA LinkWanted ==
    ASSUME Base, RefsExact
    PROVE  /\ \A u \in Threads : LinkHeld(Eff(u)) => Want("link")
           /\ panel.splash => Want("link")
           /\ Want("link") => Want("core")
PROOF
  <1>. DEFINE d(k) == handle["dsi"][k].ref
              m(k) == handle["mdp"][k].ref
  <1>1. \A k \in Clks : /\ d(k) = b2n(panel.splash) + Held(Eff("disp"), k)
                                   + Held(Eff("panel"), k) + Held(Eff("dbg"), k)
                        /\ m(k) = b2n(MdpHeld)
    BY DEF RefsExact
  <1>2. \A k \in Clks : Want(k) <=> d(k) > 0 \/ m(k) > 0
    BY DEF Base, RefOn, Want, Handles
  <1>3. /\ \A l, k : Held(l, k) \in Nat /\ (LinkHeld(l) => Held(l, k) > 0)
        /\ \A l : Held(l, "link") <= Held(l, "core")
    BY HeldNat
  <1>4. ~LinkHeld(Eff("rc"))
    <2>1. CASE pc["rc"] \in DOMAIN Calls
      <3>1. Eff("rc") \in RcLabels
        BY <2>1, CallEnds DEF Eff, Base, LabelsOK
      <3>. QED
        BY <3>1, HeldNat
    <2>2. CASE pc["rc"] \notin DOMAIN Calls
      <3>1. Eff("rc") = pc["rc"] /\ pc["rc"] \in RcLabels
        BY <2>2, EffHere DEF Threads, Base, LabelsOK
      <3>. QED
        BY <3>1, HeldNat
    <2>. QED
      BY <2>1, <2>2
  <1>5. "core" \in Clks /\ "link" \in Clks /\ b2n(panel.splash) \in Nat
    BY DEF Clks, b2n
  <1>. HIDE DEF d, m
  <1>6. \A u \in Threads : LinkHeld(Eff(u)) => Want("link")
    BY <1>1, <1>2, <1>3, <1>4, <1>5 DEF Threads
  <1>7. panel.splash => Want("link")
    BY <1>1, <1>2, <1>3, <1>5 DEF b2n
  <1>8. Want("link") => Want("core")
    BY <1>1, <1>2, <1>3, <1>5
  <1>. QED
    BY <1>6, <1>7, <1>8

LinkUsersWant ==
    /\ \A u \in Threads : LinkHeld(Eff(u)) => Want("link")
    /\ panel.splash => Want("link")
    /\ Want("link") => Want("core")

\* The same in the next state.
LEMMA LinkWantedNext == Base' /\ RefsExact' => LinkUsersWant'
PROOF
  <1>1. Base /\ RefsExact => LinkUsersWant
    BY LinkWanted DEF LinkUsersWant
  <1>. QED
    BY <1>1, PTL

\* What a request does to the votes, and what it leaves to be switched.
LEMMA Requested ==
    ASSUME Base, NEW t \in Threads, dsi_clk_req_state(t)
    PROVE  LET c == Calls[pc[t]]
           IN  /\ handle' \in [Handles -> [Clks -> [ref : Nat, on : BOOLEAN]]]
               /\ RefOn'
               /\ \A h \in Handles, k \in Clks :
                     /\ h # c.h \/ k \notin c.clks => handle'[h][k] = handle[h][k]
                     /\ h = c.h /\ k \in c.clks => handle'[h][k] = Vote(handle[h][k], c.on)
               /\ \E todo \in Todos :
                     /\ ~Forcing(todo) /\ ~LpIsOn(todo) /\ ~HsIsOff(todo) /\ ~ForcedOff(todo)
                     /\ CoreGoesOn(todo) => Want("core")' /\ ~mngr["core"]
                     /\ CoreGoesOff(todo) => ~Want("core")' /\ mngr["core"]
                     /\ LinkGoesOn(todo) => Want("link")' /\ ~mngr["link"]
                     /\ LinkGoesOff(todo) => ~Want("link")' /\ mngr["link"]
                     /\ \/ (Want("core")' <=> Want("core")) /\ (Want("link")' <=> Want("link"))
                           /\ todo = <<>>
                        \/ /\ CoreGoesOn(todo) <=> Want("core")' /\ ~mngr["core"]
                           /\ CoreGoesOff(todo) <=> ~Want("core")' /\ mngr["core"]
                           /\ LinkGoesOn(todo) <=> Want("link")' /\ ~mngr["link"]
                           /\ LinkGoesOff(todo) <=> ~Want("link")' /\ mngr["link"]
                     /\ \/ todo = <<>> /\ Goto(t, c.ok) /\ UNCHANGED upd
                        \/ todo # <<>> /\ upd' = [by |-> t, todo |-> todo] /\ UNCHANGED pc
PROOF
  <1>. DEFINE c == Calls[pc[t]]
              old == handle[c.h]
              new == [k \in Clks |-> IF k \in c.clks THEN Vote(old[k], c.on) ELSE old[k]]
              changed == \E k \in Clks : new[k].on # old[k].on
              hs == [handle EXCEPT ![c.h] = new]
              todo == IF changed THEN Switches(hs) ELSE <<>>
  <1>1. /\ pc[t] \in DOMAIN Calls /\ handle' = hs
        /\ IF todo = <<>> THEN Goto(t, c.ok) /\ UNCHANGED upd
           ELSE upd' = [by |-> t, todo |-> todo] /\ UNCHANGED pc
    BY DEF dsi_clk_req_state
  <1>2. c.h \in Handles
    BY <1>1, CallTypes
  <1>3. /\ handle \in [Handles -> [Clks -> [ref : Nat, on : BOOLEAN]]] /\ RefOn
        /\ mngr \in [Clks -> BOOLEAN]
    BY Types DEF Base
  <1>4. \A k \in Clks : /\ old[k] \in [ref : Nat, on : BOOLEAN]
                        /\ old[k].on <=> old[k].ref > 0
    BY <1>2, <1>3 DEF RefOn
  <1>5. \A k \in Clks : /\ new[k] \in [ref : Nat, on : BOOLEAN]
                        /\ new[k].on <=> new[k].ref > 0
                        /\ k \in c.clks => new[k] = Vote(handle[c.h][k], c.on)
                        /\ k \notin c.clks => new[k] = handle[c.h][k]
    <2>. SUFFICES ASSUME NEW k \in Clks
                  PROVE  /\ new[k] \in [ref : Nat, on : BOOLEAN]
                         /\ new[k].on <=> new[k].ref > 0
                         /\ k \in c.clks => new[k] = Vote(handle[c.h][k], c.on)
                         /\ k \notin c.clks => new[k] = handle[c.h][k]
      OBVIOUS
    <2>1. /\ Vote(old[k], c.on) \in [ref : Nat, on : BOOLEAN]
          /\ Vote(old[k], c.on).on <=> Vote(old[k], c.on).ref > 0
      <3>. DEFINE v == old[k]
      <3>1. v \in [ref : Nat, on : BOOLEAN] /\ (v.on <=> v.ref > 0)
        BY <1>4
      <3>. HIDE DEF v, c
      <3>2. Vote(v, c.on) \in [ref : Nat, on : BOOLEAN] /\ (Vote(v, c.on).on <=> Vote(v, c.on).ref > 0)
        BY <3>1, VoteCounts
      <3>. QED
        BY <3>2 DEF v
    <2>. QED
      BY <1>4, <2>1
  <1>. HIDE DEF c
  <1>6. new \in [Clks -> [ref : Nat, on : BOOLEAN]]
    <2>1. \A k \in Clks : new[k] \in [ref : Nat, on : BOOLEAN]
      BY <1>5
    <2>2. DOMAIN new = Clks /\ new = [k \in Clks |-> new[k]]
      OBVIOUS
    <2>. HIDE DEF new
    <2>. QED
      BY <2>1, <2>2
  <1>. HIDE DEF new
  <1>7. /\ handle'[c.h] = new /\ \A h \in Handles : h # c.h => handle'[h] = handle[h]
        /\ handle' \in [Handles -> [Clks -> [ref : Nat, on : BOOLEAN]]]
    BY <1>1, <1>2, <1>3, <1>6
  <1>8. \A h \in Handles, k \in Clks :
            /\ h # c.h \/ k \notin c.clks => handle'[h][k] = handle[h][k]
            /\ h = c.h /\ k \in c.clks => handle'[h][k] = Vote(handle[h][k], c.on)
    BY <1>5, <1>7
  <1>9. RefOn'
    BY <1>3, <1>5, <1>7 DEF RefOn
  <1>10. Want("core")' \in BOOLEAN /\ Want("link")' \in BOOLEAN
    BY DEF Want
  <1>w. /\ Want("core")' <=> \E h \in Handles : hs[h]["core"].on
        /\ Want("link")' <=> \E h \in Handles : hs[h]["link"].on
    BY <1>1 DEF Want
  <1>11. /\ todo \in Todos /\ ~Forcing(todo) /\ ~LpIsOn(todo) /\ ~HsIsOff(todo)
         /\ ~ForcedOff(todo)
         /\ CoreGoesOn(todo) => Want("core")' /\ ~mngr["core"]
         /\ CoreGoesOff(todo) => ~Want("core")' /\ mngr["core"]
         /\ LinkGoesOn(todo) => Want("link")' /\ ~mngr["link"]
         /\ LinkGoesOff(todo) => ~Want("link")' /\ mngr["link"]
         /\ \/ (Want("core")' <=> Want("core")) /\ (Want("link")' <=> Want("link"))
               /\ todo = <<>>
            \/ /\ CoreGoesOn(todo) <=> Want("core")' /\ ~mngr["core"]
               /\ CoreGoesOff(todo) <=> ~Want("core")' /\ mngr["core"]
               /\ LinkGoesOn(todo) <=> Want("link")' /\ ~mngr["link"]
               /\ LinkGoesOff(todo) <=> ~Want("link")' /\ mngr["link"]
    <2>1. CASE changed
      <3>1. todo = Switches(hs)
        BY <2>1
      <3>. HIDE DEF hs, todo
      <3>2. /\ todo \in Todos /\ ~Forcing(todo) /\ ~LpIsOn(todo) /\ ~HsIsOff(todo)
            /\ ~ForcedOff(todo)
            /\ CoreGoesOn(todo) <=> Want("core")' /\ ~mngr["core"]
            /\ CoreGoesOff(todo) <=> ~Want("core")' /\ mngr["core"]
            /\ LinkGoesOn(todo) <=> Want("link")' /\ ~mngr["link"]
            /\ LinkGoesOff(todo) <=> ~Want("link")' /\ mngr["link"]
        BY <1>3, <1>10, <1>w, <3>1, SwitchesKinds
      <3>. QED
        BY <3>2
    <2>2. CASE ~changed
      <3>1. todo = <<>>
        BY <2>2
      <3>2. \A k \in Clks : new[k].on = old[k].on
        BY <2>2
      <3>3. \A h \in Handles, k \in Clks : handle'[h][k].on = handle[h][k].on
        BY <1>7, <3>2
      <3>4. (Want("core")' <=> Want("core")) /\ (Want("link")' <=> Want("link"))
        BY <3>3 DEF Want, Clks
      <3>. HIDE DEF todo
      <3>. QED
        BY <3>1, <3>4, NoTodo
    <2>. QED
      BY <2>1, <2>2
  <1>12. \/ todo = <<>> /\ Goto(t, c.ok) /\ UNCHANGED upd
         \/ todo # <<>> /\ upd' = [by |-> t, todo |-> todo] /\ UNCHANGED pc
    BY <1>1
  <1>. HIDE DEF todo, hs
  <1>. QED
    BY <1>7, <1>8, <1>9, <1>11, <1>12 DEF c

\* Until the first failure, the votes a request changes.
LEMMA RequestExact ==
    ASSUME IInv, faults = 0, NEW t \in Threads, pc[t] \in DOMAIN Calls, upd = NoUpdate,
           RefOn', handle' \in [Handles -> [Clks -> [ref : Nat, on : BOOLEAN]]],
           \A h \in Handles, k \in Clks :
               /\ h # Calls[pc[t]].h \/ k \notin Calls[pc[t]].clks =>
                      handle'[h][k] = handle[h][k]
               /\ h = Calls[pc[t]].h /\ k \in Calls[pc[t]].clks =>
                      handle'[h][k] = Vote(handle[h][k], Calls[pc[t]].on),
           Eff(t)' = Calls[pc[t]].ok, \A u \in Threads : u # t => Eff(u)' = pc[u],
           UNCHANGED <<cfg, panel, enc>>
    PROVE  RefsExact'
PROOF
  <1>. DEFINE l == pc[t]
              c == Calls[pc[t]]
  <1>0. Base /\ NoFailure /\ RefsExact /\ LabelsOK /\ EncOK
    BY CleanParts DEF Base
  <1>1. /\ handle \in [Handles -> [Clks -> [ref : Nat, on : BOOLEAN]]] /\ RefOn
        /\ "dsi" \in Handles /\ "mdp" \in Handles
    BY <1>0, Types DEF Base, Handles
  <1>2. /\ l \in DOMAIN Calls /\ l \notin DispFailed /\ l # "esd_off_bad"
        /\ l \in {"post_enable", "pre_disable"} => cfg.mode = "cmd"
    BY <1>0 DEF NoFailure, LabelsOK, Threads, RcLabels, PanelLabels, DbgLabels, DispLabels, DispFailed
  <1>3. \A u \in Threads : Eff(u) = pc[u]
    BY NoTodo DEF Eff, Threads, Free
  <1>4. \A m, k : Held(m, k)' = Held(m, k)
    BY DEF Held, CoreHeld, LinkHeld
  <1>5. c.h \in Handles
    BY <1>2, CallTypes
  <1>6. /\ t = "rc" => c.h = "mdp"
        /\ t \in {"panel", "dbg"} => c.h = "dsi"
        /\ c.h = "mdp" => l \in {"enc_vote", "enc_unvote", "rc_vote", "rc_unvote"}
        /\ l = "enc_vote" => t = "disp" /\ c.clks = Clks /\ c.on /\ c.ok = "enc_voted" /\ c.h = "mdp"
        /\ l = "enc_unvote" => t = "disp" /\ c.clks = Clks /\ ~c.on /\ c.ok = "enc_unvoted" /\ c.h = "mdp"
        /\ l = "rc_vote" => t = "rc" /\ c.clks = Clks /\ c.on /\ c.ok = "rc_voted" /\ c.h = "mdp"
        /\ l = "rc_unvote" => t = "rc" /\ c.clks = Clks /\ ~c.on /\ c.ok = "rc_unvoted" /\ c.h = "mdp"
    BY <1>0, <1>2, CallsTable
       DEF LabelsOK, Threads, RcLabels, PanelLabels, DbgLabels, DispLabels, DispFailed
  <1>7. c.h = "dsi" => c.ok \notin EncLabels /\ l \notin EncLabels
    BY <1>2, CallsTable DEF EncLabels
  <1>e. Eff(t)' = c.ok /\ pc[t] = l
    OBVIOUS
  <1>h. \A k \in Clks :
           /\ c.h = "mdp" \/ k \notin c.clks => Held(c.ok, k) = Held(l, k)
           /\ c.h = "dsi" /\ k \in c.clks =>
                  Held(c.ok, k) = IF c.on THEN Held(l, k) + 1 ELSE Held(l, k) - 1
    BY <1>2, CallHolds
  <1>v. \A h \in Handles, k \in Clks :
           /\ h # c.h \/ k \notin c.clks => handle'[h][k].ref = handle[h][k].ref
           /\ h = c.h /\ k \in c.clks =>
                handle'[h][k].ref = IF c.on THEN handle[h][k].ref + 1
                                    ELSE IF handle[h][k].ref = 0 THEN 0
                                    ELSE handle[h][k].ref - 1
    <2>. SUFFICES ASSUME NEW h \in Handles, NEW k \in Clks
                  PROVE /\ h # c.h \/ k \notin c.clks => handle'[h][k].ref = handle[h][k].ref
                        /\ h = c.h /\ k \in c.clks =>
                             handle'[h][k].ref = IF c.on THEN handle[h][k].ref + 1
                                                 ELSE IF handle[h][k].ref = 0 THEN 0
                                                 ELSE handle[h][k].ref - 1
      OBVIOUS
    <2>1. /\ h # c.h \/ k \notin c.clks => handle'[h][k] = handle[h][k]
          /\ h = c.h /\ k \in c.clks => handle'[h][k] = Vote(handle[h][k], c.on)
      OBVIOUS
    <2>. DEFINE v == handle[h][k]
    <2>2. v \in [ref : Nat, on : BOOLEAN] /\ (v.on <=> v.ref > 0)
      BY <1>1 DEF RefOn
    <2>. HIDE DEF v, c
    <2>3. /\ c.on => Vote(v, c.on).ref = v.ref + 1
          /\ ~c.on => Vote(v, c.on).ref = IF v.ref = 0 THEN 0 ELSE v.ref - 1
      BY <2>2, VoteCounts
    <2>. QED
      BY <2>1, <2>3 DEF v
  <1>. HIDE DEF l, c
  <1>8. ASSUME NEW k \in Clks
        PROVE  handle'["mdp"][k].ref = b2n(MdpHeld')
    <2>1. handle["mdp"][k].ref = b2n(MdpHeld)
      BY <1>0, <1>8 DEF RefsExact
    <2>2. CASE c.h = "dsi"
      <3>1. MdpHeld' <=> MdpHeld
        BY <1>3, <1>6, <1>7, <1>e, <2>2 DEF MdpHeld, EncLabels, Threads
      <3>2. handle'["mdp"][k].ref = handle["mdp"][k].ref
        BY <1>1, <1>v, <1>8, <2>2
      <3>. QED
        BY <2>1, <3>1, <3>2 DEF b2n
    <2>3. CASE l = "enc_vote"
      <3>1. ~enc /\ lock["rc"] = "disp"
        BY <1>0, <1>6, <1>e, <2>3 DEF EncOK
      <3>2. pc["rc"] = "idle"
        BY <1>0, <3>1, OutsideRc
      <3>3. Eff("disp")' = "enc_voted" /\ Eff("disp") = "enc_vote" /\ Eff("rc") = "idle"
        BY <1>3, <1>6, <1>e, <2>3, <3>2 DEF Threads
      <3>4. MdpHeld' /\ ~MdpHeld
        BY <3>1, <3>3 DEF MdpHeld
      <3>. QED
        BY <1>1, <1>6, <1>v, <1>8, <2>1, <2>3, <3>4 DEF b2n
    <2>4. CASE l = "enc_unvote"
      <3>1. enc /\ lock["rc"] = "disp"
        BY <1>0, <1>6, <1>e, <2>4 DEF EncOK
      <3>2. pc["rc"] = "idle"
        BY <1>0, <3>1, OutsideRc
      <3>3. /\ Eff("disp")' = "enc_unvoted" /\ Eff("disp") = "enc_unvote"
            /\ Eff("rc") = "idle" /\ Eff("rc")' = "idle"
        BY <1>3, <1>6, <1>e, <2>4, <3>2 DEF Threads
      <3>4. ~MdpHeld' /\ MdpHeld
        BY <3>1, <3>3 DEF MdpHeld
      <3>. QED
        BY <1>1, <1>6, <1>v, <1>8, <2>1, <2>4, <3>4 DEF b2n
    <2>5. CASE l = "rc_vote"
      <3>1. ~enc /\ lock["rc"] = "rc"
        BY <1>0, <1>6, <1>e, <2>5 DEF EncOK
      <3>2. pc["disp"] \notin EncLabels
        BY <1>0, <3>1, OutsideRc
      <3>3. /\ Eff("rc")' = "rc_voted" /\ Eff("rc") = "rc_vote"
            /\ Eff("disp") \notin EncLabels
        BY <1>3, <1>6, <1>e, <2>5, <3>2 DEF Threads
      <3>4. MdpHeld' /\ ~MdpHeld
        BY <3>1, <3>3 DEF MdpHeld, EncLabels
      <3>. QED
        BY <1>1, <1>6, <1>v, <1>8, <2>1, <2>5, <3>4 DEF b2n
    <2>6. CASE l = "rc_unvote"
      <3>1. enc /\ lock["rc"] = "rc"
        BY <1>0, <1>6, <1>e, <2>6 DEF EncOK
      <3>2. pc["disp"] \notin EncLabels
        BY <1>0, <3>1, OutsideRc
      <3>3. /\ Eff("rc")' = "rc_unvoted" /\ Eff("rc") = "rc_unvote"
            /\ Eff("disp") \notin EncLabels /\ Eff("disp")' \notin EncLabels
        BY <1>3, <1>6, <1>e, <2>6, <3>2 DEF Threads
      <3>4. ~MdpHeld' /\ MdpHeld
        BY <3>1, <3>3 DEF MdpHeld, EncLabels
      <3>. QED
        BY <1>1, <1>6, <1>v, <1>8, <2>1, <2>6, <3>4 DEF b2n
    <2>. QED
      BY <1>5, <1>6, <2>2, <2>3, <2>4, <2>5, <2>6 DEF Handles
  <1>9. ASSUME NEW k \in Clks
        PROVE  handle'["dsi"][k].ref = b2n(panel.splash) + Held(Eff("disp")', k)
                                       + Held(Eff("panel")', k) + Held(Eff("dbg")', k)
    <2>1. handle["dsi"][k].ref = b2n(panel.splash) + Held(pc["disp"], k)
                                 + Held(pc["panel"], k) + Held(pc["dbg"], k)
      BY <1>0, <1>3, <1>9 DEF RefsExact, Threads
    <2>2. /\ b2n(panel.splash) \in Nat /\ Held(pc["disp"], k) \in Nat
          /\ Held(pc["panel"], k) \in Nat /\ Held(pc["dbg"], k) \in Nat
          /\ Held(l, k) \in Nat /\ Held(c.ok, k) \in Nat
      BY HeldNat DEF b2n
    <2>3. CASE c.h = "mdp" \/ k \notin c.clks
      <3>1. handle'["dsi"][k].ref = handle["dsi"][k].ref
        BY <1>1, <1>v, <1>9, <2>3
      <3>2. Held(c.ok, k) = Held(l, k)
        BY <1>h, <1>9, <2>3
      <3>. QED
        BY <1>6, <1>e, <2>1, <3>1, <3>2 DEF Threads
    <2>4. CASE c.h = "dsi" /\ k \in c.clks
      <3>1. handle'["dsi"][k].ref = IF c.on THEN handle["dsi"][k].ref + 1
                                    ELSE IF handle["dsi"][k].ref = 0 THEN 0
                                    ELSE handle["dsi"][k].ref - 1
        BY <1>1, <1>v, <1>9, <2>4
      <3>2. Held(c.ok, k) = IF c.on THEN Held(l, k) + 1 ELSE Held(l, k) - 1
        BY <1>h, <1>9, <2>4
      <3>a. \/ /\ handle'["dsi"][k].ref = handle["dsi"][k].ref + 1
               /\ Held(c.ok, k) = Held(l, k) + 1
            \/ /\ handle["dsi"][k].ref # 0 =>
                    handle'["dsi"][k].ref = handle["dsi"][k].ref - 1
               /\ Held(c.ok, k) = Held(l, k) - 1
        BY <3>1, <3>2
      <3>b. Held(c.ok, k) = Held(l, k) - 1 => Held(l, k) >= 1
        BY <2>2
      <3>3. t \in {"disp", "panel", "dbg"}
        BY <1>6, <2>4 DEF Threads
      <3>4. CASE t = "disp"
        <4>1. /\ Eff("disp")' = c.ok /\ pc["disp"] = l
              /\ Eff("panel")' = pc["panel"] /\ Eff("dbg")' = pc["dbg"]
          BY <1>e, <3>4 DEF Threads
        <4>2. /\ Held(Eff("disp")', k) = Held(c.ok, k)
              /\ Held(Eff("panel")', k) = Held(pc["panel"], k)
              /\ Held(Eff("dbg")', k) = Held(pc["dbg"], k)
          BY <4>1
        <4>3. Held(pc["disp"], k) = Held(l, k)
          BY <4>1
        <4>. QED
          BY <2>1, <2>2, <3>a, <3>b, <4>2, <4>3
      <3>5. CASE t = "panel"
        <4>1. /\ Eff("panel")' = c.ok /\ pc["panel"] = l
              /\ Eff("disp")' = pc["disp"] /\ Eff("dbg")' = pc["dbg"]
          BY <1>e, <3>5 DEF Threads
        <4>2. /\ Held(Eff("panel")', k) = Held(c.ok, k)
              /\ Held(Eff("disp")', k) = Held(pc["disp"], k)
              /\ Held(Eff("dbg")', k) = Held(pc["dbg"], k)
          BY <4>1
        <4>3. Held(pc["panel"], k) = Held(l, k)
          BY <4>1
        <4>. QED
          BY <2>1, <2>2, <3>a, <3>b, <4>2, <4>3
      <3>6. CASE t = "dbg"
        <4>1. /\ Eff("dbg")' = c.ok /\ pc["dbg"] = l
              /\ Eff("disp")' = pc["disp"] /\ Eff("panel")' = pc["panel"]
          BY <1>e, <3>6 DEF Threads
        <4>2. /\ Held(Eff("dbg")', k) = Held(c.ok, k)
              /\ Held(Eff("disp")', k) = Held(pc["disp"], k)
              /\ Held(Eff("panel")', k) = Held(pc["panel"], k)
          BY <4>1
        <4>3. Held(pc["dbg"], k) = Held(l, k)
          BY <4>1
        <4>. QED
          BY <2>1, <2>2, <3>a, <3>b, <4>2, <4>3
      <3>. QED
        BY <3>3, <3>4, <3>5, <3>6
    <2>. QED
      BY <1>5, <2>3, <2>4 DEF Handles
  <1>. QED
    BY <1>4, <1>8, <1>9 DEF RefsExact

\* dsi_clk_req_state.
LEMMA KeepsReqState ==
    ASSUME IInv, NEW t \in Threads, dsi_clk_req_state(t)
    PROVE  IInv'
PROOF
  <1>. DEFINE c == Calls[pc[t]]
  <1>0. /\ Base /\ TypeOK /\ LabelsOK /\ UpdOK /\ MngrOK /\ ClkOK /\ EncOK /\ PowOK
        /\ PanelLock
    BY DEF IInv, Base
  <1>1. /\ upd = NoUpdate /\ pc[t] \in DOMAIN Calls
        /\ UNCHANGED <<cfg, lock, mngr, clk, ph, io, panel, enc, faults>>
    BY DEF dsi_clk_req_state
  <1>2. /\ handle' \in [Handles -> [Clks -> [ref : Nat, on : BOOLEAN]]]
        /\ RefOn'
        /\ \A h \in Handles, k \in Clks :
              /\ h # c.h \/ k \notin c.clks => handle'[h][k] = handle[h][k]
              /\ h = c.h /\ k \in c.clks => handle'[h][k] = Vote(handle[h][k], c.on)
    BY <1>0, Requested
  <1>3. PICK todo \in Todos :
              /\ ~Forcing(todo) /\ ~LpIsOn(todo) /\ ~HsIsOff(todo) /\ ~ForcedOff(todo)
              /\ CoreGoesOn(todo) => Want("core")' /\ ~mngr["core"]
              /\ CoreGoesOff(todo) => ~Want("core")' /\ mngr["core"]
              /\ LinkGoesOn(todo) => Want("link")' /\ ~mngr["link"]
              /\ LinkGoesOff(todo) => ~Want("link")' /\ mngr["link"]
              /\ \/ (Want("core")' <=> Want("core")) /\ (Want("link")' <=> Want("link"))
                    /\ todo = <<>>
                 \/ /\ CoreGoesOn(todo) <=> Want("core")' /\ ~mngr["core"]
                    /\ CoreGoesOff(todo) <=> ~Want("core")' /\ mngr["core"]
                    /\ LinkGoesOn(todo) <=> Want("link")' /\ ~mngr["link"]
                    /\ LinkGoesOff(todo) <=> ~Want("link")' /\ mngr["link"]
              /\ \/ todo = <<>> /\ Goto(t, c.ok) /\ UNCHANGED upd
                 \/ todo # <<>> /\ upd' = [by |-> t, todo |-> todo] /\ UNCHANGED pc
    BY <1>0, Requested
  <1>4. /\ upd.by = Free /\ upd.todo = <<>> /\ pc["disp"] # "force" /\ pc[t] # "force"
        /\ \A u \in Threads : Eff(u) = pc[u]
    <2>1. upd.by = Free /\ upd.todo = <<>>
      BY <1>1, NoTodo
    <2>2. pc["disp"] # "force"
      BY <1>0, <2>1, NoTodo DEF UpdOK
    <2>3. pc[t] # "force"
      BY <1>1, CallTypes
    <2>. QED
      BY <2>1, <2>2, <2>3 DEF Eff, Threads, Free
  <1>5. /\ pc' \in [Threads -> Labels] /\ LabelsOK' /\ EncOK' /\ PanelLock'
        /\ EncPower' <=> EncPower
        /\ Commit' <=> Commit
        /\ pc'["disp"] \in {"splash_off", "splash_done"} =>
               pc["disp"] \in {"splash_off", "splash_done"}
        /\ pc'["disp"] # "force"
        /\ todo = <<>> => pc'[t] = c.ok
        /\ \A u \in Threads : u # t => pc'[u] = pc[u]
    <2>1. CASE todo = <<>>
      <3>1. Goto(t, c.ok) /\ c.ok \in {Calls[pc[t]].ok, Calls[pc[t]].fail}
        BY <1>3, <2>1
      <3>. QED
        BY <1>0, <1>1, <1>4, <3>1, CallReturns
    <2>2. CASE todo # <<>>
      <3>1. pc' = pc
        BY <1>3, <2>2
      <3>2. (EncPower' <=> EncPower) /\ (Commit' <=> Commit)
        BY <1>1, <3>1 DEF EncPower, Commit
      <3>3. LabelsOK' /\ EncOK' /\ PanelLock'
        BY <1>0, <1>1, <3>1 DEF LabelsOK, EncOK, PanelLock
      <3>. QED
        BY <1>0, <1>4, <2>2, <3>1, <3>2, <3>3, Types
    <2>. QED
      BY <2>1, <2>2
  <1>6. /\ upd' \in [by : Threads \cup {Free}, todo : Todos] /\ upd'.todo = todo
        /\ todo = <<>> => upd' = NoUpdate
        /\ todo # <<>> => upd'.by = t /\ pc' = pc
    <2>1. CASE todo = <<>>
      BY <1>1, <1>3, <2>1, NoTodo
    <2>2. CASE todo # <<>>
      BY <1>3, <2>2
    <2>. QED
      BY <2>1, <2>2
  <1>7. UpdOK'
    <2>1. upd' = NoUpdate <=> upd'.todo = <<>>
      BY <1>6, NoTodo
    <2>. QED
      BY <1>1, <1>3, <1>5, <1>6, <2>1 DEF UpdOK
  <1>8. MngrOK' /\ ClkOK'
    BY <1>0, <1>1, <1>3, <1>4, <1>6, NoTodo DEF MngrOK, ClkOK
  <1>9. PowOK'
    BY <1>0, <1>1, <1>5 DEF PowOK, b2n
  <1>10. TypeOK'
    <2>1. upd'.by \in Threads \cup {Free} /\ upd'.todo \in Seq(Switch)
      BY <1>6, TodoSeq
    <2>. QED
      BY <1>0, <1>1, <1>2, <1>5, <2>1 DEF TypeOK
  <1>11. Base'
    BY <1>2, <1>5, <1>7, <1>8, <1>9, <1>10 DEF Base
  <1>e. Eff(t)' = c.ok /\ \A u \in Threads : u # t => Eff(u)' = pc[u]
    <2>1. CASE todo = <<>>
      BY <1>5, <1>6, <2>1, NoTodo DEF Eff, Threads, Free
    <2>2. CASE todo # <<>>
      BY <1>4, <1>6, <2>2 DEF Eff
    <2>. QED
      BY <2>1, <2>2
  <1>12. ASSUME faults' = 0
         PROVE  NoFailure' /\ RefsExact' /\ MngrExact' /\ ClkExact' /\ IoExact' /\ PowExact'
    <2>0. faults = 0
      BY <1>1, <1>12
    <2>1. NoFailure /\ RefsExact /\ MngrExact /\ ClkExact /\ IoExact /\ PowExact
      BY <2>0, CleanParts
    <2>2. RefsExact'
      BY <1>1, <1>2, <1>e, <2>0, RequestExact
    <2>3. NoFailure'
      <3>1. CASE todo = <<>>
        <4>1. pc[t] \notin DispFailed /\ pc[t] # "esd_off_bad"
          BY <1>0, <2>1 DEF NoFailure, LabelsOK, Threads, RcLabels, PanelLabels, DbgLabels,
                            DispLabels, DispFailed
        <4>2. /\ c.ok \notin DispFailed /\ c.ok # "rc_refused"
              /\ c.ok \notin {"esd_off_bad", "esd_bad", "post_enable", "pre_disable"}
              /\ c.ok \in Blank => pc[t] \in Blank
          BY <1>1, <4>1, CallGoodEnd
        <4>. QED
          BY <1>1, <1>5, <2>1, <3>1, <4>2 DEF NoFailure, Threads
      <3>2. CASE todo # <<>>
        BY <1>1, <1>6, <2>1, <3>2 DEF NoFailure
      <3>. QED
        BY <3>1, <3>2
    <2>4. ClkExact' /\ IoExact'
      BY <1>1, <1>3, <1>4, <1>6, <2>1, NoTodo DEF ClkExact, IoExact
    <2>5. PowExact'
      BY <1>1, <1>5, <2>1 DEF PowExact, b2n
    <2>6. MngrExact'
      <3>0. mngr \in [Clks -> BOOLEAN] /\ "core" \in Clks /\ "link" \in Clks
        BY <1>0, Types DEF Clks
      <3>1. /\ ~CoreGoesOn(todo) /\ ~CoreGoesOff(todo) => (mngr["core"] <=> Want("core")')
            /\ ~LinkGoesOn(todo) /\ ~LinkGoesOff(todo) => (mngr["link"] <=> Want("link")')
        <4>1. (mngr["core"] <=> Want("core")) /\ (mngr["link"] <=> Want("link"))
          BY <1>4, <2>1, NoTodo DEF MngrExact
        <4>. QED
          BY <1>3, <4>1
      <3>2. Want("core")' \in BOOLEAN /\ Want("link")' \in BOOLEAN
        BY DEF Want
      <3>3. \A u \in Threads : LinkHeld(Eff(u))' /\ upd'.by # u => mngr["link"]
        <4>. SUFFICES ASSUME NEW u \in Threads, LinkHeld(Eff(u))', upd'.by # u
                      PROVE  mngr["link"]
          OBVIOUS
        <4>1. CASE u # t
          <5>1. Eff(u)' = Eff(u) /\ upd.by # u
            BY <1>4, <1>e, <4>1 DEF Threads, Free
          <5>2. LinkHeld(Eff(u))
            BY <1>1, <5>1 DEF LinkHeld
          <5>. QED
            BY <2>1, <5>1, <5>2 DEF MngrExact
        <4>2. CASE u = t
          <5>1. todo = <<>>
            BY <1>6, <4>2
          <5>2. Want("link")'
            <6>1. LinkUsersWant'
              BY <1>11, <2>2, LinkWantedNext
            <6>. QED
              BY <6>1 DEF LinkUsersWant
          <5>. QED
            BY <3>1, <5>1, <5>2, NoTodo
        <4>. QED
          BY <4>1, <4>2
      <3>. QED
        BY <1>1, <1>3, <1>6, <2>1, <3>0, <3>1, <3>2, <3>3 DEF MngrExact
    <2>. QED
      BY <2>2, <2>3, <2>4, <2>5, <2>6
  <1>. QED
    BY <1>5, <1>11, <1>12 DEF IInv, Clean
-----------------------------------------------------------------------------
(* One switch of dsi_update_clk_state.                                     *)

\* What is left after a switch.
LEMMA RestKinds ==
    ASSUME NEW s \in Todos, s # <<>>
    PROVE  /\ Rest(s) \in Todos
           /\ Rest(s) # <<>> => (Forcing(Rest(s)) <=> Forcing(s))
           /\ Len(s) > 1 => Rest(s) = Tail(s) /\ Rest(s) # <<>>
           /\ ~(Len(s) > 1) => Rest(s) = <<>>
PROOF
  <1>1. s \in Seq(Switch)
    BY TodoSeq
  <1>a. Len(Tail(s)) = Len(s) - 1 /\ Len(s) \in Nat
    BY <1>1, HeadTailProperties
  <1>2. Len(s) > 1 => Tail(s) # <<>>
    <2>. DEFINE r == Tail(s)
    <2>1. Len(<<>>) = 0 /\ Len(r) = Len(s) - 1
      BY <1>a
    <2>. HIDE DEF r
    <2>2. Len(s) > 1 => Len(r) # 0
      BY <1>a, <2>1
    <2>3. Len(s) > 1 => r # <<>>
      BY <2>1, <2>2, Zenon
    <2>. QED
      BY <2>3 DEF r
  <1>3. Rest(s) \in Todos /\ (Rest(s) # <<>> => (Forcing(Rest(s)) <=> Forcing(s)))
    BY TodoKinds, NoTodo DEF Todos
  <1>. QED
    BY <1>2, <1>3 DEF Rest

\* The thread that waits for the switch stays where it waits, or returns.
LEMMA SwitchedTo ==
    ASSUME Base, PanelLock, NEW ok \in BOOLEAN, Switched(ok), upd.todo # <<>>,
           UNCHANGED <<lock, enc>>
    PROVE  /\ pc' \in [Threads -> Labels] /\ LabelsOK' /\ EncOK' /\ PanelLock'
           /\ EncPower' <=> EncPower
           /\ Commit' <=> Commit
           /\ pc'["disp"] \in {"splash_off", "splash_done"} =>
                  pc["disp"] \in {"splash_off", "splash_done"}
           /\ upd' \in [by : Threads \cup {Free}, todo : Todos] /\ UpdOK'
           /\ upd'.todo = IF ok THEN Rest(upd.todo) ELSE <<>>
           /\ upd'.todo # <<>> => pc' = pc /\ upd'.by = upd.by
           /\ upd'.todo = <<>> => upd' = NoUpdate
           /\ upd.by \in Threads /\ \A u \in Threads : u # upd.by => pc'[u] = pc[u]
           /\ pc[upd.by] = "force" => upd.by = "disp" /\ pc'["disp"] \in {"force", "kicked"}
           /\ ok /\ upd'.todo = <<>> /\ pc[upd.by] # "force" =>
                  pc[upd.by] \in DOMAIN Calls /\ pc'[upd.by] = Calls[pc[upd.by]].ok
PROOF
  <1>. DEFINE t == upd.by
              l == pc[t]
              end == IF l = "force" THEN "kicked"
                     ELSE IF ok THEN Calls[l].ok ELSE Calls[l].fail
  <1>0. /\ TypeOK /\ LabelsOK /\ UpdOK /\ EncOK /\ pc \in [Threads -> Labels]
        /\ upd \in [by : Threads \cup {Free}, todo : Todos]
    BY Types DEF Base, UpdOK
  <1>1. /\ t \in Threads /\ upd # NoUpdate
        /\ l = "force" => t = "disp" /\ Forcing(upd.todo)
        /\ l # "force" => l \in DOMAIN Calls /\ pc["disp"] # "force" /\ ~Forcing(upd.todo)
    BY <1>0, NoTodo DEF UpdOK, LabelsOK, Threads, RcLabels, PanelLabels, DbgLabels
  <1>2. /\ Rest(upd.todo) \in Todos
        /\ Rest(upd.todo) # <<>> => (Forcing(Rest(upd.todo)) <=> Forcing(upd.todo))
        /\ Len(upd.todo) > 1 => Rest(upd.todo) = Tail(upd.todo) /\ Rest(upd.todo) # <<>>
        /\ ~(Len(upd.todo) > 1) => Rest(upd.todo) = <<>>
    BY <1>0, RestKinds
  <1>3. \/ ok /\ Len(upd.todo) > 1 /\ upd' = [upd EXCEPT !.todo = Tail(@)] /\ pc' = pc
        \/ ~(ok /\ Len(upd.todo) > 1) /\ upd' = NoUpdate /\ Goto(t, end)
    BY DEF Switched
  <1>4. CASE ok /\ Len(upd.todo) > 1 /\ upd' = [upd EXCEPT !.todo = Tail(@)] /\ pc' = pc
    <2>1. /\ upd' \in [by : Threads \cup {Free}, todo : Todos] /\ upd'.by = t
          /\ upd'.todo = Rest(upd.todo) /\ upd'.todo # <<>> /\ upd' # NoUpdate
      BY <1>0, <1>2, <1>4, NoTodo
    <2>2. UpdOK'
      BY <1>0, <1>1, <1>2, <1>4, <2>1 DEF UpdOK
    <2>3. LabelsOK' /\ EncOK' /\ PanelLock'
      BY <1>0, <1>4 DEF LabelsOK, EncOK, PanelLock
    <2>4. (EncPower' <=> EncPower) /\ (Commit' <=> Commit)
      BY <1>4 DEF EncPower, Commit
    <2>. QED
      BY <1>0, <1>1, <1>4, <2>1, <2>2, <2>3, <2>4
  <1>5. CASE ~(ok /\ Len(upd.todo) > 1) /\ upd' = NoUpdate /\ Goto(t, end)
    <2>1. /\ upd' \in [by : Threads \cup {Free}, todo : Todos] /\ upd'.todo = <<>>
          /\ upd'.todo = IF ok THEN Rest(upd.todo) ELSE <<>>
      BY <1>2, <1>5, NoTodo
    <2>2. CASE l # "force"
      <3>1. l \in DOMAIN Calls /\ end \in {Calls[l].ok, Calls[l].fail} /\ (ok => end = Calls[l].ok)
        BY <1>1, <2>2
      <3>. HIDE DEF end
      <3>2. /\ pc' \in [Threads -> Labels] /\ LabelsOK' /\ EncOK' /\ PanelLock'
            /\ pc'[t] = end /\ \A u \in Threads : u # t => pc'[u] = pc[u]
            /\ EncPower' <=> EncPower
            /\ Commit' <=> Commit
            /\ pc'["disp"] \in {"splash_off", "splash_done"} =>
                   pc["disp"] \in {"splash_off", "splash_done"}
            /\ pc'["disp"] = "force" <=> pc["disp"] = "force"
        BY <1>1, <1>5, <3>1, CallReturns
      <3>3. UpdOK'
        BY <1>1, <1>5, <2>1, <2>2, <3>2, NoTodo DEF UpdOK
      <3>. QED
        BY <1>1, <1>5, <2>1, <2>2, <3>1, <3>2, <3>3
    <2>3. CASE l = "force"
      <3>1. t = "disp" /\ end = "kicked" /\ "kicked" \in DispLabels /\ Goto("disp", "kicked")
        BY <1>1, <1>5, <2>3 DEF DispLabels
      <3>2. /\ pc' \in [Threads -> Labels] /\ pc'["disp"] = "kicked"
            /\ \A u \in Threads : u # "disp" => pc'[u] = pc[u]
        BY <1>0, <1>1, <3>1, GotoPc, ThreadLabels
      <3>3. LabelsOK' /\ EncOK' /\ PanelLock'
        BY <1>0, <3>1, <3>2 DEF LabelsOK, EncOK, PanelLock, Threads
      <3>4. (EncPower' <=> EncPower) /\ (Commit' <=> Commit)
        BY <2>3, <3>1, <3>2 DEF EncPower, Commit, Threads
      <3>5. UpdOK'
        BY <1>5, <2>1, <3>2, NoTodo DEF UpdOK
      <3>. QED
        BY <1>1, <1>5, <2>1, <2>3, <3>1, <3>2, <3>3, <3>4, <3>5
    <2>. QED
      BY <2>2, <2>3
  <1>. QED
    BY <1>3, <1>4, <1>5

PanelSame == /\ panel' \in PanelType /\ panel'.kms = panel.kms
             /\ panel'.splash = panel.splash /\ panel'.init = panel.init
             /\ panel'.esd = panel.esd

\* What a switch has to keep by itself.
LEMMA SwitchBase ==
    ASSUME Base, PanelLock, NEW ok \in BOOLEAN, Switched(ok), upd.todo # <<>>,
           UNCHANGED <<cfg, lock, handle, enc>>, PanelSame,
           clk' \in [core : Nat, lp : Nat, hs : Nat], mngr' \in [Clks -> BOOLEAN],
           io' \in IoType, ph' \in PowerHandles(PowerClients),
           faults' \in 0 .. MaxFaults,
           upd'.todo = (IF ok THEN Rest(upd.todo) ELSE <<>>) => MngrOK' /\ ClkOK',
           ph'.ref["core"] = ph.ref["core"], ph'.ref["splash"] = ph.ref["splash"],
           ph'.ref["dsi"] >= b2n(mngr'["core"]), ph'.cur <=> ph'.res,
           EncPower \/ panel.kms \/ mngr'["core"] \/ panel.splash => ph'.cur
    PROVE  Base' /\ PanelLock'
PROOF
  <1>1. /\ pc' \in [Threads -> Labels] /\ LabelsOK' /\ EncOK' /\ PanelLock'
        /\ EncPower' <=> EncPower
        /\ Commit' <=> Commit
        /\ pc'["disp"] \in {"splash_off", "splash_done"} =>
               pc["disp"] \in {"splash_off", "splash_done"}
        /\ upd' \in [by : Threads \cup {Free}, todo : Todos] /\ UpdOK'
        /\ upd'.todo = IF ok THEN Rest(upd.todo) ELSE <<>>
    BY SwitchedTo
  <1>2. PowOK'
    BY <1>1 DEF Base, PowOK, b2n, PanelSame
  <1>3. RefOn'
    BY DEF Base, RefOn
  <1>4. TypeOK'
    <2>1. upd'.by \in Threads \cup {Free} /\ upd'.todo \in Seq(Switch)
      BY <1>1, TodoSeq
    <2>. QED
      BY <1>1, <2>1 DEF Base, TypeOK, IoType, PanelSame, PanelType
  <1>. QED
    BY <1>1, <1>2, <1>3, <1>4 DEF Base

\* Until the first failure, a switch that works.
LEMMA SwitchClean ==
    ASSUME IInv, faults = 0, Switched(TRUE), upd.todo # <<>>, Base', PanelSame,
           UNCHANGED <<cfg, lock, handle, enc>>,
           mngr' \in [Clks -> BOOLEAN],
           LET r == Rest(upd.todo)
           IN  /\ CoreGoesOn(r) => CoreGoesOn(upd.todo)
               /\ CoreGoesOff(r) => CoreGoesOff(upd.todo)
               /\ LinkGoesOn(r) => LinkGoesOn(upd.todo)
               /\ LinkGoesOff(r) => LinkGoesOff(upd.todo)
               /\ ~CoreGoesOn(r) /\ ~CoreGoesOff(r) => (mngr'["core"] <=> Want("core"))
               /\ ~LinkGoesOn(r) /\ ~LinkGoesOff(r) => (mngr'["link"] <=> Want("link"))
               /\ LpIsOn(r) => mngr'["core"],
           mngr["link"] /\ Want("link") => mngr'["link"],
           mngr'["link"] => mngr'["core"],
           ph'.ref["core"] = ph.ref["core"], ph'.ref["splash"] = ph.ref["splash"],
           ph'.ref["dsi"] = b2n(mngr'["core"]), ph.cur => ph'.cur \/ ph'.ref["core"] = 0
    PROVE  NoFailure' /\ RefsExact' /\ MngrExact' /\ PowExact'
PROOF
  <1>0. /\ Base /\ PanelLock /\ NoFailure /\ RefsExact /\ MngrExact /\ PowExact
        /\ LabelsOK /\ UpdOK /\ TypeOK
    BY CleanParts DEF Base
  <1>a. PICK ok \in BOOLEAN : ok = TRUE
    OBVIOUS
  <1>b. Switched(ok) /\ ok
    BY <1>a
  <1>1. /\ EncPower' <=> EncPower
        /\ Commit' <=> Commit
        /\ upd'.todo = Rest(upd.todo)
        /\ upd'.todo # <<>> => pc' = pc /\ upd'.by = upd.by
        /\ upd'.todo = <<>> => upd' = NoUpdate
        /\ upd.by \in Threads /\ \A u \in Threads : u # upd.by => pc'[u] = pc[u]
        /\ pc[upd.by] = "force" => upd.by = "disp" /\ pc'["disp"] \in {"force", "kicked"}
        /\ upd'.todo = <<>> /\ pc[upd.by] # "force" =>
               pc[upd.by] \in DOMAIN Calls /\ pc'[upd.by] = Calls[pc[upd.by]].ok
    BY <1>0, <1>b, SwitchedTo
  <1>2. \A u \in Threads : \/ Eff(u)' = Eff(u)
                           \/ u = "disp" /\ Eff(u) = "force" /\ Eff(u)' = "kicked"
    <2>1. CASE upd'.todo # <<>>
      BY <1>1, <2>1 DEF Eff
    <2>2. CASE upd'.todo = <<>>
      <3>1. upd'.by = Free
        BY <1>1, <2>2, NoTodo
      <3>2. \A u \in Threads : Eff(u)' = pc'[u]
        BY <3>1 DEF Eff, Threads, Free
      <3>3. \A u \in Threads : u # upd.by => Eff(u) = pc[u]
        BY DEF Eff
      <3>4. CASE pc[upd.by] # "force"
        <4>1. Eff(upd.by) = pc'[upd.by]
          BY <1>1, <2>2, <3>4 DEF Eff
        <4>. QED
          BY <1>1, <3>2, <3>3, <4>1
      <3>5. CASE pc[upd.by] = "force"
        <4>1. upd.by = "disp" /\ Eff("disp") = "force" /\ pc'["disp"] \in {"force", "kicked"}
          BY <1>1, <3>5 DEF Eff
        <4>. QED
          BY <1>1, <3>2, <3>3, <4>1 DEF Threads
      <3>. QED
        BY <3>4, <3>5
    <2>. QED
      BY <2>1, <2>2
  <1>3. \A m, k : Held(m, k)' = Held(m, k) /\ (LinkHeld(m)' <=> LinkHeld(m))
    BY DEF Held, CoreHeld, LinkHeld
  <1>4. \A k : Held("kicked", k) = Held("force", k)
    BY DEF Held, CoreHeld, LinkHeld, VideoOn, b2n
  <1>5. RefsExact'
    <2>. SUFFICES ASSUME NEW k \in Clks
                  PROVE  /\ handle["dsi"][k].ref = b2n(panel.splash)
                              + Held(Eff("disp")', k) + Held(Eff("panel")', k)
                              + Held(Eff("dbg")', k)
                         /\ handle["mdp"][k].ref = b2n(MdpHeld')
      BY <1>3 DEF RefsExact, PanelSame
    <2>1. /\ Held(Eff("disp")', k) = Held(Eff("disp"), k)
          /\ Eff("panel")' = Eff("panel") /\ Eff("dbg")' = Eff("dbg")
      BY <1>2, <1>4 DEF Threads
    <2>2. MdpHeld' <=> MdpHeld
      BY <1>2 DEF MdpHeld, Threads
    <2>. QED
      BY <1>0, <2>1, <2>2 DEF RefsExact, b2n
  <1>6. NoFailure'
    <2>1. CASE upd'.todo # <<>>
      BY <1>0, <1>1, <2>1 DEF NoFailure, PanelSame
    <2>2. CASE upd'.todo = <<>> /\ pc[upd.by] = "force"
      <3>1. pc'["disp"] \in {"force", "kicked"} /\ \A u \in Threads : u # "disp" => pc'[u] = pc[u]
        BY <1>1, <2>2
      <3>. QED
        BY <1>0, <3>1 DEF NoFailure, PanelSame, Blank, DispFailed, Threads
    <2>3. CASE upd'.todo = <<>> /\ pc[upd.by] # "force"
      <3>. DEFINE t == upd.by
                  l == pc[t]
                  e == Calls[l].ok
      <3>1. l \in DOMAIN Calls /\ pc'[t] = e /\ t \in Threads
        BY <1>1, <2>3
      <3>2. l \notin DispFailed /\ l # "esd_off_bad"
        BY <1>0, <1>1 DEF NoFailure, LabelsOK, Threads, RcLabels, PanelLabels, DbgLabels,
                          DispLabels, DispFailed
      <3>3. /\ e \notin DispFailed /\ e # "rc_refused"
            /\ e \notin {"esd_off_bad", "esd_bad", "post_enable", "pre_disable"}
            /\ e \in Blank => l \in Blank
        BY <3>1, <3>2, CallGoodEnd
      <3>4. \A u \in Threads : pc'[u] = IF u = t THEN e ELSE pc[u]
        BY <1>1, <3>1
      <3>. HIDE DEF t, e
      <3>. QED
        BY <1>0, <3>1, <3>3, <3>4 DEF NoFailure, PanelSame, Threads
    <2>. QED
      BY <2>1, <2>2, <2>3
  <1>7. PowExact'
    BY <1>0, <1>1 DEF PowExact, PanelSame, b2n
  <1>8. MngrExact'
    <2>0. LinkUsersWant /\ LinkUsersWant'
      BY <1>0, <1>5, LinkWanted, LinkWantedNext DEF LinkUsersWant
    <2>1. (Want("core")' <=> Want("core")) /\ (Want("link")' <=> Want("link"))
      BY DEF Want
    <2>2. Want("core")' \in BOOLEAN /\ Want("link")' \in BOOLEAN /\ "core" \in Clks /\ "link" \in Clks
      BY DEF Want, Clks
    <2>3. \A u \in Threads : LinkHeld(Eff(u))' => LinkHeld(Eff(u))
      <3>1. LinkHeld("kicked") <=> LinkHeld("force")
        BY DEF LinkHeld, VideoOn
      <3>2. \A u \in Threads : LinkHeld(Eff(u))' <=> LinkHeld(Eff(u)')
        BY DEF LinkHeld
      <3>. QED
        BY <1>2, <3>1, <3>2
    <2>4. \A u \in Threads : LinkHeld(Eff(u))' /\ upd'.by # u => mngr'["link"]
      <3>1. CASE upd'.todo # <<>>
        BY <1>0, <1>1, <2>0, <2>3, <3>1 DEF MngrExact, LinkUsersWant
      <3>2. CASE upd'.todo = <<>>
        <4>1. mngr'["link"] <=> Want("link")
          BY <1>1, <3>2, NoTodo
        <4>. QED
          BY <2>0, <2>3, <4>1 DEF LinkUsersWant
      <3>. QED
        BY <3>1, <3>2
    <2>5. panel'.splash => mngr'["link"]
      BY <1>0, <2>0 DEF PanelSame, LinkUsersWant, MngrExact
    <2>. QED
      BY <1>0, <1>1, <2>1, <2>2, <2>4, <2>5 DEF MngrExact
  <1>. QED
    BY <1>5, <1>6, <1>7, <1>8

\* A switch that works, and one that fails.
LEMMA SwitchOk ==
    ASSUME Base, PanelLock, Switched(TRUE), upd.todo # <<>>,
           UNCHANGED <<cfg, lock, handle, enc>>, PanelSame,
           clk' \in [core : Nat, lp : Nat, hs : Nat], mngr' \in [Clks -> BOOLEAN],
           io' \in IoType, ph' \in PowerHandles(PowerClients),
           faults' \in 0 .. MaxFaults,
           upd'.todo = Rest(upd.todo) => MngrOK' /\ ClkOK',
           ph'.ref["core"] = ph.ref["core"], ph'.ref["splash"] = ph.ref["splash"],
           ph'.ref["dsi"] >= b2n(mngr'["core"]), ph'.cur <=> ph'.res,
           EncPower \/ panel.kms \/ mngr'["core"] \/ panel.splash => ph'.cur
    PROVE  Base' /\ PanelLock' /\ upd'.todo = Rest(upd.todo)
PROOF
  <1>1. PICK ok \in BOOLEAN : ok = TRUE
    OBVIOUS
  <1>2. Switched(ok) /\ ok
    BY <1>1
  <1>3. upd'.todo = Rest(upd.todo)
    BY <1>2, SwitchedTo
  <1>. QED
    BY <1>2, <1>3, SwitchBase

LEMMA SwitchFails ==
    ASSUME Base, PanelLock, Switched(FALSE), upd.todo # <<>>,
           UNCHANGED <<cfg, lock, handle, enc, panel, mngr>>,
           clk' \in [core : Nat, lp : Nat, hs : Nat],
           io' \in IoType, ph' \in PowerHandles(PowerClients),
           faults' \in 0 .. MaxFaults,
           upd'.todo = <<>> => MngrOK' /\ ClkOK',
           ph'.ref["core"] = ph.ref["core"], ph'.ref["splash"] = ph.ref["splash"],
           ph'.ref["dsi"] >= b2n(mngr["core"]), ph'.cur <=> ph'.res,
           EncPower \/ panel.kms \/ mngr["core"] \/ panel.splash => ph'.cur
    PROVE  Base' /\ PanelLock'
PROOF
  <1>1. PICK ok \in BOOLEAN : ok = FALSE
    OBVIOUS
  <1>2. Switched(ok) /\ ~ok
    BY <1>1
  <1>3. PanelSame /\ mngr' \in [Clks -> BOOLEAN]
    BY Types DEF PanelSame, Base
  <1>. QED
    BY <1>2, <1>3, SwitchBase

\* What is known of the power handle while it is left alone.
LEMMA PowerKept ==
    ASSUME Base, UNCHANGED ph, NEW m \in [Clks -> BOOLEAN], m["core"] = mngr["core"]
    PROVE  /\ ph' \in PowerHandles(PowerClients)
           /\ ph'.ref["core"] = ph.ref["core"] /\ ph'.ref["splash"] = ph.ref["splash"]
           /\ ph'.ref["dsi"] >= b2n(m["core"]) /\ (ph'.cur <=> ph'.res)
           /\ EncPower \/ panel.kms \/ m["core"] \/ panel.splash => ph'.cur
           /\ PowExact => ph'.ref["dsi"] = b2n(m["core"])
  BY Types DEF Base, PowOK, PowExact, b2n

\* What is to be switched next.
LEMMA NextTodo ==
    ASSUME Base, NEW x, Next1(x)
    PROVE  upd.todo \in Todos /\ upd.todo # <<>> /\ Head(upd.todo) = x
  BY DEF Base, UpdOK, Next1

\* The panel is left alone.
LEMMA PanelKept == ASSUME Base, UNCHANGED panel PROVE PanelSame
  BY Types DEF Base, PanelSame

\* The panel's ways with ULPS.
LEMMA UlpsEntryIo ==
    ASSUME TypeOK
    PROVE  LET y == UlpsEntry(io)
           IN  /\ y \in IoType /\ y.vreg = io.vreg /\ y.clamp = io.clamp
               /\ y.phyoff = io.phyoff
               /\ \/ y = io
                  \/ /\ y.ulps /\ y.lanes /\ (cfg.ulps \/ cfg.susp)
                     /\ (panel.init \/ cfg.susp) /\ ~panel.splash
PROOF
  <1>. DEFINE y == UlpsEntry(io)
  <1>1. PICK e \in BOOLEAN : e = TRUE
    OBVIOUS
  <1>2. io \in IoType
    BY Types
  <1>. DEFINE z == dsi_display_set_ulps(io, e)
  <1>3. /\ z \in IoType /\ z.vreg = io.vreg /\ z.clamp = io.clamp /\ z.phyoff = io.phyoff
        /\ dsi_display_is_ulps_req_valid(io, e) => z.ulps = e /\ z.lanes = e
        /\ ~dsi_display_is_ulps_req_valid(io, e) => z = io
    BY <1>2, SetUlps
  <1>4. dsi_display_is_ulps_req_valid(io, e) =>
            (cfg.ulps \/ cfg.susp) /\ (panel.init \/ cfg.susp) /\ ~panel.splash
    BY <1>1 DEF dsi_display_is_ulps_req_valid
  <1>5. y = z \/ y = io
    BY <1>1 DEF UlpsEntry
  <1>. HIDE DEF y, z
  <1>6. /\ y \in IoType /\ y.vreg = io.vreg /\ y.clamp = io.clamp /\ y.phyoff = io.phyoff
        /\ \/ y = io
           \/ /\ y.ulps /\ y.lanes /\ (cfg.ulps \/ cfg.susp)
              /\ (panel.init \/ cfg.susp) /\ ~panel.splash
    BY <1>1, <1>2, <1>3, <1>4, <1>5
  <1>. QED
    BY <1>6 DEF y

LEMMA UnclampedIo ==
    ASSUME TypeOK
    PROVE  LET y == Unclamped(UlpsRestored(io))
           IN  /\ y \in IoType /\ y.vreg = io.vreg /\ ~y.clamp /\ ~y.phyoff
               /\ IoExact /\ ~panel.esd => y.ulps = io.ulps /\ y.lanes = io.lanes
PROOF
  <1>. DEFINE x == UlpsRestored(io)
              y == Unclamped(UlpsRestored(io))
              w == [io EXCEPT !.ulps = FALSE]
  <1>1. PICK e \in BOOLEAN : e = TRUE
    OBVIOUS
  <1>2. io \in IoType
    BY Types
  <1>3. /\ w \in IoType /\ w.vreg = io.vreg /\ w.clamp = io.clamp /\ w.phyoff = io.phyoff
        /\ ~w.ulps /\ w.lanes = io.lanes
    BY <1>2 DEF IoType
  <1>. DEFINE z == dsi_display_set_ulps(w, e)
  <1>. HIDE DEF w
  <1>4. /\ z \in IoType /\ z.vreg = w.vreg /\ z.clamp = w.clamp /\ z.phyoff = w.phyoff
        /\ dsi_display_is_ulps_req_valid(w, e) => z.ulps = e /\ z.lanes = e
    BY <1>3, SetUlps
  <1>5. IoExact /\ ~panel.esd /\ io.ulps => dsi_display_is_ulps_req_valid(w, e)
    BY <1>1, <1>3 DEF dsi_display_is_ulps_req_valid, IoExact
  <1>6. x = IF io.ulps /\ io.clamp THEN z ELSE io
    BY <1>1 DEF UlpsRestored, w
  <1>. HIDE DEF z
  <1>7. /\ x \in IoType /\ x.vreg = io.vreg
        /\ IoExact /\ ~panel.esd => x.ulps = io.ulps /\ x.lanes = io.lanes
    <2>1. CASE io.ulps /\ io.clamp
      <3>1. x = z
        BY <1>6, <2>1
      <3>2. IoExact => io.lanes = io.ulps
        BY DEF IoExact
      <3>. HIDE DEF x
      <3>3. io.ulps = e
        BY <1>1, <1>2, <2>1 DEF IoType
      <3>. QED
        BY <1>3, <1>4, <1>5, <2>1, <3>1, <3>2, <3>3
    <2>2. CASE ~(io.ulps /\ io.clamp)
      BY <1>2, <1>6, <2>2
    <2>. QED
      BY <2>1, <2>2
  <1>8. y = [x EXCEPT !.clamp = FALSE, !.phyoff = FALSE]
    BY DEF Unclamped
  <1>. HIDE DEF x, y
  <1>9. /\ y \in IoType /\ y.vreg = x.vreg /\ ~y.clamp /\ ~y.phyoff
        /\ y.ulps = x.ulps /\ y.lanes = x.lanes
    BY <1>7, <1>8 DEF IoType
  <1>10. /\ y \in IoType /\ y.vreg = io.vreg /\ ~y.clamp /\ ~y.phyoff
         /\ IoExact /\ ~panel.esd => y.ulps = io.ulps /\ y.lanes = io.lanes
    BY <1>7, <1>9
  <1>. QED
    BY <1>10 DEF y

LEMMA UlpsExitIo ==
    ASSUME NEW x \in IoType
    PROVE  LET y == UlpsExit(x)
           IN  /\ y \in IoType /\ y.vreg = x.vreg /\ y.clamp = x.clamp
               /\ y.phyoff = x.phyoff
               /\ /\ x.ulps => (cfg.ulps \/ cfg.susp) /\ (panel.init \/ cfg.susp)
                  /\ ~panel.esd /\ x.lanes = x.ulps
                  => ~y.ulps /\ ~y.lanes
PROOF
  <1>. DEFINE y == UlpsExit(x)
  <1>1. PICK e \in BOOLEAN : e = FALSE
    OBVIOUS
  <1>. DEFINE z == dsi_display_set_ulps(x, e)
  <1>2. /\ z \in IoType /\ z.vreg = x.vreg /\ z.clamp = x.clamp /\ z.phyoff = x.phyoff
        /\ dsi_display_is_ulps_req_valid(x, e) => z.ulps = e /\ z.lanes = e
    BY SetUlps
  <1>3. /\ x.ulps /\ (cfg.ulps \/ cfg.susp) /\ (panel.init \/ cfg.susp) /\ ~panel.esd
        => dsi_display_is_ulps_req_valid(x, e)
    BY <1>1 DEF dsi_display_is_ulps_req_valid
  <1>4. y = IF x.ulps THEN z ELSE x
    BY <1>1 DEF UlpsExit
  <1>. HIDE DEF y, z
  <1>5. CASE x.ulps
    <2>1. y = z
      BY <1>4, <1>5
    <2>2. /\ y \in IoType /\ y.vreg = x.vreg /\ y.clamp = x.clamp /\ y.phyoff = x.phyoff
          /\ (cfg.ulps \/ cfg.susp) /\ (panel.init \/ cfg.susp) /\ ~panel.esd
             => ~y.ulps /\ ~y.lanes
      BY <1>1, <1>2, <1>3, <1>5, <2>1
    <2>. QED
      BY <1>5, <2>2 DEF y
  <1>6. CASE ~x.ulps
    <2>1. y = x
      BY <1>4, <1>6
    <2>2. x.lanes = x.ulps => ~y.ulps /\ ~y.lanes
      BY <1>6, <2>1
    <2>. QED
      BY <2>1, <2>2 DEF y
  <1>. QED
    BY <1>5, <1>6

LEMMA ClampedIo ==
    ASSUME TypeOK
    PROVE  LET y == Clamped(io)
           IN  /\ y \in IoType
               /\ IoExact => /\ y.ulps = io.ulps /\ y.lanes = io.lanes
                             /\ (io.ulps => y.clamp)
PROOF
  <1>. DEFINE y == Clamped(io)
  <1>1. PICK e \in BOOLEAN : e = FALSE
    OBVIOUS
  <1>2. io \in IoType /\ cfg.phyoff \in BOOLEAN
    BY Types, DsiClkConstants DEF TypeOK, Panels
  <1>. DEFINE z == dsi_display_set_ulps(io, e)
  <1>3. /\ z \in IoType /\ (~dsi_display_is_ulps_req_valid(io, e) => z = io)
    BY <1>2, SetUlps
  <1>4. ~io.ulps => ~dsi_display_is_ulps_req_valid(io, e)
    BY <1>1, <1>2 DEF dsi_display_is_ulps_req_valid, IoType
  <1>. DEFINE w == [io EXCEPT !.clamp = TRUE, !.phyoff = @ \/ cfg.phyoff]
  <1>5. w \in IoType /\ w.clamp /\ w.ulps = io.ulps /\ w.lanes = io.lanes
    BY <1>2 DEF IoType
  <1>6. y = IF panel.init \/ cfg.susp THEN w ELSE z
    BY <1>1 DEF Clamped
  <1>7. IoExact /\ io.ulps => panel.init \/ cfg.susp
    BY DEF IoExact
  <1>. HIDE DEF y, z, w
  <1>8. /\ y \in IoType
        /\ IoExact => /\ y.ulps = io.ulps /\ y.lanes = io.lanes
                      /\ (io.ulps => y.clamp)
    BY <1>3, <1>4, <1>5, <1>6, <1>7
  <1>. QED
    BY <1>8 DEF y

\* HS clocks go off.
LEMMA KeepsHsOff ==
    ASSUME IInv, HsOff
    PROVE  IInv'
PROOF
  <1>. DEFINE s == upd.todo
              r == Rest(upd.todo)
  <1>0. Base /\ TypeOK /\ PanelLock /\ MngrOK /\ ClkOK
    BY DEF IInv, Base
  <1>1. /\ Next1("hs_off") /\ Switched(TRUE) /\ clk' = [clk EXCEPT !.hs = Off(@)]
        /\ UNCHANGED <<cfg, lock, handle, mngr, ph, io, panel, enc, faults>>
    BY DEF HsOff
  <1>2. s \in Todos /\ s # <<>> /\ Head(s) = "hs_off"
    BY <1>0, <1>1, NextTodo
  <1>3. /\ ~CoreGoesOn(s) /\ ~CoreGoesOn(r)
        /\ (CoreGoesOff(r) <=> CoreGoesOff(s)) /\ ~LinkGoesOn(s)
        /\ ~LinkGoesOn(r) /\ LinkGoesOff(s) /\ LinkGoesOff(r)
        /\ ~Forcing(s) /\ ~Forcing(r) /\ ~LpIsOn(s) /\ ~LpIsOn(r)
        /\ ~HsIsOff(s) /\ HsIsOff(r) /\ ~ForcedOff(s) /\ ~ForcedOff(r)
    BY <1>2, HsOffTodo
  <1>4. /\ clk' \in [core : Nat, lp : Nat, hs : Nat] /\ clk'.core = clk.core
        /\ clk'.lp = clk.lp /\ clk'.hs = Off(clk.hs)
    <2>1. clk \in [core : Nat, lp : Nat, hs : Nat] /\ Off(clk.hs) \in Nat
      BY <1>0, Types DEF Off
    <2>. QED
      BY <1>1, <2>1
  <1>5. /\ mngr \in [Clks -> BOOLEAN] /\ mngr' \in [Clks -> BOOLEAN] /\ io' \in IoType
        /\ faults' \in 0 .. MaxFaults /\ PanelSame
    BY <1>0, <1>1, Types, PanelKept
  <1>6. /\ ph' \in PowerHandles(PowerClients)
        /\ ph'.ref["core"] = ph.ref["core"] /\ ph'.ref["splash"] = ph.ref["splash"]
        /\ ph'.ref["dsi"] >= b2n(mngr'["core"]) /\ (ph'.cur <=> ph'.res)
        /\ EncPower \/ panel.kms \/ mngr'["core"] \/ panel.splash => ph'.cur
        /\ PowExact => ph'.ref["dsi"] = b2n(mngr'["core"])
    BY <1>0, <1>1, <1>5, PowerKept
  <1>7. upd'.todo = r => MngrOK' /\ ClkOK'
    BY <1>0, <1>1, <1>3, <1>4 DEF MngrOK, ClkOK
  <1>. HIDE DEF s, r
  <1>8. Base' /\ PanelLock' /\ upd'.todo = r
    BY <1>0, <1>1, <1>2, <1>4, <1>5, <1>6, <1>7, SwitchOk DEF s, r
  <1>9. ASSUME faults' = 0
        PROVE  NoFailure' /\ RefsExact' /\ MngrExact' /\ ClkExact' /\ IoExact' /\ PowExact'
    <2>0. faults = 0 /\ upd.todo = s
      BY <1>1, <1>9 DEF s
    <2>1. NoFailure /\ RefsExact /\ MngrExact /\ ClkExact /\ IoExact /\ PowExact
      BY <2>0, CleanParts
    <2>2. ClkExact'
      BY <1>0, <1>1, <1>3, <1>4, <1>8, <2>0, <2>1 DEF ClkExact, MngrOK, b2n, Off
    <2>3. IoExact'
      BY <1>1, <1>3, <1>8, <2>0, <2>1 DEF IoExact
    <2>4. /\ CoreGoesOn(r) => CoreGoesOn(s)
          /\ CoreGoesOff(r) => CoreGoesOff(s)
          /\ LinkGoesOn(r) => LinkGoesOn(s)
          /\ LinkGoesOff(r) => LinkGoesOff(s)
          /\ ~CoreGoesOn(r) /\ ~CoreGoesOff(r) => (mngr'["core"] <=> Want("core"))
          /\ ~LinkGoesOn(r) /\ ~LinkGoesOff(r) => (mngr'["link"] <=> Want("link"))
          /\ LpIsOn(r) => mngr'["core"]
      BY <1>1, <1>3, <2>0, <2>1 DEF MngrExact
    <2>5. (mngr["link"] /\ Want("link") => mngr'["link"]) /\ (mngr'["link"] => mngr'["core"])
      BY <1>1, <2>1 DEF MngrExact
    <2>6. ph.cur => ph'.cur \/ ph'.ref["core"] = 0
      BY <1>1
    <2>7. NoFailure' /\ RefsExact' /\ MngrExact' /\ PowExact'
      BY <1>1, <1>2, <1>5, <1>6, <1>8, <2>0, <2>1, <2>4, <2>5, <2>6, SwitchClean DEF s, r
    <2>. QED
      BY <2>2, <2>3, <2>7
  <1>. QED
    BY <1>8, <1>9 DEF IInv, Clean

\* LP clocks go off.
LEMMA KeepsLpOff ==
    ASSUME IInv, LpOff
    PROVE  IInv'
PROOF
  <1>. DEFINE s == upd.todo
              r == Rest(upd.todo)
  <1>0. Base /\ TypeOK /\ PanelLock /\ MngrOK /\ ClkOK
    BY DEF IInv, Base
  <1>1. /\ Next1("lp_off") /\ Switched(TRUE) /\ clk' = [clk EXCEPT !.lp = Off(@)]
        /\ mngr' = [mngr EXCEPT !["link"] = FALSE]
        /\ UNCHANGED <<cfg, lock, handle, ph, panel, enc>>
    BY DEF LpOff
  <1>2. s \in Todos /\ s # <<>> /\ Head(s) = "lp_off"
    BY <1>0, <1>1, NextTodo
  <1>3. /\ ~CoreGoesOn(s) /\ ~CoreGoesOn(r)
        /\ (CoreGoesOff(r) <=> CoreGoesOff(s)) /\ ~LinkGoesOn(s)
        /\ ~LinkGoesOn(r) /\ LinkGoesOff(s) /\ ~LinkGoesOff(r)
        /\ ~Forcing(s) /\ ~Forcing(r) /\ ~LpIsOn(s) /\ ~LpIsOn(r)
        /\ HsIsOff(s) /\ ~HsIsOff(r) /\ ~ForcedOff(s) /\ ~ForcedOff(r)
    BY <1>2, LpOffTodo
  <1>4. /\ clk' \in [core : Nat, lp : Nat, hs : Nat] /\ clk'.core = clk.core
        /\ clk'.hs = clk.hs /\ clk'.lp = Off(clk.lp)
    <2>1. clk \in [core : Nat, lp : Nat, hs : Nat] /\ Off(clk.lp) \in Nat
      BY <1>0, Types DEF Off
    <2>. QED
      BY <1>1, <2>1
  <1>5. /\ mngr \in [Clks -> BOOLEAN] /\ mngr' \in [Clks -> BOOLEAN]
        /\ mngr'["core"] = mngr["core"] /\ ~mngr'["link"] /\ PanelSame
    <2>1. mngr \in [Clks -> BOOLEAN] /\ PanelSame
      BY <1>0, <1>1, Types, PanelKept
    <2>. QED
      BY <1>1, <2>1 DEF Clks
  <1>a. /\ faults' \in 0 .. MaxFaults
        /\ \/ io' = UlpsEntry(io) /\ faults' = faults
           \/ io' = io /\ faults' # 0
    BY <1>0, Types, FaultCount DEF LpOff
  <1>b. /\ io' \in IoType
        /\ faults' = 0 => /\ io'.vreg = io.vreg /\ io'.clamp = io.clamp
                          /\ io'.phyoff = io.phyoff /\ faults = 0
                          /\ \/ io' = io
                             \/ /\ io'.ulps /\ io'.lanes /\ (cfg.ulps \/ cfg.susp)
                                /\ (panel.init \/ cfg.susp) /\ ~panel.splash
    <2>1. CASE io' = io /\ faults' # 0
      BY <1>0, <2>1, Types
    <2>2. CASE io' = UlpsEntry(io) /\ faults' = faults
      BY <1>0, <2>2, UlpsEntryIo
    <2>. QED
      BY <1>a, <2>1, <2>2
  <1>6. /\ ph' \in PowerHandles(PowerClients)
        /\ ph'.ref["core"] = ph.ref["core"] /\ ph'.ref["splash"] = ph.ref["splash"]
        /\ ph'.ref["dsi"] >= b2n(mngr'["core"]) /\ (ph'.cur <=> ph'.res)
        /\ EncPower \/ panel.kms \/ mngr'["core"] \/ panel.splash => ph'.cur
        /\ PowExact => ph'.ref["dsi"] = b2n(mngr'["core"])
    BY <1>0, <1>1, <1>5, PowerKept
  <1>7. upd'.todo = r => MngrOK' /\ ClkOK'
    BY <1>0, <1>3, <1>4, <1>5 DEF MngrOK, ClkOK
  <1>. HIDE DEF s, r
  <1>8. Base' /\ PanelLock' /\ upd'.todo = r
    BY <1>0, <1>1, <1>2, <1>4, <1>5, <1>6, <1>7, <1>a, <1>b, SwitchOk DEF s, r
  <1>9. ASSUME faults' = 0
        PROVE  NoFailure' /\ RefsExact' /\ MngrExact' /\ ClkExact' /\ IoExact' /\ PowExact'
    <2>0. faults = 0 /\ upd.todo = s
      BY <1>b, <1>9 DEF s
    <2>1. NoFailure /\ RefsExact /\ MngrExact /\ ClkExact /\ IoExact /\ PowExact
      BY <2>0, CleanParts
    <2>a. mngr["link"] /\ mngr["core"] /\ ~Want("link")
      BY <1>0, <1>3, <2>0, <2>1 DEF MngrOK, MngrExact
    <2>2. ClkExact'
      BY <1>3, <1>4, <1>5, <1>8, <2>a, <2>0, <2>1 DEF ClkExact, b2n, Off
    <2>3. IoExact'
      <3>1. io'.lanes = io'.ulps
        <4>1. CASE io' = io
          BY <2>1, <4>1 DEF IoExact
        <4>2. CASE io' # io
          BY <1>b, <1>9, <4>2 DEF IoType
        <4>. QED
          BY <4>1, <4>2
      <3>2. io'.ulps => (cfg.ulps \/ cfg.susp) /\ (panel.init \/ cfg.susp) /\ ~panel.splash
        BY <1>b, <1>9, <2>1 DEF IoExact
      <3>3. panel' = panel /\ cfg' = cfg
        BY <1>1
      <3>. QED
        BY <1>3, <1>5, <1>8, <1>b, <1>9, <2>a, <2>1, <3>1, <3>2, <3>3 DEF IoExact
    <2>4. /\ CoreGoesOn(r) => CoreGoesOn(s)
          /\ CoreGoesOff(r) => CoreGoesOff(s)
          /\ LinkGoesOn(r) => LinkGoesOn(s)
          /\ LinkGoesOff(r) => LinkGoesOff(s)
          /\ ~CoreGoesOn(r) /\ ~CoreGoesOff(r) => (mngr'["core"] <=> Want("core"))
          /\ ~LinkGoesOn(r) /\ ~LinkGoesOff(r) => (mngr'["link"] <=> Want("link"))
          /\ LpIsOn(r) => mngr'["core"]
      BY <1>5, <1>3, <2>a, <2>0, <2>1 DEF MngrExact
    <2>5. (mngr["link"] /\ Want("link") => mngr'["link"]) /\ (mngr'["link"] => mngr'["core"])
      BY <1>5, <2>a
    <2>6. ph.cur => ph'.cur \/ ph'.ref["core"] = 0
      BY <1>1
    <2>7. NoFailure' /\ RefsExact' /\ MngrExact' /\ PowExact'
      BY <1>1, <1>2, <1>5, <1>6, <1>8, <2>0, <2>1, <2>4, <2>5, <2>6, SwitchClean DEF s, r
    <2>. QED
      BY <2>2, <2>3, <2>7
  <1>. QED
    BY <1>8, <1>9 DEF IInv, Clean

\* Core clocks go on.
LEMMA KeepsCoreOn ==
    ASSUME IInv, CoreOn
    PROVE  IInv'
PROOF
  <1>. DEFINE s == upd.todo
              r == Rest(upd.todo)
  <1>0. Base /\ TypeOK /\ PanelLock /\ MngrOK /\ ClkOK /\ PowOK
    BY DEF IInv, Base
  <1>1. /\ Next1("core_on") /\ Switched(TRUE)
        /\ UNCHANGED <<cfg, lock, handle, panel, enc, faults>>
    BY DEF CoreOn, Works
  <1>2. s \in Todos /\ s # <<>> /\ Head(s) = "core_on"
    BY <1>0, <1>1, NextTodo
  <1>3. /\ CoreGoesOn(s) /\ ~CoreGoesOn(r) /\ ~CoreGoesOff(s) /\ ~CoreGoesOff(r)
        /\ (LinkGoesOn(r) <=> LinkGoesOn(s)) /\ (LinkGoesOff(r) <=> LinkGoesOff(s))
        /\ ~Forcing(s) /\ ~Forcing(r) /\ ~LpIsOn(s) /\ ~LpIsOn(r) /\ ~HsIsOff(s)
        /\ ~HsIsOff(r) /\ ~ForcedOff(s) /\ ~ForcedOff(r)
    BY <1>2, CoreOnTodo
  <1>4. /\ clk' \in [core : Nat, lp : Nat, hs : Nat] /\ clk'.core = clk.core + 1
        /\ clk'.lp = clk.lp /\ clk'.hs = clk.hs /\ clk.core \in Nat
    <2>1. clk \in [core : Nat, lp : Nat, hs : Nat]
      BY <1>0, Types
    <2>2. clk' = [clk EXCEPT !.core = @ + 1]
      BY DEF CoreOn
    <2>. QED
      BY <2>1, <2>2
  <1>5. /\ mngr' \in [Clks -> BOOLEAN] /\ mngr'["core"] /\ mngr'["link"] = mngr["link"]
        /\ PanelSame /\ faults' \in 0 .. MaxFaults
    <2>1. mngr \in [Clks -> BOOLEAN] /\ PanelSame /\ faults' \in 0 .. MaxFaults
      BY <1>0, <1>1, Types, PanelKept
    <2>2. mngr' = [mngr EXCEPT !["core"] = TRUE]
      BY DEF CoreOn
    <2>. QED
      BY <2>1, <2>2 DEF Clks
  <1>b. /\ io' \in IoType /\ io'.vreg /\ io'.clamp = io.clamp /\ io'.ulps = io.ulps
        /\ io'.lanes = io.lanes /\ io'.phyoff = io.phyoff
    <2>1. io \in IoType /\ io' = [io EXCEPT !.vreg = TRUE]
      BY <1>0, Types DEF CoreOn
    <2>. QED
      BY <2>1 DEF IoType
  <1>c. "core" \in PowerClients /\ "dsi" \in PowerClients /\ "splash" \in PowerClients
    BY DEF PowerClients
  <1>p. /\ ph' \in PowerHandles(PowerClients) /\ ph'.cur /\ ph'.res
        /\ ph'.ref["dsi"] = ph.ref["dsi"] + 1 /\ ph.ref["dsi"] \in Nat
        /\ ph'.ref["core"] = ph.ref["core"] /\ ph'.ref["splash"] = ph.ref["splash"]
    <2>1. ph' = sde_power_resource_enable(ph, "dsi", TRUE)
      BY DEF CoreOn
    <2>. QED
      BY <1>0, <1>c, <2>1, PowerUp
  <1>6. /\ ph'.ref["dsi"] >= b2n(mngr'["core"]) /\ (ph'.cur <=> ph'.res)
        /\ EncPower \/ panel.kms \/ mngr'["core"] \/ panel.splash => ph'.cur
    BY <1>p DEF b2n
  <1>7. upd'.todo = r => MngrOK' /\ ClkOK'
    <2>1. panel' = panel /\ faults' = faults
      BY <1>1
    <2>. QED
      BY <1>0, <1>3, <1>4, <1>5, <2>1 DEF MngrOK, ClkOK
  <1>. HIDE DEF s, r
  <1>8. Base' /\ PanelLock' /\ upd'.todo = r
    BY <1>0, <1>1, <1>2, <1>4, <1>5, <1>6, <1>7, <1>b, <1>p, SwitchOk DEF s, r
  <1>9. ASSUME faults' = 0
        PROVE  NoFailure' /\ RefsExact' /\ MngrExact' /\ ClkExact' /\ IoExact' /\ PowExact'
    <2>0. faults = 0 /\ upd.todo = s /\ panel' = panel /\ cfg' = cfg
      BY <1>1, <1>9 DEF s
    <2>1. NoFailure /\ RefsExact /\ MngrExact /\ ClkExact /\ IoExact /\ PowExact
      BY <2>0, CleanParts
    <2>a. ~mngr["core"] /\ ~mngr["link"] /\ Want("core")
      BY <1>0, <1>3, <2>0, <2>1 DEF MngrOK, MngrExact
    <2>2. ClkExact'
      BY <1>3, <1>4, <1>5, <1>8, <2>a, <2>0, <2>1 DEF ClkExact, b2n
    <2>3. IoExact'
      <3>1. io'.vreg = mngr'["core"]
        BY <1>b, <1>5 DEF IoType, Clks
      <3>. QED
        BY <1>3, <1>5, <1>8, <1>b, <2>a, <2>0, <2>1, <3>1 DEF IoExact
    <2>4. /\ CoreGoesOn(r) => CoreGoesOn(s)
          /\ CoreGoesOff(r) => CoreGoesOff(s)
          /\ LinkGoesOn(r) => LinkGoesOn(s)
          /\ LinkGoesOff(r) => LinkGoesOff(s)
          /\ ~CoreGoesOn(r) /\ ~CoreGoesOff(r) => (mngr'["core"] <=> Want("core"))
          /\ ~LinkGoesOn(r) /\ ~LinkGoesOff(r) => (mngr'["link"] <=> Want("link"))
          /\ LpIsOn(r) => mngr'["core"]
      BY <1>5, <1>3, <2>a, <2>0, <2>1 DEF MngrExact
    <2>5. (mngr["link"] /\ Want("link") => mngr'["link"]) /\ (mngr'["link"] => mngr'["core"])
      BY <1>5, <2>a
    <2>6. ph'.ref["dsi"] = b2n(mngr'["core"]) /\ (ph.cur => ph'.cur \/ ph'.ref["core"] = 0)
      BY <1>5, <1>p, <2>a, <2>1 DEF PowExact, b2n
    <2>7. NoFailure' /\ RefsExact' /\ MngrExact' /\ PowExact'
      BY <1>1, <1>2, <1>5, <1>p, <1>8, <2>0, <2>1, <2>4, <2>5, <2>6, SwitchClean DEF s, r
    <2>. QED
      BY <2>2, <2>3, <2>7
  <1>. QED
    BY <1>8, <1>9 DEF IInv, Clean

\* The power handle after a failure to switch core clocks on.
LEMMA CoreOnLost ==
    ASSUME Base, CoreOnFails
    PROVE  /\ ph' \in PowerHandles(PowerClients)
           /\ ph'.ref["core"] = ph.ref["core"] /\ ph'.ref["splash"] = ph.ref["splash"]
           /\ ph'.ref["dsi"] >= b2n(mngr["core"]) /\ (ph'.cur <=> ph'.res)
           /\ EncPower \/ panel.kms \/ mngr["core"] \/ panel.splash => ph'.cur
           /\ io' \in IoType /\ faults' \in 0 .. MaxFaults
           /\ faults' = 0 => io.vreg
           /\ faults' >= faults
PROOF
  <1>0. TypeOK /\ PowOK /\ MngrOK
    BY DEF Base
  <1>1. mngr \in [Clks -> BOOLEAN] /\ io \in IoType /\ "core" \in Clks
    BY <1>0, Types DEF Clks
  <1>c. "core" \in PowerClients /\ "dsi" \in PowerClients /\ "splash" \in PowerClients
    BY DEF PowerClients
  <1>r. /\ ph \in PowerHandles(PowerClients) /\ ph.ref["core"] \in Nat
        /\ ph.ref["dsi"] \in Nat /\ ph.ref["splash"] \in Nat
    BY <1>0, <1>c, Types DEF PowerHandles
  <1>m. ~mngr["core"]
    <2>1. upd.todo \in Todos /\ upd.todo # <<>> /\ Head(upd.todo) = "core_on"
      BY NextTodo DEF CoreOnFails
    <2>. QED
      BY <1>0, <2>1, CoreOnTodo DEF MngrOK
  <1>f. /\ faults' \in 0 .. MaxFaults /\ faults' >= faults
        /\ faults' = 0 => io.vreg
    <2>1. (io.vreg /\ Works) \/ Fails("vreg") \/ Fails("power") \/ Fails("core")
      BY DEF CoreOnFails
    <2>2. faults \in Nat
      BY <1>0, Types
    <2>. QED
      BY <1>0, <2>1, <2>2, FaultCount
  <1>i. io' \in IoType
    <2>1. io' = io \/ io' = [io EXCEPT !.vreg = TRUE]
      BY DEF CoreOnFails
    <2>. QED
      BY <1>1, <2>1 DEF IoType
  <1>. DEFINE up == sde_power_resource_enable(ph, "dsi", TRUE)
              down == sde_power_resource_enable(up, "dsi", FALSE)
  <1>p. \/ ph' = ph
        \/ _resource_changed(ph, "dsi", TRUE) /\ ph' = sde_power_resource_enable_fails(ph, "dsi")
        \/ ph' = down
    BY DEF CoreOnFails
  <1>2. CASE ph' = ph
    BY <1>0, <1>2, <1>f, <1>i, <1>r DEF PowOK
  <1>3. CASE _resource_changed(ph, "dsi", TRUE) /\ ph' = sde_power_resource_enable_fails(ph, "dsi")
    <2>1. ~ph.cur
      BY <1>c, <1>r, <1>3, PowerSwitches
    <2>2. ph' = sde_power_resource_enable_fails(ph, "dsi")
      BY <1>3
    <2>3. /\ ph' \in PowerHandles(PowerClients) /\ ~ph'.cur /\ ~ph'.res
          /\ ph'.ref["dsi"] = ph.ref["dsi"] + 1
          /\ ph'.ref["core"] = ph.ref["core"] /\ ph'.ref["splash"] = ph.ref["splash"]
      BY <1>c, <2>1, <2>2, PowerLost
    <2>. QED
      BY <1>0, <1>f, <1>i, <1>m, <1>r, <2>1, <2>3 DEF PowOK, b2n
  <1>4. CASE ph' = down
    <2>1. /\ up \in PowerHandles(PowerClients) /\ up.cur /\ up.res
          /\ up.ref["dsi"] = ph.ref["dsi"] + 1
          /\ up.ref["core"] = ph.ref["core"] /\ up.ref["splash"] = ph.ref["splash"]
      BY <1>0, <1>c, <1>r, PowerOn DEF PowOK
    <2>2. /\ down \in PowerHandles(PowerClients) /\ (down.cur <=> down.res)
          /\ down.ref["dsi"] = IF up.ref["dsi"] = 0 THEN 0 ELSE up.ref["dsi"] - 1
          /\ down.ref["core"] = up.ref["core"] /\ down.ref["splash"] = up.ref["splash"]
          /\ down.ref["core"] > 0 \/ down.ref["splash"] > 0 => down.cur
      <3>. HIDE DEF up
      <3>. QED
        BY <1>c, <2>1, PowerOff
    <2>. HIDE DEF up, down
    <2>3. down.ref["dsi"] = ph.ref["dsi"]
      BY <1>r, <2>1, <2>2
    <2>. QED
      BY <1>0, <1>4, <1>f, <1>i, <1>m, <1>r, <2>1, <2>2, <2>3 DEF PowOK, b2n
  <1>. QED
    BY <1>2, <1>3, <1>4, <1>p

\* Core clocks do not go on.
LEMMA KeepsCoreOnFails ==
    ASSUME IInv, CoreOnFails
    PROVE  IInv'
PROOF
  <1>. DEFINE s == upd.todo
  <1>0. Base /\ TypeOK /\ PanelLock /\ MngrOK /\ ClkOK
    BY DEF IInv, Base
  <1>1. /\ Next1("core_on") /\ Switched(FALSE)
        /\ UNCHANGED <<cfg, lock, handle, mngr, clk, panel, enc>>
    BY DEF CoreOnFails
  <1>2. s \in Todos /\ s # <<>> /\ Head(s) = "core_on"
    BY <1>0, <1>1, NextTodo
  <1>3. /\ CoreGoesOn(s) /\ ~LpIsOn(s) /\ ~HsIsOff(s) /\ ~ForcedOff(s)
    BY <1>2, CoreOnTodo
  <1>4. clk' \in [core : Nat, lp : Nat, hs : Nat] /\ faults \in Nat
    BY <1>0, <1>1, Types
  <1>5. /\ ph' \in PowerHandles(PowerClients)
        /\ ph'.ref["core"] = ph.ref["core"] /\ ph'.ref["splash"] = ph.ref["splash"]
        /\ ph'.ref["dsi"] >= b2n(mngr["core"]) /\ (ph'.cur <=> ph'.res)
        /\ EncPower \/ panel.kms \/ mngr["core"] \/ panel.splash => ph'.cur
        /\ io' \in IoType /\ faults' \in 0 .. MaxFaults
        /\ faults' = 0 => io.vreg
        /\ faults' >= faults
    BY <1>0, CoreOnLost
  <1>6. upd'.todo = <<>> => MngrOK' /\ ClkOK'
    <2>1. mngr' = mngr /\ clk' = clk /\ panel' = panel /\ (faults > 0 => faults' > 0)
      BY <1>1, <1>4, <1>5
    <2>. QED
      BY <1>0, <1>3, <2>1, NoTodo DEF MngrOK, ClkOK
  <1>7. Base' /\ PanelLock'
    BY <1>0, <1>1, <1>2, <1>4, <1>5, <1>6, SwitchFails
  <1>8. faults' # 0
    <2>1. SUFFICES ASSUME faults' = 0 PROVE FALSE
      OBVIOUS
    <2>2. faults = 0 /\ io.vreg
      BY <1>4, <1>5, <2>1
    <2>3. IoExact
      BY <2>2, CleanParts
    <2>. QED
      BY <1>0, <1>3, <2>2, <2>3 DEF IoExact, MngrOK
  <1>. QED
    BY <1>7, <1>8 DEF IInv, Clean

\* LP clocks go on, or fail to.
LEMMA KeepsLpOn ==
    ASSUME IInv, LpOn
    PROVE  IInv'
PROOF
  <1>. DEFINE s == upd.todo
              r == Rest(upd.todo)
  <1>0. Base /\ TypeOK /\ PanelLock /\ MngrOK /\ ClkOK
    BY DEF IInv, Base
  <1>1. Next1("lp_on") /\ UNCHANGED <<cfg, lock, handle, mngr, ph, panel, enc>>
    BY DEF LpOn
  <1>2. s \in Todos /\ s # <<>> /\ Head(s) = "lp_on"
    BY <1>0, <1>1, NextTodo
  <1>3. /\ ~CoreGoesOn(s) /\ ~CoreGoesOn(r)
        /\ (CoreGoesOff(r) <=> CoreGoesOff(s)) /\ LinkGoesOn(s)
        /\ LinkGoesOn(r) /\ ~LinkGoesOff(s) /\ ~LinkGoesOff(r)
        /\ ~Forcing(s) /\ ~Forcing(r) /\ ~LpIsOn(s) /\ LpIsOn(r)
        /\ ~HsIsOff(s) /\ ~HsIsOff(r) /\ ~ForcedOff(s) /\ ~ForcedOff(r)
    BY <1>2, LpOnTodo
  <1>4. /\ clk \in [core : Nat, lp : Nat, hs : Nat] /\ io \in IoType
        /\ mngr' \in [Clks -> BOOLEAN] /\ PanelSame /\ faults \in Nat
    BY <1>0, <1>1, Types, PanelKept
  <1>5. /\ ph' \in PowerHandles(PowerClients)
        /\ ph'.ref["core"] = ph.ref["core"] /\ ph'.ref["splash"] = ph.ref["splash"]
        /\ ph'.ref["dsi"] >= b2n(mngr'["core"]) /\ (ph'.cur <=> ph'.res)
        /\ EncPower \/ panel.kms \/ mngr'["core"] \/ panel.splash => ph'.cur
        /\ PowExact => ph'.ref["dsi"] = b2n(mngr'["core"])
    BY <1>0, <1>1, <1>4, PowerKept
  <1>m. ~mngr["link"] /\ mngr' = mngr /\ panel' = panel
    BY <1>0, <1>1, <1>3 DEF MngrOK
  <1>w. \/ /\ clk' = [clk EXCEPT !.lp = @ + 1] /\ io' = Unclamped(UlpsRestored(io))
           /\ Switched(TRUE) /\ Works
        \/ /\ Switched(FALSE) /\ (Fails("lp") \/ Fails("ulps"))
           /\ \/ clk' = clk /\ io' = io
              \/ /\ clk' = [clk EXCEPT !.lp = @ + 1]
                 /\ io' = [io EXCEPT !.ulps = FALSE, !.phyoff = FALSE]
    BY DEF LpOn
  <1>6. CASE /\ Switched(FALSE) /\ (Fails("lp") \/ Fails("ulps"))
             /\ \/ clk' = clk /\ io' = io
                \/ /\ clk' = [clk EXCEPT !.lp = @ + 1]
                   /\ io' = [io EXCEPT !.ulps = FALSE, !.phyoff = FALSE]
    <2>1. faults' # 0 /\ faults' \in 0 .. MaxFaults
      BY <1>0, <1>4, <1>6, FaultCount
    <2>2. io' \in IoType
      <3>1. io' = io \/ io' = [io EXCEPT !.ulps = FALSE, !.phyoff = FALSE]
        BY <1>6
      <3>. QED
        BY <1>4, <3>1 DEF IoType
    <2>3. clk' \in [core : Nat, lp : Nat, hs : Nat] /\ clk'.core = clk.core
      <3>1. clk' = clk \/ clk' = [clk EXCEPT !.lp = @ + 1]
        BY <1>6
      <3>. QED
        BY <1>4, <3>1
    <2>4. upd'.todo = <<>> => MngrOK' /\ ClkOK'
      BY <1>0, <1>m, <2>3, NoTodo DEF MngrOK, ClkOK
    <2>5. Switched(FALSE)
      BY <1>6
    <2>6. Base' /\ PanelLock'
      BY <1>0, <1>1, <1>2, <1>5, <1>m, <2>1, <2>2, <2>3, <2>4, <2>5, SwitchFails
    <2>. QED
      BY <2>1, <2>6 DEF IInv, Clean
  <1>7. CASE /\ clk' = [clk EXCEPT !.lp = @ + 1] /\ io' = Unclamped(UlpsRestored(io))
             /\ Switched(TRUE) /\ Works
    <2>c. /\ clk' \in [core : Nat, lp : Nat, hs : Nat] /\ clk'.core = clk.core
          /\ clk'.lp = clk.lp + 1 /\ clk'.hs = clk.hs /\ clk.lp \in Nat
      <3>1. clk' = [clk EXCEPT !.lp = @ + 1]
        BY <1>7
      <3>. QED
        BY <1>4, <3>1
    <2>f. faults' = faults /\ faults' \in 0 .. MaxFaults
      BY <1>0, <1>7, FaultCount
    <2>i. /\ io' \in IoType /\ io'.vreg = io.vreg /\ ~io'.clamp /\ ~io'.phyoff
          /\ IoExact /\ ~panel.esd => io'.ulps = io.ulps /\ io'.lanes = io.lanes
      <3>1. io' = Unclamped(UlpsRestored(io))
        BY <1>7
      <3>. QED
        BY <1>0, <3>1, UnclampedIo
    <2>0. upd'.todo = r => MngrOK' /\ ClkOK'
      BY <1>0, <1>3, <1>m, <2>c, <2>f DEF MngrOK, ClkOK
    <2>s. Switched(TRUE)
      BY <1>7
    <2>. HIDE DEF s, r
    <2>1. Base' /\ PanelLock' /\ upd'.todo = r
      BY <1>0, <1>1, <1>2, <1>4, <1>5, <2>0, <2>c, <2>f, <2>i, <2>s, SwitchOk DEF s, r
    <2>2. ASSUME faults' = 0
          PROVE  NoFailure' /\ RefsExact' /\ MngrExact' /\ ClkExact' /\ IoExact' /\ PowExact'
      <3>0. faults = 0 /\ upd.todo = s /\ cfg' = cfg
        BY <1>1, <2>2, <2>f DEF s
      <3>1. NoFailure /\ RefsExact /\ MngrExact /\ ClkExact /\ IoExact /\ PowExact
        BY <3>0, CleanParts
      <3>a. mngr["core"] /\ Want("link")
        <4>1. Want("link") /\ Want("core")
          BY <1>0, <1>3, <3>0, <3>1, LinkWanted DEF MngrExact
        <4>. QED
          BY <1>0, <1>3, <3>0, <3>1, <4>1 DEF MngrExact, MngrOK
      <3>2. ClkExact'
        BY <1>3, <1>m, <2>1, <2>c, <3>0, <3>1 DEF ClkExact, b2n
      <3>3. IoExact'
        <4>1. ~panel.esd
          BY <3>1 DEF NoFailure
        <4>. QED
          BY <1>3, <1>m, <2>1, <2>i, <3>a, <3>0, <3>1, <4>1 DEF IoExact
      <3>4. /\ CoreGoesOn(r) => CoreGoesOn(s)
            /\ CoreGoesOff(r) => CoreGoesOff(s)
            /\ LinkGoesOn(r) => LinkGoesOn(s)
            /\ LinkGoesOff(r) => LinkGoesOff(s)
            /\ ~CoreGoesOn(r) /\ ~CoreGoesOff(r) => (mngr'["core"] <=> Want("core"))
            /\ ~LinkGoesOn(r) /\ ~LinkGoesOff(r) => (mngr'["link"] <=> Want("link"))
            /\ LpIsOn(r) => mngr'["core"]
        BY <1>3, <1>m, <3>a, <3>0, <3>1 DEF MngrExact
      <3>5. (mngr["link"] /\ Want("link") => mngr'["link"]) /\ (mngr'["link"] => mngr'["core"])
        BY <1>m
      <3>6. ph.cur => ph'.cur \/ ph'.ref["core"] = 0
        BY <1>1
      <3>7. NoFailure' /\ RefsExact' /\ MngrExact' /\ PowExact'
        BY <1>1, <1>2, <1>4, <1>5, <2>1, <2>s, <3>0, <3>1, <3>4, <3>5, <3>6, SwitchClean
           DEF s, r
      <3>. QED
        BY <3>2, <3>3, <3>7
    <2>. QED
      BY <2>1, <2>2 DEF IInv, Clean
  <1>. QED
    BY <1>6, <1>7, <1>w

\* HS clocks go on, or fail to.
LEMMA KeepsHsOn ==
    ASSUME IInv, HsOn
    PROVE  IInv'
PROOF
  <1>. DEFINE s == upd.todo
              r == Rest(upd.todo)
  <1>0. Base /\ TypeOK /\ PanelLock /\ MngrOK /\ ClkOK
    BY DEF IInv, Base
  <1>1. Next1("hs_on") /\ UNCHANGED <<cfg, lock, handle, ph, panel, enc>>
    BY DEF HsOn
  <1>2. s \in Todos /\ s # <<>> /\ Head(s) = "hs_on"
    BY <1>0, <1>1, NextTodo
  <1>3. /\ ~CoreGoesOn(s) /\ ~CoreGoesOn(r)
        /\ (CoreGoesOff(r) <=> CoreGoesOff(s)) /\ LinkGoesOn(s)
        /\ ~LinkGoesOn(r) /\ ~LinkGoesOff(s) /\ ~LinkGoesOff(r)
        /\ ~Forcing(s) /\ ~Forcing(r) /\ LpIsOn(s) /\ ~LpIsOn(r)
        /\ ~HsIsOff(s) /\ ~HsIsOff(r) /\ ~ForcedOff(s) /\ ~ForcedOff(r)
    BY <1>2, HsOnTodo
  <1>4. /\ clk \in [core : Nat, lp : Nat, hs : Nat] /\ io \in IoType
        /\ mngr \in [Clks -> BOOLEAN] /\ PanelSame /\ faults \in Nat
    BY <1>0, <1>1, Types, PanelKept
  <1>m. ~mngr["link"] /\ panel' = panel /\ clk.lp > 0
    BY <1>0, <1>1, <1>3 DEF MngrOK, ClkOK
  <1>w. \/ /\ clk' = [clk EXCEPT !.hs = @ + 1] /\ io' = UlpsExit(io)
           /\ mngr' = [mngr EXCEPT !["link"] = TRUE] /\ Switched(TRUE) /\ Works
        \/ /\ Switched(FALSE) /\ (Fails("hs") \/ Fails("ulps")) /\ io' = io /\ mngr' = mngr
           /\ clk' = clk \/ clk' = [clk EXCEPT !.hs = @ + 1]
    BY DEF HsOn
  <1>6. CASE /\ Switched(FALSE) /\ (Fails("hs") \/ Fails("ulps")) /\ io' = io /\ mngr' = mngr
             /\ clk' = clk \/ clk' = [clk EXCEPT !.hs = @ + 1]
    <2>1. /\ faults' # 0 /\ faults' \in 0 .. MaxFaults /\ io' \in IoType
          /\ UNCHANGED <<cfg, lock, handle, enc, panel, mngr>> /\ Switched(FALSE)
      <3>1. faults' # 0 /\ faults' \in 0 .. MaxFaults
        BY <1>0, <1>4, <1>6, FaultCount
      <3>2. io' = io /\ mngr' = mngr /\ Switched(FALSE)
        BY <1>6
      <3>3. io' \in IoType /\ UNCHANGED <<cfg, lock, handle, enc, panel, mngr>>
        BY <1>1, <1>4, <3>2
      <3>. QED
        BY <3>1, <3>2, <3>3
    <2>2. /\ ph' \in PowerHandles(PowerClients)
          /\ ph'.ref["core"] = ph.ref["core"] /\ ph'.ref["splash"] = ph.ref["splash"]
          /\ ph'.ref["dsi"] >= b2n(mngr["core"]) /\ (ph'.cur <=> ph'.res)
          /\ EncPower \/ panel.kms \/ mngr["core"] \/ panel.splash => ph'.cur
      BY <1>0, <1>1, <1>4, PowerKept
    <2>3. clk' \in [core : Nat, lp : Nat, hs : Nat] /\ clk'.core = clk.core
      BY <1>4, <1>6
    <2>4. upd'.todo = <<>> => MngrOK' /\ ClkOK'
      <3>1. mngr' = mngr
        BY <2>1
      <3>. QED
        BY <1>0, <1>m, <2>3, <3>1, NoTodo DEF MngrOK, ClkOK
    <2>6. Base' /\ PanelLock'
      BY <1>0, <1>2, <2>1, <2>2, <2>3, <2>4, SwitchFails
    <2>. QED
      BY <2>1, <2>6 DEF IInv, Clean
  <1>7. CASE /\ clk' = [clk EXCEPT !.hs = @ + 1] /\ io' = UlpsExit(io)
             /\ mngr' = [mngr EXCEPT !["link"] = TRUE] /\ Switched(TRUE) /\ Works
    <2>c. /\ clk' \in [core : Nat, lp : Nat, hs : Nat] /\ clk'.core = clk.core
          /\ clk'.lp = clk.lp /\ clk'.hs = clk.hs + 1 /\ clk.hs \in Nat
      <3>1. clk' = [clk EXCEPT !.hs = @ + 1]
        BY <1>7
      <3>. QED
        BY <1>4, <3>1
    <2>m. /\ mngr' \in [Clks -> BOOLEAN] /\ mngr'["link"] /\ mngr'["core"] = mngr["core"]
      <3>1. mngr' = [mngr EXCEPT !["link"] = TRUE]
        BY <1>7
      <3>. QED
        BY <1>4, <3>1 DEF Clks
    <2>f. faults' = faults /\ faults' \in 0 .. MaxFaults
      BY <1>0, <1>7, FaultCount
    <2>i. /\ io' \in IoType /\ io'.vreg = io.vreg /\ io'.clamp = io.clamp
          /\ io'.phyoff = io.phyoff
          /\ /\ io.ulps => (cfg.ulps \/ cfg.susp) /\ (panel.init \/ cfg.susp)
             /\ ~panel.esd /\ io.lanes = io.ulps
             => ~io'.ulps /\ ~io'.lanes
      <3>1. io' = UlpsExit(io)
        BY <1>7
      <3>. QED
        BY <1>4, <3>1, UlpsExitIo
    <2>p. /\ ph' \in PowerHandles(PowerClients)
          /\ ph'.ref["core"] = ph.ref["core"] /\ ph'.ref["splash"] = ph.ref["splash"]
          /\ ph'.ref["dsi"] >= b2n(mngr'["core"]) /\ (ph'.cur <=> ph'.res)
          /\ EncPower \/ panel.kms \/ mngr'["core"] \/ panel.splash => ph'.cur
          /\ PowExact => ph'.ref["dsi"] = b2n(mngr'["core"])
      BY <1>0, <1>1, <2>m, PowerKept
    <2>0. upd'.todo = r => MngrOK' /\ ClkOK'
      BY <1>0, <1>3, <1>m, <2>c, <2>f, <2>m DEF MngrOK, ClkOK
    <2>s. Switched(TRUE)
      BY <1>7
    <2>. HIDE DEF s, r
    <2>1. Base' /\ PanelLock' /\ upd'.todo = r
      BY <1>0, <1>1, <1>2, <1>4, <2>0, <2>c, <2>f, <2>i, <2>m, <2>p, <2>s, SwitchOk DEF s, r
    <2>2. ASSUME faults' = 0
          PROVE  NoFailure' /\ RefsExact' /\ MngrExact' /\ ClkExact' /\ IoExact' /\ PowExact'
      <3>0. faults = 0 /\ upd.todo = s /\ cfg' = cfg
        BY <1>1, <2>2, <2>f DEF s
      <3>1. NoFailure /\ RefsExact /\ MngrExact /\ ClkExact /\ IoExact /\ PowExact
        BY <3>0, CleanParts
      <3>a. mngr["core"] /\ Want("link")
        BY <1>3, <3>0, <3>1 DEF MngrExact
      <3>2. ClkExact'
        BY <1>3, <1>m, <2>1, <2>c, <2>m, <3>0, <3>1 DEF ClkExact, b2n
      <3>3. IoExact'
        <4>1. ~io'.ulps /\ ~io'.lanes /\ ~io.clamp /\ ~io.phyoff
          BY <1>3, <2>i, <3>0, <3>1 DEF NoFailure, IoExact
        <4>2. io'.lanes = io'.ulps
          BY <2>i, <4>1 DEF IoType
        <4>3. io'.vreg = mngr'["core"]
          BY <2>i, <2>m, <3>1 DEF IoExact
        <4>. QED
          BY <2>i, <4>1, <4>2, <4>3 DEF IoExact
      <3>4. /\ CoreGoesOn(r) => CoreGoesOn(s)
            /\ CoreGoesOff(r) => CoreGoesOff(s)
            /\ LinkGoesOn(r) => LinkGoesOn(s)
            /\ LinkGoesOff(r) => LinkGoesOff(s)
            /\ ~CoreGoesOn(r) /\ ~CoreGoesOff(r) => (mngr'["core"] <=> Want("core"))
            /\ ~LinkGoesOn(r) /\ ~LinkGoesOff(r) => (mngr'["link"] <=> Want("link"))
            /\ LpIsOn(r) => mngr'["core"]
        BY <1>3, <2>m, <3>a, <3>0, <3>1 DEF MngrExact
      <3>5. (mngr["link"] /\ Want("link") => mngr'["link"]) /\ (mngr'["link"] => mngr'["core"])
        BY <2>m, <3>a
      <3>6. ph.cur => ph'.cur \/ ph'.ref["core"] = 0
        BY <1>1
      <3>7. NoFailure' /\ RefsExact' /\ MngrExact' /\ PowExact'
        BY <1>1, <1>2, <1>4, <2>1, <2>m, <2>p, <2>s, <3>0, <3>1, <3>4, <3>5, <3>6, SwitchClean
           DEF s, r
      <3>. QED
        BY <3>2, <3>3, <3>7
    <2>. QED
      BY <2>1, <2>2 DEF IInv, Clean
  <1>. QED
    BY <1>6, <1>7, <1>w

\* Core clocks go off, or fail to.
LEMMA KeepsCoreOff ==
    ASSUME IInv, CoreOff
    PROVE  IInv'
PROOF
  <1>. DEFINE s == upd.todo
              r == Rest(upd.todo)
              y == Clamped(io)
  <1>0. Base /\ TypeOK /\ PanelLock /\ MngrOK /\ ClkOK /\ PowOK
    BY DEF IInv, Base
  <1>1. Next1("core_off") /\ UNCHANGED <<cfg, lock, handle, panel, enc>>
    BY DEF CoreOff
  <1>2. s \in Todos /\ s # <<>> /\ Head(s) = "core_off"
    BY <1>0, <1>1, NextTodo
  <1>3. /\ ~CoreGoesOn(s) /\ ~CoreGoesOn(r) /\ CoreGoesOff(s) /\ ~CoreGoesOff(r)
        /\ ~LinkGoesOn(s) /\ ~LinkGoesOn(r) /\ ~LinkGoesOff(s) /\ ~LinkGoesOff(r)
        /\ ~Forcing(s) /\ ~Forcing(r) /\ ~LpIsOn(s) /\ ~LpIsOn(r) /\ ~HsIsOff(s)
        /\ ~HsIsOff(r) /\ ~ForcedOff(s) /\ ~ForcedOff(r)
    BY <1>2, CoreOffTodo
  <1>4. /\ clk \in [core : Nat, lp : Nat, hs : Nat]
        /\ mngr \in [Clks -> BOOLEAN] /\ PanelSame /\ faults \in Nat
    BY <1>0, <1>1, Types, PanelKept
  <1>i. /\ y \in IoType
        /\ IoExact => y.ulps = io.ulps /\ y.lanes = io.lanes /\ (io.ulps => y.clamp)
    BY <1>0, ClampedIo
  <1>m. mngr["core"] /\ ph.cur /\ panel' = panel
    BY <1>0, <1>1, <1>3 DEF MngrOK, PowOK
  <1>w. \/ /\ io' = [y EXCEPT !.vreg = FALSE] /\ clk' = [clk EXCEPT !.core = Off(@)]
           /\ ph' = sde_power_resource_enable(ph, "dsi", FALSE)
           /\ mngr' = [mngr EXCEPT !["core"] = FALSE] /\ Switched(TRUE) /\ Works
        \/ /\ Switched(FALSE) /\ Fails("stop") /\ io' = y
           /\ clk' = clk /\ ph' = ph /\ mngr' = mngr
    BY DEF CoreOff
  <1>. HIDE DEF y
  <1>6. CASE /\ Switched(FALSE) /\ Fails("stop") /\ io' = y
             /\ clk' = clk /\ ph' = ph /\ mngr' = mngr
    <2>1. faults' # 0 /\ faults' \in 0 .. MaxFaults /\ faults' = faults + 1
      BY <1>0, <1>4, <1>6, FaultCount
    <2>2. /\ Switched(FALSE) /\ io' = y /\ clk' = clk /\ ph' = ph /\ mngr' = mngr
      BY <1>6
    <2>3. /\ ph' \in PowerHandles(PowerClients)
          /\ ph'.ref["core"] = ph.ref["core"] /\ ph'.ref["splash"] = ph.ref["splash"]
          /\ ph'.ref["dsi"] >= b2n(mngr["core"]) /\ (ph'.cur <=> ph'.res)
          /\ EncPower \/ panel.kms \/ mngr["core"] \/ panel.splash => ph'.cur
      BY <1>0, <1>4, <2>2, PowerKept
    <2>4. upd'.todo = <<>> => MngrOK' /\ ClkOK'
      BY <1>0, <1>3, <1>4, <1>m, <2>1, <2>2, NoTodo DEF MngrOK, ClkOK
    <2>5. /\ io' \in IoType /\ clk' \in [core : Nat, lp : Nat, hs : Nat]
          /\ UNCHANGED <<cfg, lock, handle, enc, panel, mngr>>
      BY <1>1, <1>4, <1>i, <2>2
    <2>6. Base' /\ PanelLock'
      BY <1>0, <1>2, <2>1, <2>2, <2>3, <2>4, <2>5, SwitchFails
    <2>. QED
      BY <2>1, <2>6 DEF IInv, Clean
  <1>7. CASE /\ io' = [y EXCEPT !.vreg = FALSE] /\ clk' = [clk EXCEPT !.core = Off(@)]
             /\ ph' = sde_power_resource_enable(ph, "dsi", FALSE)
             /\ mngr' = [mngr EXCEPT !["core"] = FALSE] /\ Switched(TRUE) /\ Works
    <2>c. /\ clk' \in [core : Nat, lp : Nat, hs : Nat] /\ clk'.core = Off(clk.core)
          /\ clk'.lp = clk.lp /\ clk'.hs = clk.hs
      <3>1. clk' = [clk EXCEPT !.core = Off(@)]
        BY <1>7
      <3>2. Off(clk.core) \in Nat
        BY <1>4 DEF Off
      <3>. QED
        BY <1>4, <3>1, <3>2
    <2>m. mngr' \in [Clks -> BOOLEAN] /\ ~mngr'["core"] /\ mngr'["link"] = mngr["link"]
      <3>1. mngr' = [mngr EXCEPT !["core"] = FALSE]
        BY <1>7
      <3>. QED
        BY <1>4, <3>1 DEF Clks
    <2>f. faults' = faults /\ faults' \in 0 .. MaxFaults
      BY <1>0, <1>7, FaultCount
    <2>i. /\ io' \in IoType /\ ~io'.vreg /\ io'.clamp = y.clamp /\ io'.ulps = y.ulps
          /\ io'.lanes = y.lanes
      <3>1. io' = [y EXCEPT !.vreg = FALSE]
        BY <1>7
      <3>. QED
        BY <1>i, <3>1 DEF IoType
    <2>d. "core" \in PowerClients /\ "dsi" \in PowerClients /\ "splash" \in PowerClients
      BY DEF PowerClients
    <2>p. /\ ph' \in PowerHandles(PowerClients) /\ (ph'.cur <=> ph'.res)
          /\ ph.ref["core"] \in Nat /\ ph.ref["dsi"] \in Nat /\ ph.ref["splash"] \in Nat
          /\ ph'.ref["dsi"] = IF ph.ref["dsi"] = 0 THEN 0 ELSE ph.ref["dsi"] - 1
          /\ ph'.ref["core"] = ph.ref["core"] /\ ph'.ref["splash"] = ph.ref["splash"]
          /\ ph'.ref["core"] > 0 \/ ph'.ref["splash"] > 0 => ph'.cur
      <3>1. ph' = sde_power_resource_enable(ph, "dsi", FALSE)
        BY <1>7
      <3>. QED
        BY <1>0, <1>m, <2>d, <3>1, PowerDown
    <2>q. /\ ph'.ref["dsi"] >= b2n(mngr'["core"])
          /\ EncPower \/ panel.kms \/ mngr'["core"] \/ panel.splash => ph'.cur
      BY <1>0, <2>m, <2>p DEF PowOK, b2n
    <2>0. upd'.todo = r => MngrOK' /\ ClkOK'
      BY <1>0, <1>3, <1>m, <2>c, <2>f, <2>m DEF MngrOK, ClkOK
    <2>s. Switched(TRUE)
      BY <1>7
    <2>. HIDE DEF s, r
    <2>1. Base' /\ PanelLock' /\ upd'.todo = r
      BY <1>0, <1>1, <1>2, <1>4, <2>0, <2>c, <2>f, <2>i, <2>m, <2>p, <2>q, <2>s, SwitchOk
         DEF s, r
    <2>2. ASSUME faults' = 0
          PROVE  NoFailure' /\ RefsExact' /\ MngrExact' /\ ClkExact' /\ IoExact' /\ PowExact'
      <3>0. faults = 0 /\ upd.todo = s /\ cfg' = cfg
        BY <1>1, <2>2, <2>f DEF s
      <3>1. NoFailure /\ RefsExact /\ MngrExact /\ ClkExact /\ IoExact /\ PowExact
        BY <3>0, CleanParts
      <3>a. ~Want("core") /\ ~Want("link") /\ ~mngr["link"]
        <4>1. ~Want("core") /\ ~Want("link")
          BY <1>0, <1>3, <3>0, <3>1, LinkWanted DEF MngrExact
        <4>. QED
          BY <1>3, <3>0, <3>1, <4>1 DEF MngrExact
      <3>2. ClkExact'
        BY <1>3, <1>m, <2>1, <2>c, <2>m, <3>a, <3>0, <3>1 DEF ClkExact, b2n, Off
      <3>3. IoExact'
        <4>1. io'.vreg = mngr'["core"]
          BY <2>i, <2>m DEF IoType, Clks
        <4>. QED
          BY <1>3, <1>i, <1>m, <2>1, <2>i, <2>m, <3>a, <3>0, <3>1, <4>1 DEF IoExact
      <3>4. /\ CoreGoesOn(r) => CoreGoesOn(s)
            /\ CoreGoesOff(r) => CoreGoesOff(s)
            /\ LinkGoesOn(r) => LinkGoesOn(s)
            /\ LinkGoesOff(r) => LinkGoesOff(s)
            /\ ~CoreGoesOn(r) /\ ~CoreGoesOff(r) => (mngr'["core"] <=> Want("core"))
            /\ ~LinkGoesOn(r) /\ ~LinkGoesOff(r) => (mngr'["link"] <=> Want("link"))
            /\ LpIsOn(r) => mngr'["core"]
        BY <1>3, <2>m, <3>a
      <3>5. (mngr["link"] /\ Want("link") => mngr'["link"]) /\ (mngr'["link"] => mngr'["core"])
        BY <2>m, <3>a
      <3>6. /\ ph.cur => ph'.cur \/ ph'.ref["core"] = 0
            /\ ph'.ref["dsi"] = b2n(mngr'["core"])
        BY <1>m, <2>m, <2>p, <3>1 DEF PowExact, b2n
      <3>7. NoFailure' /\ RefsExact' /\ MngrExact' /\ PowExact'
        BY <1>1, <1>2, <1>4, <2>1, <2>m, <2>p, <2>s, <3>0, <3>1, <3>4, <3>5, <3>6, SwitchClean
           DEF s, r
      <3>. QED
        BY <3>2, <3>3, <3>7
    <2>. QED
      BY <2>1, <2>2 DEF IInv, Clean
  <1>. QED
    BY <1>6, <1>7, <1>w

\* Link clocks go off for a new rate.
LEMMA KeepsForceOff ==
    ASSUME IInv, ForceOff
    PROVE  IInv'
PROOF
  <1>. DEFINE s == upd.todo
              r == Rest(upd.todo)
  <1>0. Base /\ TypeOK /\ PanelLock /\ MngrOK /\ ClkOK
    BY DEF IInv, Base
  <1>1. /\ Next1("force_off") /\ Switched(TRUE)
        /\ UNCHANGED <<cfg, lock, handle, mngr, ph, panel, enc, faults>>
    BY DEF ForceOff
  <1>2. s \in Todos /\ s # <<>> /\ Head(s) = "force_off"
    BY <1>0, <1>1, NextTodo
  <1>3. /\ ~CoreGoesOn(s) /\ ~CoreGoesOn(r) /\ ~CoreGoesOff(s) /\ ~CoreGoesOff(r)
        /\ ~LinkGoesOn(s) /\ ~LinkGoesOn(r) /\ ~LinkGoesOff(s) /\ ~LinkGoesOff(r)
        /\ Forcing(s) /\ Forcing(r) /\ ~LpIsOn(s) /\ ~LpIsOn(r) /\ ~HsIsOff(s)
        /\ ~HsIsOff(r) /\ ~ForcedOff(s) /\ ForcedOff(r)
    BY <1>2, ForceOffTodo
  <1>4. /\ clk' \in [core : Nat, lp : Nat, hs : Nat] /\ clk'.core = clk.core
        /\ clk'.lp = Off(clk.lp) /\ clk'.hs = Off(clk.hs)
    <2>0. clk \in [core : Nat, lp : Nat, hs : Nat]
      BY <1>0, Types
    <2>1. Off(clk.hs) \in Nat /\ Off(clk.lp) \in Nat
      BY <2>0 DEF Off
    <2>2. clk' = [clk EXCEPT !.hs = Off(@), !.lp = Off(@)]
      BY DEF ForceOff
    <2>. QED
      BY <2>0, <2>1, <2>2
  <1>5. mngr' \in [Clks -> BOOLEAN] /\ PanelSame /\ faults' \in 0 .. MaxFaults
    BY <1>0, <1>1, Types, PanelKept
  <1>b. /\ io' \in IoType /\ io'.vreg = io.vreg /\ io'.clamp = io.clamp
        /\ io'.phyoff = io.phyoff
        /\ \/ io' = io
           \/ /\ io'.ulps /\ io'.lanes /\ (cfg.ulps \/ cfg.susp)
              /\ (panel.init \/ cfg.susp) /\ ~panel.splash
    <2>1. io' = UlpsEntry(io)
      BY DEF ForceOff
    <2>. QED
      BY <1>0, <2>1, UlpsEntryIo
  <1>6. /\ ph' \in PowerHandles(PowerClients)
        /\ ph'.ref["core"] = ph.ref["core"] /\ ph'.ref["splash"] = ph.ref["splash"]
        /\ ph'.ref["dsi"] >= b2n(mngr'["core"]) /\ (ph'.cur <=> ph'.res)
        /\ EncPower \/ panel.kms \/ mngr'["core"] \/ panel.splash => ph'.cur
        /\ PowExact => ph'.ref["dsi"] = b2n(mngr'["core"])
    BY <1>0, <1>1, <1>5, PowerKept
  <1>m. mngr["link"] /\ mngr' = mngr /\ panel' = panel
    BY <1>0, <1>1, <1>3 DEF MngrOK
  <1>7. upd'.todo = r => MngrOK' /\ ClkOK'
    BY <1>0, <1>3, <1>4, <1>m DEF MngrOK, ClkOK
  <1>. HIDE DEF s, r
  <1>8. Base' /\ PanelLock' /\ upd'.todo = r
    BY <1>0, <1>1, <1>2, <1>4, <1>5, <1>6, <1>7, <1>b, SwitchOk DEF s, r
  <1>9. ASSUME faults' = 0
        PROVE  NoFailure' /\ RefsExact' /\ MngrExact' /\ ClkExact' /\ IoExact' /\ PowExact'
    <2>0. faults = 0 /\ upd.todo = s /\ cfg' = cfg
      BY <1>1, <1>9 DEF s
    <2>1. NoFailure /\ RefsExact /\ MngrExact /\ ClkExact /\ IoExact /\ PowExact
      BY <2>0, CleanParts
    <2>a. mngr["core"]
      BY <1>m, <2>1 DEF MngrExact
    <2>2. ClkExact'
      BY <1>3, <1>4, <1>m, <1>8, <2>a, <2>0, <2>1 DEF ClkExact, b2n, Off
    <2>3. IoExact'
      <3>1. io'.lanes = io'.ulps
        <4>1. CASE io' = io
          BY <2>1, <4>1 DEF IoExact
        <4>2. CASE io' # io
          BY <1>b, <4>2 DEF IoType
        <4>. QED
          BY <4>1, <4>2
      <3>2. io'.ulps => (cfg.ulps \/ cfg.susp) /\ (panel.init \/ cfg.susp) /\ ~panel.splash
        BY <1>b, <2>1 DEF IoExact
      <3>. QED
        BY <1>3, <1>m, <1>8, <1>b, <2>a, <2>0, <2>1, <3>1, <3>2 DEF IoExact
    <2>4. /\ CoreGoesOn(r) => CoreGoesOn(s)
          /\ CoreGoesOff(r) => CoreGoesOff(s)
          /\ LinkGoesOn(r) => LinkGoesOn(s)
          /\ LinkGoesOff(r) => LinkGoesOff(s)
          /\ ~CoreGoesOn(r) /\ ~CoreGoesOff(r) => (mngr'["core"] <=> Want("core"))
          /\ ~LinkGoesOn(r) /\ ~LinkGoesOff(r) => (mngr'["link"] <=> Want("link"))
          /\ LpIsOn(r) => mngr'["core"]
      BY <1>m, <1>3, <2>0, <2>1 DEF MngrExact
    <2>5. (mngr["link"] /\ Want("link") => mngr'["link"]) /\ (mngr'["link"] => mngr'["core"])
      BY <1>m, <2>a
    <2>6. ph.cur => ph'.cur \/ ph'.ref["core"] = 0
      BY <1>1
    <2>7. NoFailure' /\ RefsExact' /\ MngrExact' /\ PowExact'
      BY <1>1, <1>2, <1>5, <1>6, <1>8, <2>0, <2>1, <2>4, <2>5, <2>6, SwitchClean DEF s, r
    <2>. QED
      BY <2>2, <2>3, <2>7
  <1>. QED
    BY <1>8, <1>9 DEF IInv, Clean

\* Link clocks go on at the new rate, or fail to.
LEMMA KeepsForceOn ==
    ASSUME IInv, ForceOn
    PROVE  IInv'
PROOF
  <1>. DEFINE s == upd.todo
              r == Rest(upd.todo)
              y == Unclamped(UlpsRestored(io))
  <1>0. Base /\ TypeOK /\ PanelLock /\ MngrOK /\ ClkOK
    BY DEF IInv, Base
  <1>1. Next1("force_on") /\ UNCHANGED <<cfg, lock, handle, mngr, ph, enc>>
    BY DEF ForceOn
  <1>2. s \in Todos /\ s # <<>> /\ Head(s) = "force_on"
    BY <1>0, <1>1, NextTodo
  <1>3. /\ ~CoreGoesOn(s) /\ ~CoreGoesOn(r) /\ ~CoreGoesOff(s) /\ ~CoreGoesOff(r)
        /\ ~LinkGoesOn(s) /\ ~LinkGoesOn(r) /\ ~LinkGoesOff(s) /\ ~LinkGoesOff(r)
        /\ Forcing(s) /\ ~Forcing(r) /\ ~LpIsOn(s) /\ ~LpIsOn(r) /\ ~HsIsOff(s)
        /\ ~HsIsOff(r) /\ ForcedOff(s) /\ ~ForcedOff(r)
    BY <1>2, ForceOnTodo
  <1>4. /\ clk \in [core : Nat, lp : Nat, hs : Nat] /\ io \in IoType
        /\ mngr' \in [Clks -> BOOLEAN] /\ faults \in Nat /\ panel \in PanelType
    BY <1>0, <1>1, Types
  <1>5. /\ ph' \in PowerHandles(PowerClients)
        /\ ph'.ref["core"] = ph.ref["core"] /\ ph'.ref["splash"] = ph.ref["splash"]
        /\ ph'.ref["dsi"] >= b2n(mngr'["core"]) /\ (ph'.cur <=> ph'.res)
        /\ EncPower \/ panel.kms \/ mngr'["core"] \/ panel.splash => ph'.cur
        /\ PowExact => ph'.ref["dsi"] = b2n(mngr'["core"])
    BY <1>0, <1>1, <1>4, PowerKept
  <1>m. mngr["link"] /\ mngr' = mngr /\ panel.rate
    BY <1>0, <1>1, <1>3 DEF MngrOK
  <1>y. /\ y \in IoType /\ y.vreg = io.vreg /\ ~y.clamp /\ ~y.phyoff
        /\ IoExact /\ ~panel.esd => y.ulps = io.ulps /\ y.lanes = io.lanes
    BY <1>0, UnclampedIo
  <1>w. \/ /\ clk' = [clk EXCEPT !.hs = @ + 1, !.lp = @ + 1] /\ io' = UlpsExit(y)
           /\ panel' = [panel EXCEPT !.rate = FALSE] /\ Switched(TRUE) /\ Works
        \/ /\ Switched(FALSE) /\ Fails("rate") /\ io' = io /\ panel' = panel
           /\ clk' = clk \/ clk' = [clk EXCEPT !.lp = @ + 1]
    BY DEF ForceOn
  <1>. HIDE DEF y
  <1>6. CASE /\ Switched(FALSE) /\ Fails("rate") /\ io' = io /\ panel' = panel
             /\ clk' = clk \/ clk' = [clk EXCEPT !.lp = @ + 1]
    <2>1. faults' # 0 /\ faults' \in 0 .. MaxFaults /\ faults' > 0
      BY <1>0, <1>4, <1>6, FaultCount
    <2>2. Switched(FALSE) /\ io' = io /\ panel' = panel
      BY <1>6
    <2>3. clk' \in [core : Nat, lp : Nat, hs : Nat] /\ clk'.core = clk.core
      <3>1. clk' = clk \/ clk' = [clk EXCEPT !.lp = @ + 1]
        BY <1>6
      <3>. QED
        BY <1>4, <3>1
    <2>4. upd'.todo = <<>> => MngrOK' /\ ClkOK'
      BY <1>0, <1>m, <2>1, <2>2, <2>3, NoTodo DEF MngrOK, ClkOK
    <2>5. io' \in IoType /\ UNCHANGED <<cfg, lock, handle, enc, panel, mngr>>
      BY <1>1, <1>4, <2>2
    <2>6. Base' /\ PanelLock'
      BY <1>0, <1>2, <1>5, <1>m, <2>1, <2>2, <2>3, <2>4, <2>5, SwitchFails
    <2>. QED
      BY <2>1, <2>6 DEF IInv, Clean
  <1>7. CASE /\ clk' = [clk EXCEPT !.hs = @ + 1, !.lp = @ + 1] /\ io' = UlpsExit(y)
             /\ panel' = [panel EXCEPT !.rate = FALSE] /\ Switched(TRUE) /\ Works
    <2>c. /\ clk' \in [core : Nat, lp : Nat, hs : Nat] /\ clk'.core = clk.core
          /\ clk'.lp = clk.lp + 1 /\ clk'.hs = clk.hs + 1
          /\ clk.lp \in Nat /\ clk.hs \in Nat
      <3>. DEFINE hs == clk.hs + 1
                  lp == clk.lp + 1
      <3>1. clk' = [clk EXCEPT !.hs = hs, !.lp = lp]
        BY <1>7
      <3>2. clk.lp \in Nat /\ clk.hs \in Nat /\ hs \in Nat /\ lp \in Nat
        BY <1>4
      <3>. HIDE DEF hs, lp
      <3>3. /\ clk' \in [core : Nat, lp : Nat, hs : Nat] /\ clk'.core = clk.core
            /\ clk'.lp = lp /\ clk'.hs = hs
        BY <1>4, <3>1, <3>2
      <3>. QED
        BY <3>2, <3>3 DEF hs, lp
    <2>p. PanelSame /\ panel'.splash = panel.splash /\ panel'.init = panel.init
      <3>1. panel' = [panel EXCEPT !.rate = FALSE]
        BY <1>7
      <3>. QED
        BY <1>4, <3>1 DEF PanelSame, PanelType
    <2>f. faults' = faults /\ faults' \in 0 .. MaxFaults
      BY <1>0, <1>7, FaultCount
    <2>i. /\ io' \in IoType /\ io'.vreg = y.vreg /\ io'.clamp = y.clamp
          /\ io'.phyoff = y.phyoff
          /\ /\ y.ulps => (cfg.ulps \/ cfg.susp) /\ (panel.init \/ cfg.susp)
             /\ ~panel.esd /\ y.lanes = y.ulps
             => ~io'.ulps /\ ~io'.lanes
      <3>1. io' = UlpsExit(y)
        BY <1>7
      <3>. QED
        BY <1>y, <3>1, UlpsExitIo
    <2>0. upd'.todo = r => MngrOK' /\ ClkOK'
      BY <1>0, <1>3, <1>m, <2>c, <2>f DEF MngrOK, ClkOK
    <2>s. Switched(TRUE)
      BY <1>7
    <2>. HIDE DEF s, r
    <2>1. Base' /\ PanelLock' /\ upd'.todo = r
      BY <1>0, <1>1, <1>2, <1>4, <1>5, <2>0, <2>c, <2>f, <2>i, <2>p, <2>s, SwitchOk DEF s, r
    <2>2. ASSUME faults' = 0
          PROVE  NoFailure' /\ RefsExact' /\ MngrExact' /\ ClkExact' /\ IoExact' /\ PowExact'
      <3>0. faults = 0 /\ upd.todo = s /\ cfg' = cfg
        BY <1>1, <2>2, <2>f DEF s
      <3>1. NoFailure /\ RefsExact /\ MngrExact /\ ClkExact /\ IoExact /\ PowExact
        BY <3>0, CleanParts
      <3>a. mngr["core"]
        BY <1>m, <3>1 DEF MngrExact
      <3>2. ClkExact'
        BY <1>3, <1>m, <2>1, <2>c, <3>a, <3>0, <3>1 DEF ClkExact, b2n
      <3>3. IoExact'
        <4>1. ~io'.ulps /\ ~io'.lanes /\ ~io'.clamp /\ ~io'.phyoff /\ io'.vreg = io.vreg
          <5>1. ~panel.esd /\ y.ulps = io.ulps /\ y.lanes = io.lanes
            BY <1>y, <3>1 DEF NoFailure
          <5>. QED
            BY <1>y, <2>i, <3>1, <5>1 DEF IoExact
        <4>2. io'.lanes = io'.ulps
          BY <2>i, <4>1 DEF IoType
        <4>. QED
          BY <1>m, <3>1, <4>1, <4>2 DEF IoExact
      <3>4. /\ CoreGoesOn(r) => CoreGoesOn(s)
            /\ CoreGoesOff(r) => CoreGoesOff(s)
            /\ LinkGoesOn(r) => LinkGoesOn(s)
            /\ LinkGoesOff(r) => LinkGoesOff(s)
            /\ ~CoreGoesOn(r) /\ ~CoreGoesOff(r) => (mngr'["core"] <=> Want("core"))
            /\ ~LinkGoesOn(r) /\ ~LinkGoesOff(r) => (mngr'["link"] <=> Want("link"))
            /\ LpIsOn(r) => mngr'["core"]
        BY <1>3, <1>m, <3>0, <3>1 DEF MngrExact
      <3>5. (mngr["link"] /\ Want("link") => mngr'["link"]) /\ (mngr'["link"] => mngr'["core"])
        BY <1>m, <3>a
      <3>6. ph.cur => ph'.cur \/ ph'.ref["core"] = 0
        BY <1>1
      <3>7. NoFailure' /\ RefsExact' /\ MngrExact' /\ PowExact'
        BY <1>1, <1>2, <1>4, <1>5, <2>1, <2>p, <2>s, <3>0, <3>1, <3>4, <3>5, <3>6, SwitchClean
           DEF s, r
      <3>. QED
        BY <3>2, <3>3, <3>7
    <2>. QED
      BY <2>1, <2>2 DEF IInv, Clean
  <1>. QED
    BY <1>6, <1>7, <1>w
-----------------------------------------------------------------------------
(* The invariant holds, and with it the properties the runs check.         *)

\* Every initial state, with or without the boot loader's picture.
LEMMA InitHolds == Init => IInv
PROOF
  <1>. SUFFICES ASSUME Init PROVE IInv
    OBVIOUS
  <1>. DEFINE b == cfg.splash
              n == IF cfg.splash THEN 1 ELSE 0
  <1>1. /\ cfg \in Configs /\ b \in BOOLEAN /\ n \in Nat /\ n = b2n(b)
        /\ MaxFaults \in Nat
    BY DsiClkConstants DEF Init, Panels, b2n
  <1>2. /\ pc = [t \in Threads |-> IF t = "disp" THEN "off" ELSE "idle"]
        /\ lock = [l \in {"display", "panel", "rc"} |-> Free]
        /\ upd = NoUpdate /\ faults = 0
    BY DEF Init
  <1>3. /\ pc["disp"] = "off" /\ pc["rc"] = "idle" /\ pc["panel"] = "idle"
        /\ pc["dbg"] = "idle" /\ pc \in [Threads -> Labels]
    BY <1>2 DEF Threads, Labels
  <1>4. lock \in [{"display", "panel", "rc"} -> Threads \cup {Free}]
    BY <1>2
  <1>5. /\ handle \in [Handles -> [Clks -> [ref : Nat, on : BOOLEAN]]]
        /\ \A k \in Clks : /\ handle["dsi"][k].ref = n /\ handle["dsi"][k].on = b
                           /\ handle["mdp"][k].ref = 0 /\ ~handle["mdp"][k].on
    <2>1. PICK no \in BOOLEAN : no = FALSE
      OBVIOUS
    <2>2. handle = [h \in Handles |-> [k \in Clks |->
                      IF h = "dsi" THEN [ref |-> n, on |-> b] ELSE [ref |-> 0, on |-> no]]]
      BY <2>1 DEF Init
    <2>. HIDE DEF b, n
    <2>. QED
      BY <1>1, <2>1, <2>2 DEF Handles
  <1>6. mngr = [k \in Clks |-> b] /\ mngr \in [Clks -> BOOLEAN]
    BY <1>1 DEF Init
  <1>7. clk = [core |-> n, lp |-> n, hs |-> n] /\ clk \in [core : Nat, lp : Nat, hs : Nat]
    BY <1>1 DEF Init
  <1>8. /\ ph \in PowerHandles(PowerClients) /\ ph.cur = b /\ ph.res = b
        /\ ph.ref["core"] = n /\ ph.ref["dsi"] = n /\ ph.ref["splash"] = n
    <2>1. ph = [ref |-> [c \in PowerClients |-> n], cur |-> b, res |-> b]
      BY DEF Init
    <2>. HIDE DEF b, n
    <2>. QED
      BY <1>1, <2>1 DEF PowerHandles, PowerClients
  <1>9. /\ io \in IoType /\ io.vreg = b /\ ~io.clamp /\ ~io.ulps /\ io.lanes = io.ulps
        /\ ~io.phyoff
    <2>1. PICK no \in BOOLEAN : no = FALSE
      OBVIOUS
    <2>2. io = [vreg |-> b, clamp |-> no, ulps |-> no, lanes |-> no, phyoff |-> no]
      BY <2>1 DEF Init
    <2>. HIDE DEF b
    <2>. QED
      BY <1>1, <2>1, <2>2 DEF IoType
  <1>10. /\ panel \in PanelType /\ ~panel.init /\ ~panel.esd /\ panel.splash = b
         /\ ~panel.rate /\ panel.kms = b
    <2>1. PICK no \in BOOLEAN : no = FALSE
      OBVIOUS
    <2>2. panel = [init |-> no, esd |-> no, splash |-> b, rate |-> no, kms |-> b]
      BY <2>1 DEF Init
    <2>. HIDE DEF b
    <2>. QED
      BY <1>1, <2>1, <2>2 DEF PanelType
  <1>11. ~enc /\ enc \in BOOLEAN
    BY DEF Init
  <1>12. upd.todo = <<>> /\ upd.by = Free
    BY <1>2, NoTodo
  <1>. HIDE DEF b, n
  <1>13. TypeOK
    <2>1. upd.by \in Threads \cup {Free} /\ upd.todo \in Seq(Switch)
      BY <1>12
    <2>2. faults \in 0 .. MaxFaults
      BY <1>1, <1>2
    <2>. QED
      BY <1>1, <1>3, <1>4, <1>5, <1>6, <1>7, <1>8, <1>9, <1>10, <1>11, <2>1, <2>2
         DEF TypeOK, IoType, PanelType
  <1>14. LabelsOK /\ EncOK /\ PanelLock /\ ~EncPower /\ ~Commit
    BY <1>3, <1>11
       DEF LabelsOK, EncOK, PanelLock, EncPower, Commit, DispLabels, RcLabels, PanelLabels,
           DbgLabels
  <1>15. UpdOK
    BY <1>2, <1>3, <1>12, NoTodo DEF UpdOK
  <1>16. mngr["core"] = b /\ mngr["link"] = b
    BY <1>6 DEF Clks
  <1>17. MngrOK /\ ClkOK
    BY <1>1, <1>7, <1>12, <1>16, NoTodo DEF MngrOK, ClkOK, b2n
  <1>18. RefOn
    BY <1>1, <1>5 DEF RefOn, Handles, b2n
  <1>19. PowOK
    BY <1>1, <1>3, <1>8, <1>10, <1>14, <1>16 DEF PowOK, b2n
  <1>20. NoFailure
    BY <1>3, <1>10 DEF NoFailure, DispFailed
  <1>21. Eff("disp") = "off" /\ Eff("rc") = "idle" /\ Eff("panel") = "idle" /\ Eff("dbg") = "idle"
    BY <1>3, <1>12 DEF Eff, Free
  <1>22. \A k : Held("off", k) = 0 /\ Held("idle", k) = 0
    BY DEF Held, CoreHeld, LinkHeld, VideoOn, b2n
  <1>23. RefsExact
    <2>1. ~MdpHeld
      BY <1>11, <1>21 DEF MdpHeld
    <2>. QED
      BY <1>1, <1>5, <1>10, <1>21, <1>22, <2>1 DEF RefsExact, b2n
  <1>24. Want("core") = b /\ Want("link") = b
    BY <1>1, <1>5 DEF Want, Handles, Clks
  <1>25. MngrExact
    <2>1. ~LinkHeld("off") /\ ~LinkHeld("idle")
      BY DEF LinkHeld, VideoOn
    <2>. QED
      BY <1>10, <1>12, <1>16, <1>21, <1>24, <2>1, NoTodo DEF MngrExact, Threads
  <1>26. ClkExact
    BY <1>1, <1>7, <1>12, <1>16, NoTodo DEF ClkExact, b2n
  <1>27. IoExact
    BY <1>9, <1>12, <1>16, NoTodo DEF IoExact
  <1>28. PowExact
    BY <1>1, <1>8, <1>10, <1>14, <1>16 DEF PowExact, b2n
  <1>. QED
    BY <1>13, <1>14, <1>15, <1>17, <1>18, <1>19, <1>20, <1>23, <1>25, <1>26, <1>27, <1>28
       DEF IInv, Base, Clean

\* A step that changes nothing.
LEMMA KeepsStuttering == IInv /\ UNCHANGED vars => IInv'
PROOF
  <1>. SUFFICES ASSUME IInv, UNCHANGED vars PROVE IInv'
    OBVIOUS
  <1>1. UNCHANGED <<cfg, pc, lock, handle, mngr, upd, clk, ph, io, panel, enc, faults>>
    BY DEF vars
  <1>2. Base'
    BY <1>1 DEF IInv, Base, TypeOK, LabelsOK, UpdOK, MngrOK, ClkOK, RefOn, EncOK, PowOK,
                EncPower, Commit
  <1>3. PanelLock' /\ NoFailure' = NoFailure
    BY <1>1 DEF IInv, PanelLock, NoFailure
  <1>4. (RefsExact => RefsExact') /\ (MngrExact => MngrExact')
    <2>1. \A t : Eff(t)' = Eff(t)
      BY <1>1 DEF Eff
    <2>2. \A m, k : Held(m, k)' = Held(m, k) /\ (LinkHeld(m)' <=> LinkHeld(m))
      BY <1>1 DEF Held, CoreHeld, LinkHeld
    <2>3. MdpHeld' <=> MdpHeld
      BY <1>1, <2>1 DEF MdpHeld
    <2>4. \A k : Want(k)' <=> Want(k)
      BY <1>1 DEF Want
    <2>5. RefsExact => RefsExact'
      BY <1>1, <2>1, <2>2, <2>3 DEF RefsExact, b2n
    <2>6. MngrExact => MngrExact'
      BY <1>1, <2>1, <2>2, <2>4 DEF MngrExact, LinkHeld, Want
    <2>. QED
      BY <2>5, <2>6
  <1>5. (ClkExact => ClkExact') /\ (IoExact => IoExact') /\ (PowExact => PowExact')
    BY <1>1 DEF ClkExact, IoExact, PowExact, EncPower, Commit
  <1>. QED
    BY <1>1, <1>2, <1>3, <1>4, <1>5 DEF IInv, Clean

\* Every step keeps the invariant.
LEMMA NextKeeps == IInv /\ [Next]_vars => IInv'
PROOF
  <1>. SUFFICES ASSUME IInv, [Next]_vars PROVE IInv'
    OBVIOUS
  <1>1. ASSUME NEW t \in Threads, dsi_clk_req_state(t) PROVE IInv'
    BY <1>1, KeepsReqState
  <1>2. CASE Update
    BY <1>2, KeepsCoreOn, KeepsCoreOnFails, KeepsLpOn, KeepsHsOn, KeepsHsOff, KeepsLpOff,
       KeepsCoreOff, KeepsForceOff, KeepsForceOn DEF Update
  <1>3. CASE Display
    <2>1. ASSUME NEW at \in {"pre_enable", "kick", "bridge_disable"},
                 sde_kms_prepare_commit(at)
          PROVE  IInv'
      BY <2>1, KeepsPrepareCommit
    <2>2. CASE EncoderPower("disp", "enc_start", "enc_vote", "post")
      BY <2>2, KeepsEncoderPower
    <2>3. CASE EncoderVoted("disp", "enc_voted", "post")
      BY <2>3, KeepsEncoderVoted
    <2>4. CASE EncoderUnpower("disp", "enc_refused", "post")
      BY <2>4, KeepsEncoderUnpower
    <2>5. CASE EncoderUnpower("disp", "enc_unvoted", "post_disable")
      BY <2>5, KeepsEncoderUnpower
    <2>6. CASE dsi_bridge_pre_enable \/ PhySetup \/ PanelPrepare \/ PrepareFails
      BY <2>6, KeepsPreEnable, KeepsPhySetup, KeepsPanelPrepare, KeepsPrepareFails
    <2>7. CASE dsi_display_enable \/ dsi_display_splash_res_cleanup \/ EnableUndone
      BY <2>7, KeepsEnable, KeepsSplashCleanup, KeepsEnableUndone
    <2>8. CASE \/ dsi_bridge_enable \/ dsi_display_pre_kickoff \/ dsi_bridge_disable
               \/ EncoderStop
      BY <2>8, KeepsBridgeEnable, KeepsPreKickoff, KeepsBridgeDisable, KeepsEncoderStop
    <2>9. CASE dsi_bridge_post_disable \/ sde_kms_complete_commit
      BY <2>9, KeepsPostDisable, KeepsCompleteCommit
    <2>. QED
      BY <1>3, <2>1, <2>2, <2>3, <2>4, <2>5, <2>6, <2>7, <2>8, <2>9 DEF Display
  <1>4. CASE Others
    <2>1. CASE RcWake
      <3>1. EncoderPower("rc", "idle", "rc_vote", "idle")
        BY <2>1 DEF RcWake
      <3>. QED
        BY <3>1, KeepsEncoderPower
    <2>2. CASE EncoderVoted("rc", "rc_voted", "idle")
      BY <2>2, KeepsEncoderVoted
    <2>3. CASE EncoderUnpower("rc", "rc_refused", "idle")
      BY <2>3, KeepsEncoderUnpower
    <2>4. CASE EncoderUnpower("rc", "rc_unvoted", "idle")
      BY <2>4, KeepsEncoderUnpower
    <2>5. CASE \/ dsi_display_set_backlight \/ dsi_host_transfer \/ BacklightExit
               \/ dsi_display_check_status
      BY <2>5, KeepsPanelUser
    <2>6. CASE RcIdle \/ sysfs_dynamic_dsi_clk_write \/ debugfs_misr
      BY <2>6, KeepsRcIdle, KeepsRate, KeepsMisr
    <2>. QED
      BY <1>4, <2>1, <2>2, <2>3, <2>4, <2>5, <2>6 DEF Others
  <1>5. CASE UNCHANGED vars
    BY <1>5, KeepsStuttering
  <1>. QED
    BY <1>1, <1>2, <1>3, <1>4, <1>5 DEF Next

\* The invariant of the clock manager, its callers and the power handle: Base
\* whatever fails, Clean until the first failure, and panel_lock between a command
\* and a change of the clock rate.
THEOREM InvInductive == Spec => []IInv
PROOF
  <1>. QED
    BY InitHolds, NextKeeps, PTL DEF Spec

\* Every variable keeps its type: no refcount of a client, of the power handle or
\* of a clock goes below zero, whatever fails (dsi_clk_req_state,
\* sde_power_resource_enable).
THEOREM TypeCorrect == Spec => []TypeOK
PROOF
  <1>1. IInv => TypeOK
    BY DEF IInv, Base
  <1>. QED
    BY <1>1, InvInductive, PTL

\* Whatever failed before, a clock the manager believes to be on is on and so is
\* the power handle (dsi_update_clk_state, sde_power_resource_enable).
THEOREM BelievedClocksRun == Spec => []BelievedIsOn
PROOF
  <1>1. IInv => BelievedIsOn
    <2>. SUFFICES ASSUME IInv PROVE BelievedIsOn
      OBVIOUS
    <2>1. ClkOK /\ PowOK /\ TypeOK
      BY DEF IInv, Base
    <2>2. upd = NoUpdate => ~ForcedOff(upd.todo) /\ ~HsIsOff(upd.todo)
      BY NoTodo
    <2>. QED
      BY <2>1, <2>2 DEF BelievedIsOn, ClkOK, PowOK
  <1>. QED
    BY <1>1, InvInductive, PTL

\* Without a failure every vote comes back: between calls the refcounts are those
\* of the display, the encoder and the boot picture, and clocks, supplies and power
\* follow them (dsi_clk_req_state, sde_power_resource_enable and their callers).
THEOREM EveryVoteComesBack == Spec => []VotesComeBack
PROOF
  <1>1. IInv => VotesComeBack
    <2>. SUFFICES ASSUME IInv, AtRest, faults = 0 PROVE VotesComeBack
      BY DEF VotesComeBack
    <2>. DEFINE mine == b2n(panel.splash) + b2n(pc["disp"] = "on" /\ cfg.mode = "vid")
                on == mine > 0 \/ enc
    <2>0. /\ RefsExact /\ MngrExact /\ ClkExact /\ IoExact /\ PowExact
          /\ Base /\ TypeOK /\ RefOn
      BY CleanParts DEF IInv, Base
    <2>1. /\ upd = NoUpdate /\ upd.todo = <<>> /\ upd.by = Free
          /\ pc["disp"] \in {"off", "on"} /\ pc["rc"] = "idle" /\ pc["panel"] = "idle"
          /\ pc["dbg"] = "idle"
      BY NoTodo DEF AtRest, Threads
    <2>2. /\ Eff("disp") = pc["disp"] /\ Eff("rc") = "idle" /\ Eff("panel") = "idle"
          /\ Eff("dbg") = "idle"
      BY <2>1 DEF Eff, Free
    <2>3. \A k : /\ Held("idle", k) = 0
                 /\ Held(pc["disp"], k) = b2n(pc["disp"] = "on" /\ cfg.mode = "vid")
      BY <2>1 DEF Held, CoreHeld, LinkHeld, VideoOn, b2n
    <2>4. (MdpHeld <=> enc) /\ (EncPower <=> enc) /\ ~Commit
      BY <2>1, <2>2 DEF MdpHeld, EncPower, Commit
    <2>5. b2n(panel.splash) \in Nat /\ mine \in Nat /\ on \in BOOLEAN
      BY DEF b2n
    <2>6. \A k \in Clks : handle["dsi"][k].ref = mine /\ handle["mdp"][k].ref = b2n(enc)
      <3>. HIDE DEF on
      <3>. QED
        BY <2>0, <2>2, <2>3, <2>4, <2>5 DEF RefsExact, b2n
    <2>. HIDE DEF mine
    <2>7. \A k \in Clks : Want(k) <=> on
      BY <2>0, <2>5, <2>6 DEF Want, RefOn, Handles, b2n
    <2>. HIDE DEF on
    <2>8. \A k \in Clks : mngr[k] = on
      <3>1. mngr \in [Clks -> BOOLEAN]
        BY <2>0, Types
      <3>2. mngr["core"] = Want("core") /\ mngr["link"] = Want("link")
        BY <2>0, <2>1, NoTodo DEF MngrExact
      <3>. QED
        BY <2>5, <2>7, <3>1, <3>2 DEF Clks
    <2>9. mngr["core"] = on /\ mngr["link"] = on
      BY <2>8 DEF Clks
    <2>10. clk = [core |-> b2n(on), lp |-> b2n(on), hs |-> b2n(on)]
      <3>1. clk.core = b2n(on) /\ clk.lp = b2n(on) /\ clk.hs = b2n(on)
        BY <2>0, <2>1, <2>9, NoTodo DEF ClkExact, b2n
      <3>2. clk \in [core : Nat, lp : Nat, hs : Nat]
        BY <2>0, Types
      <3>. QED
        BY <3>1, <3>2
    <2>11. io.vreg = on
      BY <2>0, <2>9 DEF IoExact
    <2>12. ph.ref = [core |-> b2n(enc) + b2n(panel.kms), dsi |-> b2n(on),
                     splash |-> b2n(panel.splash)]
      <3>. DEFINE f == [core |-> b2n(enc) + b2n(panel.kms), dsi |-> b2n(on),
                        splash |-> b2n(panel.splash)]
      <3>1. /\ ph.ref["core"] = b2n(enc) + b2n(panel.kms) /\ ph.ref["dsi"] = b2n(on)
            /\ ph.ref["splash"] = b2n(panel.splash)
        BY <2>0, <2>4, <2>9 DEF PowExact, b2n
      <3>2. ph.ref \in [PowerClients -> Nat]
        BY <2>0, Types DEF PowerHandles
      <3>3. /\ DOMAIN f = PowerClients /\ f["core"] = b2n(enc) + b2n(panel.kms)
            /\ f["dsi"] = b2n(on) /\ f["splash"] = b2n(panel.splash)
            /\ f = [c \in PowerClients |-> f[c]]
        BY DEF PowerClients
      <3>. HIDE DEF f
      <3>4. ph.ref = [c \in PowerClients |-> ph.ref[c]]
        BY <3>2
      <3>5. \A c \in PowerClients : ph.ref[c] = f[c]
        BY <3>1, <3>3 DEF PowerClients
      <3>6. ph.ref = f
        BY <3>3, <3>4, <3>5
      <3>. QED
        BY <3>6 DEF f
    <2>. QED
      BY <2>6, <2>8, <2>10, <2>11, <2>12 DEF VotesComeBack, mine, on, b2n
  <1>. QED
    BY <1>1, InvInductive, PTL

\* Without a failure a command or a status read finds the link running, unclamped
\* and out of ULPS, and keeps it so to its end (dsi_host_transfer,
\* dsi_display_check_status).
THEOREM CommandsFindALiveLink == Spec => []LiveLink
PROOF
  <1>1. IInv => LiveLink
    <2>. SUFFICES ASSUME IInv, pc["panel"] \in {"tx", "esd_read"}, faults = 0
                  PROVE  LiveLink
      BY DEF LiveLink
    <2>0. /\ RefsExact /\ MngrExact /\ ClkExact /\ IoExact
          /\ Base /\ TypeOK /\ UpdOK /\ PanelLock /\ PowOK
      BY CleanParts DEF IInv, Base
    <2>1. pc["panel"] \notin DOMAIN Calls /\ pc["panel"] # "idle" /\ "panel" \in Threads
      BY CallsTable DEF Threads
    <2>2. upd.by # "panel"
      BY <2>0, <2>1, NoTodo DEF UpdOK, Free
    <2>3. Eff("panel") = pc["panel"] /\ LinkHeld(Eff("panel"))
      BY <2>2 DEF Eff, LinkHeld
    <2>4. mngr["link"] /\ mngr["core"] /\ Want("link")
      BY <2>0, <2>1, <2>2, <2>3, LinkWanted DEF MngrExact
    <2>5. ~ForcedOff(upd.todo)
      <3>1. ForcedOff(upd.todo) => pc["disp"] = "force"
        BY <2>0, ForcedIsForcing DEF UpdOK
      <3>. QED
        BY <2>0, <2>1, <3>1 DEF PanelLock
    <2>6. ~HsIsOff(upd.todo)
      <3>1. HsIsOff(upd.todo) => LinkGoesOff(upd.todo)
        BY <2>0, TodoKinds, NoTodo DEF UpdOK, Todos
      <3>. QED
        BY <2>0, <2>4, <3>1 DEF MngrExact
    <2>7. clk.lp = 1 /\ clk.hs = 1
      BY <2>0, <2>4, <2>5, <2>6 DEF ClkExact, b2n
    <2>8. ph.res
      BY <2>0, <2>4 DEF PowOK
    <2>9. ~io.clamp /\ ~io.lanes /\ ~io.ulps /\ ~io.phyoff
      BY <2>0, <2>4, <2>5 DEF IoExact
    <2>. QED
      BY <2>4, <2>7, <2>8, <2>9 DEF LiveLink
  <1>. QED
    BY <1>1, InvInductive, PTL

\* Without a failure lanes left in ULPS are clamped before the core power goes
\* (dsi_pre_clkoff_cb).
THEOREM UlpsSurvivesCollapse == Spec => []UlpsSurvives
PROOF
  <1>1. IInv => UlpsSurvives
    BY CleanParts DEF UlpsSurvives, ClkExact, IoExact, b2n
  <1>. QED
    BY <1>1, InvInductive, PTL

\* Without a failure core clocks run whenever link clocks do (dsi_update_clk_state).
THEOREM CoreClocksFirst == Spec => []CoreBeforeLinkUnlessFault
PROOF
  <1>1. IInv => CoreBeforeLinkUnlessFault
    BY CleanParts DEF CoreBeforeLinkUnlessFault, CoreBeforeLink, ClkExact, MngrExact, b2n
  <1>. QED
    BY <1>1, InvInductive, PTL
============================================================================
