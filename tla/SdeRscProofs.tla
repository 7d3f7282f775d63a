--------------------------- MODULE SdeRscProofs ---------------------------
(***************************************************************************)
(* The inductive invariant of SdeRsc and its theorems, for every set of    *)
(* external displays, all pairings of versions and any number of faults.   *)
(***************************************************************************)
EXTENDS SdeRsc, FiniteSetTheorems, TLAPS

\* the state the votes v ask for
Want(v) ==
    CASE cfg.v3 /\ ExtClk(v) -> "clk"
      [] ~(cfg.v3 /\ ExtClk(v)) /\ Some(v, "vid") -> "vid"
      [] ~(cfg.v3 /\ ExtClk(v)) /\ ~Some(v, "vid") /\ Some(v, "cmd") -> "cmd"
      [] OTHER -> IF Some(v, "clk") THEN "clk" ELSE "idle"

\* Every client votes for what it may ask for, and an encoder only under the vote
\* of the power handle.
Sane(v) ==
    /\ v \in [Clients -> States]
    /\ v["power"] \in {"idle", "clk"}
    /\ \A e \in Encoders : v[e] \in Asks(e) \cup {"idle"}
    /\ v["power"] = "idle" => \A e \in Encoders : v[e] = "idle"

\* The encoders that hold the power handle.
Holders == {e \in Encoders : pc[e] \notin {"off", "clocks", "undo"}}

\* The encoders that owe the RSC a vsync.
Owing == {e \in Encoders : pc[e] \in {"check_on", "check_off"} \/ seen[e]}

\* Where an encoder is tells what it has voted and seen.
Places ==
    \A e \in Encoders :
        /\ seen[e] => pc[e] \in {"wait_on", "wait_off"}
        /\ vote[e] # "idle" =>
              \/ pc[e] \in {"on", "check_on", "wait_on"}
              \/ pc[e] = "powered" /\ pend # NoRequest /\ pend.by = e
        /\ pc[e] \in {"clocks", "undo"} =>
              /\ ~ph.cur /\ vote["power"] = "clk"
              /\ \A f \in Encoders : pc[f] \in {"clocks", "undo"} => f = e

\* Only an encoder waits under client_lock, for the state all votes ask for.
Pending ==
    pend # NoRequest =>
        /\ pend \in [by : Encoders, client : Encoders, ask : States, st : States]
        /\ pend.client = pend.by /\ pc[pend.by] \in {"powered", "on"}
        /\ pend.ask = vote[pend.by]
        /\ pend.st = Want(vote) /\ rsc.hw = pend.st

\* The power handle counts its holders, and is on if it has any.
Counted ==
    /\ Cardinality(Holders) <= ph.ref["core"]
    /\ ph.res = ph.cur
    /\ IF ph.cur THEN ph.ref["core"] > 0 /\ vote["power"] = "clk" ELSE Holders = {}

\* The RSC is out of idle under the power handle, holds its clocks out of idle, and
\* has collapsed only in idle.
Awake ==
    /\ ph.cur \/ (\E e \in Encoders : pc[e] = "clocks") => rsc.state # "idle"
    /\ rsc.clk = IF rsc.state = "idle" THEN 0 ELSE 1
    /\ rsc.collapse => rsc.state = "idle"

\* The inductive invariant.
IInv ==
    /\ TypeOK /\ Sane(vote) /\ Places /\ Pending /\ Counted /\ Awake /\ VotesHonoured
-----------------------------------------------------------------------------
(* The switches as functions of the votes and the RSC.                     *)

Controllers == [state : States, hw : States, collapse : BOOLEAN, clk : 0..1, wait : Nat]
Results == [r : Controllers, rc : {"ok", "error", "refused"}, st : States,
            id : BOOLEAN, hold : BOOLEAN]

Multi(v) == cfg.v3 /\ ExtClk(v)

\* Why a request for the state ask is refused: another vote outweighs it.
Outweighed(v, ask) ==
    \/ ask \in {"cmd", "vid"} /\ Multi(v)
    \/ ask # "vid" /\ ~cfg.v3 /\ Some(v, "vid")
    \/ ask = "clk" /\ ~Multi(v) /\ (Some(v, "vid") \/ Some(v, "cmd"))

\* What a request for ask may do to the RSC r, if the votes are v: reach the state
\* the votes ask for, find it taken, be refused, or fail.
Outcome(v, r, ask, pointer, res) ==
    /\ res \in Results
    /\ res.r.state = r.state /\ res.r.clk = r.clk
    /\ res.r.wait = r.wait \/ (res.r.wait = r.wait + 1 /\ res.id /\ ~res.hold /\ pointer)
    /\ res.r.collapse => r.collapse \/ (res.rc = "ok" /\ res.st = "idle")
    /\ res.rc = "ok" =>
          \/ res.st = Want(v) /\ res.r.hw = res.st /\ (res.r.collapse => res.st = "idle")
          \/ /\ res.r = r /\ res.st = r.state /\ ~res.hold
             /\ r.state \in {"cmd", "vid"} /\ ask \in {"idle", r.state} /\ Some(v, r.state)
    /\ res.rc = "refused" => res.r = r /\ ~res.hold /\ Outweighed(v, ask)
    /\ res.hold =>
          r.wait > 0 /\ res.st # "idle" /\ res.st = Want(v) /\ res.r.hw = res.st

\* What every switch of the hardware leaves (sde_rsc_state_update).
LEMMA SwitchedResult ==
    ASSUME NEW r \in Controllers, NEW st \in States, NEW ok \in BOOLEAN
    PROVE  /\ Switched(r, st, ok) \in Results
           /\ Switched(r, st, ok).st = st
           /\ Switched(r, st, ok).rc \in {"ok", "error"}
           /\ ~Switched(r, st, ok).id /\ ~Switched(r, st, ok).hold
           /\ Switched(r, st, ok).r.state = r.state
           /\ Switched(r, st, ok).r.clk = r.clk
           /\ Switched(r, st, ok).r.wait = r.wait
           /\ Switched(r, st, ok).rc = "ok" => Switched(r, st, ok).r.hw = st
           /\ st # "idle" => Switched(r, st, ok).r.hw = st
           /\ Switched(r, st, ok).r.collapse =>
                 \/ r.collapse /\ Switched(r, st, ok).rc # "ok"
                 \/ Switched(r, st, ok).rc = "ok" /\ st = "idle"
  <1> DEFINE good == ok \/ ~MayFail(r, st)
             h == Hardware(r, st, good)
  <1>1. Switched(r, st, ok)
            = [r |-> h, rc |-> IF good THEN "ok" ELSE "error", st |-> st,
               id |-> FALSE, hold |-> FALSE]
    BY DEF Switched, Result
  <1>2. good \in BOOLEAN
    BY DEF MayFail
  <1>3. /\ h \in Controllers
        /\ h.state = r.state /\ h.clk = r.clk /\ h.wait = r.wait
        /\ good => h.hw = st
        /\ st # "idle" => h.hw = st
        /\ h.collapse => (r.collapse /\ ~good) \/ (good /\ st = "idle")
    <2>1. CASE good
      <3>1. h = [r EXCEPT !.hw = st, !.collapse = st = "idle"]
        BY <2>1 DEF Hardware
      <3> HIDE DEF h, good
      <3> QED  BY <3>1, <2>1, <1>2 DEF Controllers, States
    <2>2. CASE ~good /\ st = "idle"
      <3>1. h = r
        BY <2>2 DEF Hardware
      <3> HIDE DEF h, good
      <3> QED  BY <3>1, <2>2, <1>2 DEF Controllers, States
    <2>3. CASE ~good /\ st # "idle"
      <3>1. h = [r EXCEPT !.hw = st]
        BY <2>3 DEF Hardware
      <3>2. r.collapse
        BY <2>3 DEF MayFail
      <3> HIDE DEF h, good
      <3> QED  BY <3>1, <3>2, <2>3, <1>2 DEF Controllers, States
    <2> QED  BY <2>1, <2>2, <2>3, <1>2
  <1> HIDE DEF h, good
  <1> QED  BY <1>1, <1>2, <1>3 DEF Results

\* The votes settle what is wanted.
LEMMA WantType ==
    ASSUME NEW v
    PROVE  /\ Want(v) \in States
           /\ Some(v, "clk") => Want(v) # "idle"
           /\ (\A c \in Clients : v[c] = "idle") => Want(v) = "idle"
           /\ cfg.v3 /\ ExtClk(v) => Want(v) = "clk"
           /\ ~(cfg.v3 /\ ExtClk(v)) /\ Some(v, "vid") => Want(v) = "vid"
           /\ ~(cfg.v3 /\ ExtClk(v)) /\ ~Some(v, "vid") /\ Some(v, "cmd") => Want(v) = "cmd"
           /\ ~(cfg.v3 /\ ExtClk(v)) /\ ~Some(v, "vid") /\ ~Some(v, "cmd") /\ Some(v, "clk")
                 => Want(v) = "clk"
  <1>1. (\A c \in Clients : v[c] = "idle") => ~ExtClk(v) /\ ~Some(v, "vid") /\ ~Some(v, "cmd")
                                               /\ ~Some(v, "clk")
    BY DEF ExtClk, Some, Clients, Encoders
  <1>2. ExtClk(v) \in BOOLEAN /\ Some(v, "vid") \in BOOLEAN /\ Some(v, "cmd") \in BOOLEAN
        /\ Some(v, "clk") \in BOOLEAN
    BY DEF ExtClk, Some
  <1> QED  BY <1>1, <1>2 DEF Want, States

\* AskWait keeps what a switch of the hardware left.
LEMMA AskWaitOutcome ==
    ASSUME NEW v, NEW ask, NEW r \in Controllers, NEW st \in States, NEW ok \in BOOLEAN, NEW from,
           NEW pointer, st = Want(v), st # "idle"
    PROVE  Outcome(v, r, ask, pointer, AskWait(Switched(r, st, ok), from))
  <1> DEFINE s == Switched(r, st, ok)
             b == s.rc = "ok" /\ s.r.state \in from
  <1>1. AskWait(s, from) = [s EXCEPT !.id = b]
    BY DEF AskWait
  <1>2. b \in BOOLEAN
    OBVIOUS
  <1>3. /\ s \in Results /\ s.st = st /\ s.rc \in {"ok", "error"} /\ ~s.id /\ ~s.hold
        /\ s.r.state = r.state /\ s.r.clk = r.clk /\ s.r.wait = r.wait
        /\ s.r.hw = st
        /\ s.r.collapse => r.collapse /\ s.rc # "ok"
    BY SwitchedResult
  <1> HIDE DEF s, b
  <1>4. PICK a : a = [s EXCEPT !.id = b]
    OBVIOUS
  <1>5. a \in Results /\ a.r = s.r /\ a.st = s.st /\ a.rc = s.rc /\ a.hold = s.hold
    BY <1>2, <1>3, <1>4 DEF Results
  <1>6. Outcome(v, r, ask, pointer, a)
    BY <1>3, <1>5 DEF Outcome
  <1> QED  BY <1>1, <1>4, <1>6 DEF s

\* The same for CountWait, which may make the caller wait in the switch.
LEMMA CountWaitOutcome ==
    ASSUME NEW v, NEW ask, NEW r \in Controllers, NEW st \in States, NEW ok \in BOOLEAN, NEW from,
           NEW pointer \in BOOLEAN, st = Want(v), st # "idle"
    PROVE  Outcome(v, r, ask, pointer, CountWait(Switched(r, st, ok), from, pointer))
  <1> DEFINE s == Switched(r, st, ok)
             b == s.rc = "ok" /\ s.r.state \in from
             h == s.r.wait > 0
  <1>2. b \in BOOLEAN
    OBVIOUS
  <1>3. /\ s \in Results /\ s.st = st /\ s.rc \in {"ok", "error"} /\ ~s.id /\ ~s.hold
        /\ s.r \in Controllers
        /\ s.r.state = r.state /\ s.r.clk = r.clk /\ s.r.wait = r.wait
        /\ s.r.hw = st
        /\ s.r.collapse => r.collapse /\ s.rc # "ok"
    BY SwitchedResult DEF Results
  <1>4. PICK a : a = CountWait(s, from, pointer)
    OBVIOUS
  <1>5. CASE b /\ pointer
    <2>1. a = [s EXCEPT !.r.wait = @ + 1, !.id = TRUE]
      BY <1>4, <1>5 DEF CountWait
    <2> HIDE DEF s, b, h
    <2>2. /\ a = [s EXCEPT !.r = [s.r EXCEPT !.wait = s.r.wait + 1], !.id = TRUE]
          /\ [s.r EXCEPT !.wait = s.r.wait + 1] \in Controllers
      BY <2>1, <1>3 DEF Results, Controllers
    <2>3. /\ a.r \in Controllers /\ a.r.wait = r.wait + 1 /\ a.r.state = r.state /\ a.r.clk = r.clk
          /\ a.r.hw = st /\ a.r.collapse = s.r.collapse
          /\ a.id /\ a.rc = s.rc /\ a.hold = s.hold /\ a.st = st /\ a \in Results
      BY <2>2, <1>3 DEF Results, Controllers
    <2> QED  BY <1>3, <1>4, <1>5, <2>3 DEF Outcome, s
  <1>6. CASE b /\ ~pointer
    <2>1. a = s
      BY <1>4, <1>6 DEF CountWait
    <2> HIDE DEF s, b, h
    <2> QED  BY <2>1, <1>3, <1>4 DEF Outcome, s
  <1>7. CASE ~b
    <2>1. a = [s EXCEPT !.hold = h]
      BY <1>4, <1>7 DEF CountWait
    <2>4. h \in BOOLEAN /\ (h => r.wait > 0)
      BY <1>3
    <2> HIDE DEF s, b, h
    <2>3. /\ a.r = s.r /\ a.id = s.id /\ a.rc = s.rc /\ a.hold = h /\ a.st = st /\ a \in Results
      BY <2>1, <1>3, <2>4 DEF Results
    <2> QED  BY <1>3, <1>4, <2>3, <2>4 DEF Outcome, s
  <1> QED  BY <1>2, <1>5, <1>6, <1>7

\* A switch that finds its state taken, or is refused, leaves the RSC alone.
LEMMA PlainOutcome ==
    ASSUME NEW v, NEW ask, NEW pointer, NEW r \in Controllers
    PROVE  /\ r.state \in {"cmd", "vid"} /\ ask \in {"idle", r.state} /\ Some(v, r.state) =>
                 \A id \in BOOLEAN : Outcome(v, r, ask, pointer, Result(r, "ok", r.state, id, FALSE))
           /\ Outweighed(v, ask) => Outcome(v, r, ask, pointer, Refused(r))
  <1>1. ASSUME NEW id \in BOOLEAN, NEW rc \in {"ok", "refused"}
        PROVE  /\ Result(r, rc, r.state, id, FALSE) \in Results
               /\ Result(r, rc, r.state, id, FALSE).r = r
               /\ Result(r, rc, r.state, id, FALSE).rc = rc
               /\ Result(r, rc, r.state, id, FALSE).st = r.state
               /\ Result(r, rc, r.state, id, FALSE).hold = FALSE
    BY <1>1 DEF Result, Results, Controllers
  <1>2. ASSUME NEW id \in BOOLEAN,
               r.state \in {"cmd", "vid"} /\ ask \in {"idle", r.state} /\ Some(v, r.state)
        PROVE  Outcome(v, r, ask, pointer, Result(r, "ok", r.state, id, FALSE))
    <2> DEFINE a == Result(r, "ok", r.state, id, FALSE)
    <2>1. a \in Results /\ a.r = r /\ a.rc = "ok" /\ a.st = r.state /\ a.hold = FALSE
      BY <1>1
    <2> HIDE DEF a
    <2>2. Outcome(v, r, ask, pointer, a)
      BY <2>1, <1>2 DEF Outcome, Controllers
    <2> QED  BY <2>2 DEF a
  <1>3. ASSUME Outweighed(v, ask)
        PROVE  Outcome(v, r, ask, pointer, Refused(r))
    <2> DEFINE a == Refused(r)
    <2>1. a \in Results /\ a.r = r /\ a.rc = "refused" /\ a.st = r.state /\ a.hold = FALSE
      BY <1>1 DEF Refused
    <2> HIDE DEF a
    <2>2. Outcome(v, r, ask, pointer, a)
      BY <2>1, <1>3 DEF Outcome, Controllers
    <2> QED  BY <2>2 DEF a
  <1> QED  BY <1>2, <1>3

\* AskWait on a state already taken only decides whether the caller waits.
LEMMA AskWaitSame ==
    ASSUME NEW r, NEW st, NEW from
    PROVE  \E id \in BOOLEAN :
              AskWait(Result(r, "ok", st, FALSE, FALSE), from) = Result(r, "ok", st, id, FALSE)
  <1>1. (r.state \in from) \in BOOLEAN
    OBVIOUS
  <1>2. PICK id \in BOOLEAN : id = (r.state \in from)
    BY <1>1
  <1>3. AskWait(Result(r, "ok", st, FALSE, FALSE), from)
            = [Result(r, "ok", st, FALSE, FALSE) EXCEPT !.id = id]
    BY <1>2 DEF AskWait, Result
  <1>4. [Result(r, "ok", st, FALSE, FALSE) EXCEPT !.id = id] = Result(r, "ok", st, id, FALSE)
    <2>1. ASSUME NEW no, NEW yes
          PROVE  [Result(r, "ok", st, no, no) EXCEPT !.id = yes] = Result(r, "ok", st, yes, no)
      BY DEF Result
    <2> QED  BY <2>1, Zenon
  <1> QED  BY <1>3, <1>4

\* What sane votes say of VID and CMD: on version 3 only the primary votes for them.
LEMMA SaneVotes ==
    ASSUME NEW v, Sane(v)
    PROVE  /\ v["prim"] = "cmd" => Some(v, "cmd")
           /\ cfg.v3 /\ Some(v, "vid") => v["prim"] = "vid"
           /\ Some(v, "cmd") => v["prim"] = "cmd"
           /\ v["power"] = "clk" => Some(v, "clk")
           /\ v["power"] # "clk" => \A c \in Clients : v[c] = "idle"
           /\ \A c \in Clients : Some(v, v[c])
           /\ \A c \in Clients : v[c] = "cmd" => c = "prim"
           /\ \A c \in Clients : cfg.v3 /\ v[c] = "vid" => c = "prim"
  <1> USE RscConstants DEF Clients, Encoders
  <1>1. \A e \in Exts : v[e] # "cmd" /\ (cfg.v3 => v[e] # "vid")
    BY DEF Sane, Asks
  <1>2. v["power"] # "cmd" /\ v["power"] # "vid"
    BY DEF Sane
  <1>3. v["power"] # "clk" => \A c \in Clients : v[c] = "idle"
    BY DEF Sane
  <1> QED  BY <1>1, <1>2, <1>3 DEF Some

\* sde_rsc_switch_to_cmd_v2 and _v3, also when a request for idle is redirected.
LEMMA CmdOutcome ==
    ASSUME NEW v, Sane(v), NEW r \in Controllers, NEW config \in BOOLEAN, NEW ok \in BOOLEAN,
           NEW ask, NEW pointer, v["prim"] = "cmd",
           ask = "cmd" \/ (ask = "idle" /\ ~Multi(v) /\ ~Some(v, "vid"))
    PROVE  Outcome(v, r, ask, pointer, switch_to_cmd(v, r, "prim", config, ok))
  <1> DEFINE a == switch_to_cmd(v, r, "prim", config, ok)
             same == Result(r, "ok", "cmd", FALSE, FALSE)
             no == IF cfg.v3 THEN ExtClk(v) ELSE Some(v, "vid")
  <1>0. Some(v, "cmd") /\ "cmd" \in States /\ (cfg.v3 => ~Some(v, "vid"))
    BY SaneVotes DEF States
  <1>1. CASE r.state = "cmd"
    <2>1. a = IF config THEN AskWait(same, {"cmd"}) ELSE same
      BY <1>1 DEF switch_to_cmd
    <2>2. PICK id \in BOOLEAN : a = Result(r, "ok", "cmd", id, FALSE)
      BY <2>1, AskWaitSame
    <2> HIDE DEF a
    <2>3. Outcome(v, r, ask, pointer, a)
      BY <2>2, <1>0, <1>1, PlainOutcome
    <2> QED  BY <2>3 DEF a
  <1>2. CASE r.state # "cmd" /\ no
    <2>1. a = Refused(r)
      BY <1>2 DEF switch_to_cmd
    <2>2. Outweighed(v, ask)
      BY <1>2 DEF Outweighed, Multi
    <2> QED  BY <2>1, <2>2, PlainOutcome
  <1>3. CASE r.state # "cmd" /\ ~no
    <2>1. a = AskWait(Switched(r, "cmd", ok), {"vid"})
      BY <1>3 DEF switch_to_cmd
    <2>2. Want(v) = "cmd"
      BY <1>3, <1>0, WantType
    <2> QED  BY <2>1, <2>2, <1>0, AskWaitOutcome
  <1>4. no \in BOOLEAN
    BY DEF Some, ExtClk
  <1> QED  BY <1>1, <1>2, <1>3, <1>4

\* sde_rsc_switch_to_vid_v2.
LEMMA VidV2Outcome ==
    ASSUME NEW v, ~cfg.v3, NEW r \in Controllers, NEW ok \in BOOLEAN, NEW pointer \in BOOLEAN,
           NEW ask, ask = "vid", Some(v, "vid")
    PROVE  Outcome(v, r, ask, pointer, switch_to_vid_v2(v, r, ok, pointer))
  <1> DEFINE a == switch_to_vid_v2(v, r, ok, pointer)
  <1>0. Want(v) = "vid" /\ "vid" \in States
    BY WantType DEF States
  <1>1. CASE r.state = "vid"
    <2>1. a = Result(r, "ok", r.state, FALSE, FALSE)
      BY <1>1 DEF switch_to_vid_v2
    <2>2. \A id \in BOOLEAN : Outcome(v, r, ask, pointer, Result(r, "ok", r.state, id, FALSE))
      BY <1>1, PlainOutcome
    <2> QED  BY <2>1, <2>2
  <1>2. CASE r.state # "vid"
    <2>1. a = CountWait(Switched(r, "vid", ok), {"cmd"}, pointer)
      BY <1>2 DEF switch_to_vid_v2
    <2> QED  BY <2>1, <1>0, CountWaitOutcome
  <1> QED  BY <1>1, <1>2

\* sde_rsc_switch_to_vid_v3, also when a request for idle is redirected.
LEMMA VidV3Outcome ==
    ASSUME NEW v, cfg.v3, NEW r \in Controllers, NEW config \in BOOLEAN, NEW ok \in BOOLEAN,
           NEW ask, NEW pointer, ask = "vid" \/ (ask = "idle" /\ ~Multi(v)), Some(v, "vid")
    PROVE  Outcome(v, r, ask, pointer, switch_to_vid_v3(v, r, "prim", config, ok))
  <1> DEFINE a == switch_to_vid_v3(v, r, "prim", config, ok)
             same == Result(r, "ok", "vid", FALSE, FALSE)
  <1>0. "vid" \in States
    BY DEF States
  <1>1. CASE r.state = "vid"
    <2>1. a = IF config THEN AskWait(same, {"vid"}) ELSE same
      BY <1>1 DEF switch_to_vid_v3
    <2>2. PICK id \in BOOLEAN : a = Result(r, "ok", "vid", id, FALSE)
      BY <2>1, AskWaitSame
    <2> HIDE DEF a
    <2>3. Outcome(v, r, ask, pointer, a)
      BY <2>2, <1>0, <1>1, PlainOutcome
    <2> QED  BY <2>3 DEF a
  <1>2. CASE r.state # "vid" /\ ExtClk(v)
    <2>1. a = Refused(r)
      BY <1>2 DEF switch_to_vid_v3
    <2>2. Outweighed(v, ask)
      BY <1>2 DEF Outweighed, Multi
    <2> QED  BY <2>1, <2>2, PlainOutcome
  <1>3. CASE r.state # "vid" /\ ~ExtClk(v)
    <2>1. a = AskWait(Switched(r, "vid", ok), {"cmd"})
      BY <1>3 DEF switch_to_vid_v3
    <2>2. Want(v) = "vid"
      BY <1>3, <1>0, WantType
    <2> QED  BY <2>1, <2>2, <1>0, AskWaitOutcome
  <1> QED  BY <1>1, <1>2, <1>3

\* sde_rsc_switch_to_clk_v2 and _v3, also when a request for idle is redirected.
LEMMA ClkOutcome ==
    ASSUME NEW v, NEW r \in Controllers, NEW ok \in BOOLEAN, NEW pointer \in BOOLEAN, NEW ask,
           Some(v, "clk"),
           ask = "clk" \/ (ask = "idle" /\ (Multi(v) \/ (~Some(v, "vid") /\ ~Some(v, "cmd"))))
    PROVE  Outcome(v, r, ask, pointer, switch_to_clk(v, r, ok, pointer))
  <1> DEFINE a == switch_to_clk(v, r, ok, pointer)
             no == (Some(v, "vid") \/ Some(v, "cmd")) /\ ~(cfg.v3 /\ ExtClk(v))
             from == IF cfg.v3 THEN {"cmd", "vid"} ELSE {"cmd"}
  <1>1. CASE no
    <2>1. a = Refused(r)
      BY <1>1 DEF switch_to_clk
    <2>2. Outweighed(v, ask)
      BY <1>1 DEF Outweighed, Multi
    <2> QED  BY <2>1, <2>2, PlainOutcome
  <1>2. CASE ~no
    <2>1. a = CountWait(Switched(r, "clk", ok), from, pointer)
      BY <1>2 DEF switch_to_clk
    <2>2. Want(v) = "clk" /\ "clk" \in States
      BY <1>2, WantType DEF States
    <2> HIDE DEF from
    <2> QED  BY <2>1, <2>2, CountWaitOutcome
  <1> QED  BY <1>1, <1>2

\* sde_rsc_switch_to_idle_v2 and _v3.
LEMMA IdleOutcome ==
    ASSUME NEW v, Sane(v), NEW r \in Controllers, NEW ok \in BOOLEAN, NEW pointer \in BOOLEAN
    PROVE  /\ Outcome(v, r, "idle", pointer, switch_to_idle(v, r, ok, pointer))
           /\ v["power"] # "clk" => ~switch_to_idle(v, r, ok, pointer).hold
  <1> DEFINE a == switch_to_idle(v, r, ok, pointer)
             multi == cfg.v3 /\ ExtClk(v)
  <1>0. /\ Some(v, "vid") \in BOOLEAN /\ Some(v, "cmd") \in BOOLEAN /\ multi \in BOOLEAN
    BY DEF Some, ExtClk
  <1>1. CASE Some(v, "vid") /\ ~cfg.v3
    <2>1. a = Refused(r)
      BY <1>1 DEF switch_to_idle
    <2>2. Outweighed(v, "idle")
      BY <1>1 DEF Outweighed
    <2>3. ~a.hold
      BY <2>1 DEF Refused, Result
    <2> QED  BY <2>1, <2>2, <2>3, PlainOutcome
  <1>2. CASE Some(v, "vid") /\ cfg.v3 /\ ~multi
    <2>1. a = switch_to_vid_v3(v, r, "prim", FALSE, ok)
      BY <1>2 DEF switch_to_idle, switch_to_vid
    <2>2. v["power"] = "clk"
      BY <1>2, SaneVotes DEF Some
    <2> QED  BY <2>1, <2>2, <1>2, VidV3Outcome DEF Multi
  <1>3. CASE ~Some(v, "vid") /\ Some(v, "cmd") /\ ~multi
    <2>1. a = switch_to_cmd(v, r, "prim", FALSE, ok)
      BY <1>3 DEF switch_to_idle
    <2>2. v["power"] = "clk" /\ v["prim"] = "cmd"
      BY <1>3, SaneVotes DEF Some
    <2> QED  BY <2>1, <2>2, <1>3, CmdOutcome DEF Multi
  <1>4. CASE /\ ~(Some(v, "vid") /\ ~cfg.v3) /\ ~(Some(v, "vid") /\ cfg.v3 /\ ~multi)
             /\ ~(~Some(v, "vid") /\ Some(v, "cmd") /\ ~multi)
    <2>1. a = IF v["power"] = "clk" THEN switch_to_clk(v, r, ok, pointer)
              ELSE Switched(r, "idle", ok)
      BY <1>4 DEF switch_to_idle
    <2>2. CASE v["power"] = "clk"
      <3>1. Some(v, "clk")
        BY <2>2, SaneVotes
      <3> QED  BY <2>1, <2>2, <3>1, <1>4, ClkOutcome DEF Multi
    <2>3. CASE v["power"] # "clk"
      <3>1. a = Switched(r, "idle", ok)
        BY <2>1, <2>3
      <3>2. Want(v) = "idle"
        BY <2>3, SaneVotes, WantType
      <3>3. /\ a \in Results /\ a.st = "idle" /\ a.rc \in {"ok", "error"} /\ ~a.id /\ ~a.hold
            /\ a.r.state = r.state /\ a.r.clk = r.clk /\ a.r.wait = r.wait
            /\ a.rc = "ok" => a.r.hw = "idle"
            /\ a.r.collapse => r.collapse \/ a.rc = "ok"
        BY <3>1, SwitchedResult DEF States
      <3> HIDE DEF a
      <3>4. Outcome(v, r, "idle", pointer, a)
        BY <3>2, <3>3 DEF Outcome
      <3> QED  BY <3>3, <3>4 DEF a
    <2> QED  BY <2>2, <2>3
  <1> QED  BY <1>0, <1>1, <1>2, <1>3, <1>4

\* Any request of a client that has entered its vote.
LEMMA SwitchOutcome ==
    ASSUME NEW v, Sane(v), NEW r \in Controllers, NEW ok \in BOOLEAN, NEW config \in BOOLEAN,
           NEW c \in Clients
    PROVE  /\ Outcome(v, r, v[c], c # "power", Switch(c, v[c], config, v, r, ok))
           /\ v["power"] # "clk" => ~Switch(c, v[c], config, v, r, ok).hold
  <1> DEFINE a == Switch(c, v[c], config, v, r, ok)
  <1>0. v[c] \in States /\ Some(v, v[c]) /\ (v["power"] # "clk" => v[c] = "idle")
    BY SaneVotes DEF Sane
  <1>1. PICK pointer \in BOOLEAN : pointer = (c # "power")
    OBVIOUS
  <1>2. CASE v[c] = "idle"
    <2>1. a = switch_to_idle(v, r, ok, pointer)
      BY <1>1, <1>2 DEF Switch
    <2> QED  BY <2>1, <1>1, <1>2, IdleOutcome
  <1>3. CASE v[c] = "clk"
    <2>1. a = switch_to_clk(v, r, ok, pointer)
      BY <1>1, <1>3 DEF Switch
    <2> QED  BY <2>1, <1>0, <1>1, <1>3, ClkOutcome
  <1>4. CASE v[c] = "cmd"
    <2>1. c = "prim"
      BY <1>4, SaneVotes
    <2>2. a = switch_to_cmd(v, r, "prim", config, ok)
      BY <1>4, <2>1 DEF Switch
    <2> QED  BY <2>1, <2>2, <1>0, <1>1, <1>4, CmdOutcome
  <1>5. CASE v[c] = "vid"
    <2>0. c # "power" /\ pointer = TRUE
      BY <1>5, <1>1 DEF Sane
    <2>1. a = switch_to_vid(v, r, c, config, ok, TRUE)
      BY <1>5 DEF Switch
    <2>2. CASE cfg.v3
      <3>1. c = "prim"
        BY <1>5, <2>2, SaneVotes
      <3>2. a = switch_to_vid_v3(v, r, "prim", config, ok)
        BY <2>1, <2>2, <3>1 DEF switch_to_vid
      <3> QED  BY <3>2, <2>2, <1>0, <1>1, <1>5, VidV3Outcome
    <2>3. CASE ~cfg.v3
      <3>1. a = switch_to_vid_v2(v, r, ok, TRUE)
        BY <2>1, <2>3 DEF switch_to_vid
      <3>2. Outcome(v, r, "vid", TRUE, switch_to_vid_v2(v, r, ok, TRUE))
        BY <2>3, <1>0, <1>5, VidV2Outcome
      <3> QED  BY <3>1, <3>2, <2>0, <1>0, <1>1, <1>5
    <2> QED  BY <2>2, <2>3
  <1> QED  BY <1>0, <1>2, <1>3, <1>4, <1>5 DEF States

\* If the RSC was in the state wanted by the votes old, it is in the state wanted by
\* v after a request for ask that is refused or finds its state taken.
Steady(old, v, ask) ==
    /\ Outweighed(v, ask) => Want(v) = Want(old)
    /\ Want(old) \in {"cmd", "vid"} /\ ask \in {"idle", Want(old)} /\ Some(v, Want(old))
          => Want(v) = Want(old)
    /\ ask = Want(old) => Want(v) = Want(old)

\* A vote that is outweighed, or for a state that is taken, leaves what is wanted.
LEMMA WantKept ==
    ASSUME NEW old, Sane(old), NEW c \in Clients, NEW ask \in States, NEW v,
           v = [old EXCEPT ![c] = ask], Sane(v),
           c \in Exts => old[c] = "idle" \/ ask = "idle"
    PROVE  Steady(old, v, ask)
  <1> USE RscConstants
  <1>1. v[c] = ask /\ \A d \in Clients \ {c} : v[d] = old[d]
    BY DEF Sane
  <1>2. /\ ask # "vid" /\ Some(v, "vid") => Some(old, "vid")
        /\ ask # "cmd" /\ Some(v, "cmd") => Some(old, "cmd")
        /\ c \notin Exts => (ExtClk(v) = ExtClk(old))
    BY <1>1 DEF Some, ExtClk, Clients, Encoders
  <1>3. ASSUME Outweighed(v, ask)
        PROVE  Want(v) = Want(old)
    <2>1. CASE ask \in {"cmd", "vid"} /\ Multi(v)
      <3>2. \A d \in Clients : v[d] = "cmd" \/ (cfg.v3 /\ v[d] = "vid") => d = "prim"
        BY SaneVotes, Zenon
      <3>0. c = "prim"
        BY <2>1, <1>1, <3>2 DEF Multi
      <3>1. c \notin Exts
        BY <3>0
      <3> QED  BY <2>1, <3>1, <1>2, WantType DEF Multi
    <2>2. CASE ask # "vid" /\ ~cfg.v3 /\ Some(v, "vid")
      BY <2>2, <1>2, WantType
    <2>3. CASE ask = "clk" /\ ~Multi(v) /\ (Some(v, "vid") \/ Some(v, "cmd"))
      <3>1. ~Multi(old)
        BY <2>3, <1>1 DEF Multi, ExtClk, Clients, Encoders
      <3>2. CASE Some(v, "vid")
        BY <2>3, <3>1, <3>2, <1>2, WantType DEF Multi
      <3>3. CASE ~Some(v, "vid") /\ Some(v, "cmd")
        <4>1. v["prim"] = "cmd" /\ c # "prim"
          BY <3>3, <2>3, <1>1, SaneVotes
        <4>2. old[c] # "vid"
          BY <4>1, <2>3 DEF Sane, Clients, Encoders
        <4>3. ~Some(old, "vid")
          BY <4>2, <3>3, <1>1 DEF Some
        <4> QED  BY <4>3, <3>1, <3>3, <2>3, <1>2, WantType DEF Multi
      <3> QED  BY <2>3, <3>2, <3>3
    <2> QED  BY <1>3, <2>1, <2>2, <2>3 DEF Outweighed
  <1>4. ASSUME Want(old) \in {"cmd", "vid"}, ask \in {"idle", Want(old)}, Some(v, Want(old))
        PROVE  Want(v) = Want(old)
    <2>1. ~Multi(old)
      BY <1>4, WantType DEF Multi
    <2>2. ~Multi(v)
      BY <1>1, <1>4, <2>1 DEF Multi, ExtClk, Clients, Encoders
    <2>3. CASE Want(old) = "vid"
      BY <1>4, <2>2, <2>3, WantType DEF Multi
    <2>4. CASE Want(old) = "cmd"
      <3>1. ~Some(old, "vid")
        BY <2>1, <2>4, WantType DEF Multi
      <3>2. ~Some(v, "vid")
        BY <3>1, <2>4, <1>2, <1>4
      <3> QED  BY <1>4, <2>2, <2>4, <3>2, WantType DEF Multi
    <2> QED  BY <1>4, <2>3, <2>4
  <1>5. ASSUME ask = Want(old)
        PROVE  Want(v) = Want(old)
    <2>1. Some(v, ask)
      BY <1>1 DEF Some
    <2>2. CASE ask \in {"cmd", "vid"}
      BY <1>4, <1>5, <2>1, <2>2
    <2>3. CASE ask = "idle"
      <3>1. ~Some(old, "vid") /\ ~Some(old, "cmd") /\ ~Some(old, "clk") /\ ~Multi(old)
        BY <1>5, <2>3, WantType DEF Multi
      <3>2. ~Some(v, "vid") /\ ~Some(v, "cmd") /\ ~Some(v, "clk")
        BY <3>1, <2>3, <1>1 DEF Some
      <3>3. \A d \in Clients : v[d] = "idle"
        BY <3>2 DEF Some, Sane, States
      <3> QED  BY <3>3, <1>5, <2>3, WantType
    <2>4. CASE ask = "clk"
      <3>1. CASE Multi(old)
        <4>1. Multi(v)
          BY <3>1, <2>4, <1>1 DEF Multi, ExtClk, Clients, Encoders
        <4> QED  BY <4>1, <1>5, <2>4, WantType DEF Multi
      <3>2. CASE ~Multi(old)
        <4>1. ~Some(old, "vid") /\ ~Some(old, "cmd")
          BY <3>2, <1>5, <2>4, WantType DEF Multi
        <4>2. ~Some(v, "vid") /\ ~Some(v, "cmd")
          BY <4>1, <2>4, <1>2
        <4> QED  BY <4>2, <2>1, <1>5, <2>4, WantType DEF Multi
      <3> QED  BY <3>1, <3>2
    <2> QED  BY <2>2, <2>3, <2>4 DEF States
  <1> QED  BY <1>3, <1>4, <1>5 DEF Steady
-----------------------------------------------------------------------------
(* A request as a step of the whole system.                                *)

\* What a request leaves in the RSC, whether it is still inside or has returned.
RscLeft ==
    /\ cfg' = cfg /\ seen' = seen /\ pend = NoRequest
    /\ faults' \in 0..MaxFaults /\ failed' \in BOOLEAN
    /\ rsc' \in Controllers
    /\ rsc'.clk = (IF rsc'.state = "idle" /\ pend' = NoRequest THEN 0 ELSE 1)
    /\ rsc'.collapse => rsc'.state = "idle"
    /\ rsc'.state \in {rsc.state, Want(vote')}
    /\ pend' = NoRequest /\ ~failed' => rsc'.state = Want(vote') /\ rsc'.hw = Want(vote')

\* It stays inside only to wait for a vsync that was asked for before.
Held(e, c, st) ==
    /\ pend' = [by |-> e, client |-> c, ask |-> st, st |-> Want(vote')]
    /\ rsc'.hw = Want(vote') /\ rsc'.state = rsc.state
    /\ rsc.wait > 0 /\ rsc'.wait = rsc.wait
    /\ vote'["power"] = "clk"
    /\ UNCHANGED <<pc, ph>>

\* It returns, and has asked only its caller to wait.
Returned(e, c, st, rc, id) ==
    /\ pend' = NoRequest
    /\ Return(e, c, st, rc, id)
    /\ rsc'.wait = rsc.wait \/ (rsc'.wait = rsc.wait + 1 /\ id /\ c # "power")
    /\ st = "clk" /\ rc # "error" => rsc'.state # "idle" \/ Outweighed(vote', st)

Effect(e, c, st) ==
    /\ RscLeft /\ vote' = [vote EXCEPT ![c] = st]
    /\ \/ Held(e, c, st)
       \/ \E rc \in {"ok", "error", "refused"}, id \in BOOLEAN : Returned(e, c, st, rc, id)

\* A waiting request is told from none.
LEMMA PendIsRequest ==
    ASSUME NEW e, NEW c, NEW ask, NEW st
    PROVE  [by |-> e, client |-> c, ask |-> ask, st |-> st] # NoRequest
  <1>1. "client" \in DOMAIN [by |-> e, client |-> c, ask |-> ask, st |-> st]
    OBVIOUS
  <1>2. "client" \notin DOMAIN NoRequest
    BY DEF NoRequest
  <1> QED  BY <1>1, <1>2

\* The wanted state is that of the votes.
LEMMA WantedIsWant ==
    Wanted = Want(vote)
  BY DEF Wanted, Want

\* sde_rsc_client_state_update keeps the RSC in line with the votes.
LEMMA RequestEffect ==
    ASSUME IInv, NEW e \in Encoders, NEW c \in Clients, NEW st \in States,
           NEW config \in BOOLEAN, sde_rsc_client_state_update(e, c, st, config),
           Sane([vote EXCEPT ![c] = st]), c \in Exts => vote[c] = "idle" \/ st = "idle"
    PROVE  Effect(e, c, st)
  <1> DEFINE v == [vote EXCEPT ![c] = st]
             r == [rsc EXCEPT !.clk = IF rsc.state = "idle" THEN @ + 1 ELSE @]
  <1>0. /\ pend = NoRequest /\ vote' = v /\ cfg' = cfg /\ seen' = seen
        /\ rsc \in Controllers /\ Sane(vote) /\ v[c] = st
        /\ faults \in 0..MaxFaults /\ failed \in BOOLEAN
        /\ rsc.clk = IF rsc.state = "idle" THEN 0 ELSE 1
        /\ rsc.collapse => rsc.state = "idle"
        /\ ~failed => rsc.state = Want(vote) /\ rsc.hw = Want(vote)
    BY WantedIsWant
       DEF sde_rsc_client_state_update, IInv, TypeOK, Sane, Awake, VotesHonoured, Controllers
  <1>1. /\ Outweighed(v, st) => Want(v) = Want(vote)
        /\ Want(vote) \in {"cmd", "vid"} /\ st \in {"idle", Want(vote)} /\ Some(v, Want(vote))
              => Want(v) = Want(vote)
        /\ st = Want(vote) => Want(v) = Want(vote)
    <2>1. v = [vote EXCEPT ![c] = st] /\ Sane(v)
      OBVIOUS
    <2> HIDE DEF v
    <2>2. Sane(vote) /\ (c \in Exts => vote[c] = "idle" \/ st = "idle")
      BY <1>0
    <2>3. Steady(vote, v, st)
      BY <2>1, <2>2, WantKept, Zenon
    <2> QED  BY <2>3 DEF Steady
  <1>2. CASE rsc.state = st /\ ~config
    <2>1. Return(e, c, st, "ok", FALSE) /\ UNCHANGED <<rsc, pend, faults, failed>>
      BY <1>2 DEF sde_rsc_client_state_update
    <2>2. RscLeft
      <3> HIDE DEF v
      <3> QED  BY <2>1, <1>0, <1>1, <1>2 DEF RscLeft
    <2>3. Returned(e, c, st, "ok", FALSE)
      <3> HIDE DEF v
      <3> QED  BY <2>1, <1>0, <1>2 DEF Returned
    <2> QED  BY <2>2, <2>3, <1>0 DEF Effect
  <1>3. CASE ~(rsc.state = st /\ ~config)
    <2> DEFINE res(ok) == Switch(c, st, config, v, r, ok)
    <2>1. PICK ok \in BOOLEAN :
             /\ ok \/ faults < MaxFaults
             /\ faults' = IF ok THEN faults ELSE faults + 1
             /\ IF res(ok).hold
                THEN /\ pend' = [by |-> e, client |-> c, ask |-> st, st |-> res(ok).st]
                     /\ rsc' = res(ok).r
                     /\ UNCHANGED <<pc, ph, failed>>
                ELSE Finish(e, c, st, res(ok), res(ok).r) /\ UNCHANGED pend
      BY <1>0, <1>3 DEF sde_rsc_client_state_update
    <2>2. r \in Controllers /\ r.clk = 1 /\ r.state = rsc.state /\ r.hw = rsc.hw
          /\ r.wait = rsc.wait /\ r.collapse = rsc.collapse
      BY <1>0 DEF Controllers
    <2>3. PICK a : a = res(ok)
      OBVIOUS
    <2>4. Outcome(v, r, st, c # "power", a) /\ (v["power"] # "clk" => ~a.hold)
      <3>1. Outcome(v, r, v[c], c # "power", Switch(c, v[c], config, v, r, ok))
            /\ (v["power"] # "clk" => ~Switch(c, v[c], config, v, r, ok).hold)
        <4> HIDE DEF r, v
        <4> QED  BY <2>2, SwitchOutcome DEF v
      <3> QED  BY <3>1, <2>3, <1>0
    <2>5. faults' \in 0..MaxFaults
      BY <2>1, <1>0, RscConstants
    <2> HIDE DEF r, v, res
    <2>6. CASE a.hold
      <3>1. /\ pend' = [by |-> e, client |-> c, ask |-> st, st |-> a.st]
            /\ rsc' = a.r /\ UNCHANGED <<pc, ph, failed>>
        BY <2>1, <2>3, <2>6
      <3>2. pend' # NoRequest
        BY <3>1, PendIsRequest
      <3>3. /\ a.r \in Controllers /\ a.st = Want(v) /\ a.r.hw = Want(v) /\ a.st # "idle"
            /\ rsc.wait > 0 /\ a.r.wait = rsc.wait /\ a.r.state = rsc.state /\ a.r.clk = 1
            /\ a.r.collapse => rsc.collapse \/ (a.rc = "ok" /\ a.st = "idle")
        BY <2>2, <2>4, <2>6 DEF Outcome, Results
      <3>4. RscLeft
        BY <3>1, <3>2, <3>3, <2>5, <1>0 DEF RscLeft
      <3>5. v["power"] = "clk"
        BY <2>4, <2>6, <1>0 DEF Sane
      <3>6. Held(e, c, st)
        BY <3>1, <3>3, <3>5, <1>0 DEF Held
      <3> QED  BY <3>4, <3>6, <1>0 DEF v, Effect
    <2>7. CASE ~a.hold
      <3>1. Finish(e, c, st, a, a.r) /\ pend' = NoRequest
        BY <2>1, <2>3, <2>7, <1>0
      <3>2. /\ a \in Results /\ a.r \in Controllers /\ a.rc \in {"ok", "error", "refused"}
            /\ a.id \in BOOLEAN /\ a.st \in States
            /\ a.r.state = rsc.state /\ a.r.clk = 1
            /\ a.r.wait = rsc.wait \/ (a.r.wait = rsc.wait + 1 /\ a.id /\ c # "power")
            /\ a.r.collapse => rsc.collapse \/ (a.rc = "ok" /\ a.st = "idle")
            /\ a.rc = "ok" =>
                  \/ a.st = Want(v) /\ a.r.hw = a.st /\ (a.r.collapse => a.st = "idle")
                  \/ /\ a.r = r /\ a.st = rsc.state
                     /\ rsc.state \in {"cmd", "vid"} /\ st \in {"idle", rsc.state}
                     /\ Some(v, rsc.state)
            /\ a.rc = "refused" => a.r = r /\ Outweighed(v, st)
        BY <2>2, <2>4 DEF Outcome, Results
      <3> DEFINE to == IF a.rc = "ok" THEN a.st ELSE rsc.state
      <3>3. /\ rsc' \in Controllers /\ rsc'.state = to
            /\ rsc'.hw = a.r.hw /\ rsc'.wait = a.r.wait /\ rsc'.collapse = a.r.collapse
            /\ rsc'.clk = IF to = "idle" THEN 0 ELSE 1
        <4>1. rsc' = [a.r EXCEPT !.state = to, !.clk = IF to = "idle" THEN @ - 1 ELSE @]
          BY <3>1, <3>2 DEF Finish, settle
        <4>2. to \in States
          BY <3>2, <1>0 DEF Controllers
        <4> HIDE DEF to
        <4>3. CASE to = "idle"
          <5>1. rsc' = [a.r EXCEPT !.state = to, !.clk = 0]
            BY <4>1, <4>3, <3>2 DEF Controllers
          <5>2. PICK s : s = a.r
            OBVIOUS
          <5>3. PICK n \in 0..1 : n = 0
            OBVIOUS
          <5>4. s \in Controllers /\ rsc' = [s EXCEPT !.state = to, !.clk = n]
            BY <5>1, <5>2, <5>3, <3>2
          <5>5. /\ rsc' \in Controllers /\ rsc'.state = to /\ rsc'.hw = s.hw
                /\ rsc'.wait = s.wait /\ rsc'.collapse = s.collapse /\ rsc'.clk = n
            BY <5>4, <4>2 DEF Controllers
          <5> QED  BY <4>3, <5>2, <5>3, <5>5
        <4>4. CASE to # "idle"
          <5>1. rsc' = [a.r EXCEPT !.state = to]
            BY <4>1, <4>4, <3>2 DEF Controllers
          <5> QED  BY <4>2, <4>4, <5>1, <3>2 DEF Controllers
        <4> QED  BY <4>3, <4>4
      <3>4. /\ failed' = (IF a.rc = "error" THEN TRUE
                          ELSE IF a.rc = "ok" /\ a.st # rsc.state THEN FALSE ELSE failed)
            /\ Return(e, c, st, a.rc, a.id)
        BY <3>1, <3>2 DEF Finish
      <3>5. failed' \in BOOLEAN
        BY <3>4, <1>0
      <3>6. ~failed' => rsc'.state = Want(v) /\ rsc'.hw = Want(v)
        <4>1. CASE a.rc = "ok" /\ a.st = Want(v) /\ a.r.hw = a.st
          BY <4>1, <3>3
        <4>2. CASE /\ a.rc = "ok" /\ a.r = r /\ a.st = rsc.state
                   /\ rsc.state \in {"cmd", "vid"} /\ st \in {"idle", rsc.state}
                   /\ Some(v, rsc.state)
          BY <4>2, <3>3, <3>4, <2>2, <1>0, <1>1
        <4>3. CASE a.rc = "error"
          BY <4>3, <3>4
        <4>4. CASE a.rc = "refused"
          BY <4>4, <3>2, <3>3, <3>4, <2>2, <1>0, <1>1
        <4> QED  BY <3>2, <4>1, <4>2, <4>3, <4>4
      <3>7. rsc'.collapse => rsc'.state = "idle"
        BY <3>2, <3>3, <2>2, <1>0
      <3>8. rsc'.state \in {rsc.state, Want(v)}
        BY <3>2, <3>3
      <3>9. RscLeft
        BY <3>1, <3>3, <3>5, <3>6, <3>7, <3>8, <2>5, <1>0 DEF RscLeft
      <3>10. st = "clk" /\ a.rc # "error" => rsc'.state # "idle" \/ Outweighed(v, st)
        <4>1. st = "clk" => Want(v) # "idle"
          <5>1. Sane(v)
            BY DEF v
          <5>2. Some(v, v[c])
            BY <5>1, SaneVotes
          <5> QED  BY <5>2, <1>0, WantType
        <4> QED  BY <4>1, <3>2, <3>3
      <3>11. Returned(e, c, st, a.rc, a.id)
        BY <3>1, <3>2, <3>3, <3>4, <3>10, <1>0 DEF Returned
      <3> QED  BY <3>2, <3>9, <3>11, <1>0 DEF v, Effect
    <2> QED  BY <2>6, <2>7
  <1> QED  BY <1>2, <1>3
-----------------------------------------------------------------------------
(* Counting.                                                               *)

\* There are finitely many encoders.
LEMMA EncodersFinite ==
    IsFiniteSet(Encoders) /\ Cardinality(Encoders) \in Nat
  <1>1. IsFiniteSet({"prim"})
    BY FS_Singleton
  <1>2. IsFiniteSet(Encoders)
    BY <1>1, RscConstants, FS_Union DEF Encoders
  <1> QED  BY <1>2, FS_CardinalityType

\* A set of encoders grows and shrinks by one.
LEMMA OneMore ==
    ASSUME NEW S \in SUBSET Encoders, NEW e \in Encoders
    PROVE  /\ Cardinality(S) \in Nat /\ Cardinality(S) <= Cardinality(Encoders)
           /\ Cardinality(S \cup {e}) \in Nat /\ Cardinality(S \ {e}) \in Nat
           /\ e \notin S => Cardinality(S \cup {e}) = Cardinality(S) + 1
           /\ e \in S => Cardinality(S \cup {e}) = Cardinality(S)
           /\ e \in S => Cardinality(S \ {e}) = Cardinality(S) - 1 /\ Cardinality(S) >= 1
           /\ Cardinality(S) = 0 => S = {}
  <1>1. IsFiniteSet(S) /\ Cardinality(S) \in Nat /\ Cardinality(S) <= Cardinality(Encoders)
    BY EncodersFinite, FS_Subset, FS_CardinalityType
  <1>2. e \notin S => Cardinality(S \cup {e}) = Cardinality(S) + 1
    BY <1>1, FS_AddElement
  <1>3. e \in S => Cardinality(S \ {e}) = Cardinality(S) - 1 /\ Cardinality(S) >= 1
    <2>1. e \in S => IsFiniteSet(S \ {e}) /\ Cardinality(S \ {e}) = Cardinality(S) - 1
      BY <1>1, FS_RemoveElement
    <2>2. e \in S => Cardinality(S \ {e}) \in Nat
      BY <2>1, FS_CardinalityType
    <2> QED  BY <1>1, <2>1, <2>2
  <1>4. Cardinality(S) = 0 => S = {}
    BY <1>1, FS_EmptySet
  <1>5. e \in S => S \cup {e} = S
    OBVIOUS
  <1>6. e \notin S => S \ {e} = S
    OBVIOUS
  <1>7. Cardinality(S \cup {e}) \in Nat /\ Cardinality(S \ {e}) \in Nat
    <2>1. CASE e \in S
      <3>1. Cardinality(S \cup {e}) = Cardinality(S)
        BY <2>1, <1>5
      <3>2. Cardinality(S \ {e}) = Cardinality(S) - 1 /\ Cardinality(S) >= 1
        BY <2>1, <1>3
      <3> QED  BY <3>1, <3>2, <1>1
    <2>2. CASE e \notin S
      BY <2>2, <1>1, <1>2, <1>6
    <2> QED  BY <2>1, <2>2
  <1>8. e \in S => Cardinality(S \cup {e}) = Cardinality(S)
    BY <1>5
  <1> QED  BY <1>1, <1>2, <1>3, <1>4, <1>7, <1>8

\* The calls on a power handle with one client (sde_power_resource_enable).
LEMMA PowerCalls ==
    ASSUME NEW p \in PowerHandles({"core"}), p.res = p.cur, p.cur => p.ref["core"] > 0
    PROVE  /\ _resource_changed(p, "core", TRUE) <=> ~p.cur
           /\ LET q == sde_power_resource_enable(p, "core", TRUE)
              IN  /\ q \in PowerHandles({"core"}) /\ q.ref["core"] = p.ref["core"] + 1
                  /\ q.cur = TRUE /\ q.res = TRUE
           /\ LET q == sde_power_resource_enable_fails(p, "core")
              IN  /\ q \in PowerHandles({"core"}) /\ q.ref["core"] = p.ref["core"] + 1
                  /\ q.cur = p.cur /\ q.res = FALSE
           /\ p.cur =>
                 /\ _resource_changed(p, "core", FALSE) <=> p.ref["core"] = 1
                 /\ LET q == sde_power_resource_enable(p, "core", FALSE)
                    IN  /\ q \in PowerHandles({"core"}) /\ q.ref["core"] = p.ref["core"] - 1
                        /\ q.res = q.cur
                        /\ q.cur <=> p.ref["core"] > 1
  <1> DEFINE n == p.ref["core"]
  <1>1. /\ p.ref \in [{"core"} -> Nat] /\ n \in Nat /\ p.cur \in BOOLEAN /\ p.res \in BOOLEAN
        /\ DOMAIN p.ref = {"core"}
    BY DEF PowerHandles
  <1>2. PICK up : up = Voted(p, "core", TRUE)
    OBVIOUS
  <1>3. PICK down : down = Voted(p, "core", FALSE)
    OBVIOUS
  <1>4. up \in [{"core"} -> Nat] /\ up["core"] = n + 1
    BY <1>1, <1>2 DEF Voted
  <1>5. down \in [{"core"} -> Nat] /\ down["core"] = IF n = 0 THEN 0 ELSE n - 1
    BY <1>1, <1>3 DEF Voted
  <1>6. AnyVote(p, up)
    BY <1>1, <1>4 DEF AnyVote
  <1>7. AnyVote(p, down) <=> n > 1
    BY <1>1, <1>5 DEF AnyVote
  <1>8. AnyVote(p, up) = TRUE /\ AnyVote(p, down) \in BOOLEAN
    BY <1>6 DEF AnyVote
  <1>9. _resource_changed(p, "core", TRUE) <=> ~p.cur
    BY <1>1, <1>2, <1>8, Zenon DEF _resource_changed
  <1>10. _resource_changed(p, "core", FALSE) <=> (AnyVote(p, down) # p.cur)
    BY <1>3, Zenon DEF _resource_changed
  <1> HIDE DEF n
  <1>11. LET q == sde_power_resource_enable(p, "core", TRUE)
         IN  /\ q \in PowerHandles({"core"}) /\ q.ref["core"] = n + 1
             /\ q.cur = TRUE /\ q.res = TRUE
    <2> DEFINE q == sde_power_resource_enable(p, "core", TRUE)
    <2>1. CASE p.cur
      <3>1. q = [p EXCEPT !.ref = up]
        BY <2>1, <1>2, <1>9 DEF sde_power_resource_enable
      <3> HIDE DEF q
      <3>2. q \in PowerHandles({"core"}) /\ q.ref = up /\ q.cur = p.cur /\ q.res = p.cur
        BY <3>1, <1>1, <1>4 DEF PowerHandles
      <3> QED  BY <3>2, <2>1, <1>1, <1>4 DEF q
    <2>2. CASE ~p.cur
      <3>1. q = [ref |-> up, cur |-> AnyVote(p, up), res |-> TRUE]
        BY <2>2, <1>2, <1>9 DEF sde_power_resource_enable
      <3>2. PICK b \in BOOLEAN : b = TRUE
        OBVIOUS
      <3>3. q = [ref |-> up, cur |-> b, res |-> b]
        BY <3>1, <3>2, <1>8, Zenon
      <3> HIDE DEF q
      <3>4. q \in PowerHandles({"core"}) /\ q.ref = up /\ q.cur = b /\ q.res = b
        BY <3>3, <1>4 DEF PowerHandles
      <3> QED  BY <3>2, <3>4, <1>4 DEF q
    <2> QED  BY <1>1, <2>1, <2>2
  <1>12. LET q == sde_power_resource_enable_fails(p, "core")
         IN  /\ q \in PowerHandles({"core"}) /\ q.ref["core"] = n + 1
             /\ q.cur = p.cur /\ q.res = FALSE
    BY <1>1, <1>2, <1>4 DEF sde_power_resource_enable_fails, PowerHandles
  <1>13. ASSUME p.cur
         PROVE  /\ _resource_changed(p, "core", FALSE) <=> n = 1
                /\ LET q == sde_power_resource_enable(p, "core", FALSE)
                   IN  /\ q \in PowerHandles({"core"}) /\ q.ref["core"] = n - 1
                       /\ q.res = q.cur /\ (q.cur <=> n > 1)
    <2>0. n > 0 /\ n \in Nat
      BY <1>1, <1>13 DEF n
    <2>1. _resource_changed(p, "core", FALSE) <=> ~AnyVote(p, down)
      BY <1>1, <1>8, <1>10, <1>13, Zenon
    <2>5. ~AnyVote(p, down) <=> n = 1
      BY <2>0, <1>7
    <2>2. _resource_changed(p, "core", FALSE) <=> n = 1
      BY <2>1, <2>5, Zenon
    <2> DEFINE q == sde_power_resource_enable(p, "core", FALSE)
    <2>3. CASE n > 1
      <3>1. ~_resource_changed(p, "core", FALSE)
        <4>1. n # 1
          BY <2>0, <2>3
        <4> QED  BY <4>1, <2>2, Zenon
      <3>2. q = [p EXCEPT !.ref = down]
        BY <3>1, <1>3, Zenon DEF sde_power_resource_enable
      <3> HIDE DEF q
      <3>3. q \in PowerHandles({"core"}) /\ q.ref = down /\ q.cur = p.cur /\ q.res = p.cur
        BY <3>2, <1>1, <1>5 DEF PowerHandles
      <3>4. down["core"] = n - 1
        BY <2>0, <1>5
      <3> QED  BY <3>3, <3>4, <2>2, <2>3, <1>13 DEF q
    <2>4. CASE n = 1
      <3>1. q = [ref |-> down, cur |-> AnyVote(p, down), res |-> FALSE]
        BY <2>2, <2>4, <1>3 DEF sde_power_resource_enable
      <3>2. PICK b \in BOOLEAN : b = FALSE
        OBVIOUS
      <3>3. ~AnyVote(p, down)
        BY <1>7, <2>4
      <3>4. AnyVote(p, down) = FALSE
        BY <3>3, <1>8
      <3>5. q = [ref |-> down, cur |-> b, res |-> b]
        BY <3>1, <3>2, <3>4, Zenon
      <3> HIDE DEF q
      <3>6. q \in PowerHandles({"core"}) /\ q.ref = down /\ q.cur = b /\ q.res = b
        BY <3>5, <1>5 DEF PowerHandles
      <3>7. down["core"] = n - 1 /\ ~(n > 1)
        BY <2>0, <2>4, <1>5
      <3> QED  BY <3>2, <3>6, <3>7, <2>2 DEF q
    <2>6. n > 1 \/ n = 1
      BY <2>0
    <2> QED  BY <2>3, <2>4, <2>6, Zenon
  <1> QED  BY <1>9, <1>11, <1>12, <1>13 DEF n
-----------------------------------------------------------------------------
(* The steps.                                                              *)

\* The places of an encoder.
Locations == {"off", "clocks", "undo", "powered", "on", "check_on", "check_off",
              "wait_on", "wait_off", "unpower"}

\* What the types say of the counts.
LEMMA TypeFacts ==
    ASSUME IInv
    PROVE  /\ cfg \in Configs /\ rsc \in Controllers /\ rsc.wait <= Cardinality(Owing)
           /\ ph \in PowerHandles({"core"}) /\ ph.ref["core"] \in Nat /\ ph.cur \in BOOLEAN
           /\ pc \in [Encoders -> Locations]
           /\ seen \in [Encoders -> BOOLEAN] /\ faults \in 0..MaxFaults /\ failed \in BOOLEAN
           /\ vote \in [Clients -> States] /\ Sane(vote)
           /\ ph.res = ph.cur /\ (ph.cur => ph.ref["core"] > 0)
           /\ \A e \in Encoders : e \in Clients /\ e # "power"
           /\ "power" \in Clients
  <1>1. TypeOK /\ Counted /\ Sane(vote)
    BY DEF IInv
  <1>2. rsc \in Controllers
    BY <1>1 DEF TypeOK, Controllers
  <1>3. rsc.wait <= Cardinality(Owing)
    BY <1>1 DEF TypeOK, Owing
  <1>4. ph.ref["core"] \in Nat /\ ph.cur \in BOOLEAN
    BY <1>1 DEF TypeOK, PowerHandles
  <1> QED  BY <1>1, <1>2, <1>3, <1>4, RscConstants
           DEF TypeOK, Counted, Locations, Clients, Encoders

\* The votes mean the same before and after a step.
LEMMA Primed ==
    ASSUME cfg' = cfg
    PROVE  Wanted' = Want(vote') /\ (Want(vote))' = Want(vote')
           /\ (Sane(vote') => (Sane(vote))')
  <1>1. (ExtClk(vote))' = ExtClk(vote') /\ \A st : (Some(vote, st))' = Some(vote', st)
    BY DEF ExtClk, Some
  <1>2. Wanted' = Want(vote') /\ (Want(vote))' = Want(vote')
    BY <1>1 DEF Wanted, Want, ExtClk, Some
  <1>3. \A e : Asks(e)' = Asks(e)
    BY DEF Asks
  <1> QED  BY <1>2, <1>3 DEF Sane

\* The invariant from its parts.
LEMMA Rebuilt ==
    ASSUME IInv, cfg' = cfg, Sane(vote'), rsc' \in Controllers,
           rsc'.wait <= Cardinality(Owing'), ph' \in PowerHandles({"core"}),
           pc' \in [Encoders -> Locations], seen' \in [Encoders -> BOOLEAN],
           faults' \in 0..MaxFaults, failed' \in BOOLEAN,
           Places', Pending', Counted', Awake',
           pend' = NoRequest /\ ~failed' => rsc'.state = Want(vote') /\ rsc'.hw = Want(vote')
    PROVE  IInv'
  <1>1. VotesHonoured' /\ (Sane(vote))'
    BY Primed DEF VotesHonoured
  <1>2. Owing' \in SUBSET Encoders
    BY DEF Owing
  <1>3. Cardinality(Owing') \in Nat /\ Cardinality(Owing') <= Cardinality(Encoders)
    BY <1>2, EncodersFinite, FS_Subset, FS_CardinalityType
  <1>4. rsc'.wait \in 0..Cardinality(Encoders)
    BY <1>3, EncodersFinite DEF Controllers
  <1>5. rsc' \in [state : States, hw : States, collapse : BOOLEAN, clk : 0..1,
                  wait : 0..Cardinality(Encoders)]
    BY <1>4 DEF Controllers
  <1>6. rsc'.wait
            <= Cardinality({e \in Encoders : pc'[e] \in {"check_on", "check_off"} \/ seen'[e]})
    BY DEF Owing
  <1>7. cfg' \in Configs /\ vote' \in [Clients -> States]
    BY TypeFacts DEF Sane
  <1>8. TypeOK'
    BY <1>5, <1>6, <1>7 DEF TypeOK, Locations
  <1> QED  BY <1>1, <1>8 DEF IInv

\* While an encoder holds the power handle it is on.
LEMMA HolderPowers ==
    ASSUME IInv, NEW e \in Encoders, pc[e] \notin {"off", "clocks", "undo"}
    PROVE  ph.cur /\ vote["power"] = "clk" /\ rsc.state # "idle"
  <1>1. e \in Holders
    BY DEF Holders
  <1> QED  BY <1>1 DEF IInv, Counted, Awake

\* A request of an encoder for itself: rsc_on and rsc_off.
LEMMA EncoderRequest ==
    ASSUME IInv, NEW e \in Encoders, NEW st \in Asks(e) \cup {"idle"}, NEW config \in BOOLEAN,
           sde_rsc_client_state_update(e, e, st, config),
           pc[e] = "on" \/ (pc[e] = "powered" /\ st # "idle"),
           e \in Exts => pc[e] = "powered" \/ st = "idle"
    PROVE  IInv'
  <1>0. st \in States
    BY DEF Asks, States
  <1>1. ph.cur /\ vote["power"] = "clk" /\ rsc.state # "idle"
    BY HolderPowers
  <1>2. pend = NoRequest
    BY DEF sde_rsc_client_state_update
  <1>3. e \in Exts => vote[e] = "idle" \/ st = "idle"
    BY <1>2 DEF IInv, Places
  <1>4. Sane([vote EXCEPT ![e] = st])
    BY <1>0, <1>1, TypeFacts DEF Sane
  <1>5. /\ RscLeft /\ vote' = [vote EXCEPT ![e] = st]
        /\ \/ Held(e, e, st)
           \/ \E rc \in {"ok", "error", "refused"}, id \in BOOLEAN : Returned(e, e, st, rc, id)
    <2>1. e \in Clients
      BY TypeFacts
    <2>2. Effect(e, e, st)
      BY <2>1, <1>0, <1>3, <1>4, RequestEffect, Zenon
    <2> QED  BY <2>2 DEF Effect
  <1>6. /\ Sane(vote') /\ cfg' = cfg /\ seen' = seen
        /\ vote'["power"] = "clk" /\ vote'[e] = st /\ \A f \in Encoders \ {e} : vote'[f] = vote[f]
    BY <1>1, <1>4, <1>5, TypeFacts DEF RscLeft
  <1>7. Want(vote') # "idle" /\ rsc'.state # "idle" /\ rsc'.clk = 1 /\ ~rsc'.collapse
    <2>1. Some(vote', "clk")
      BY <1>6, TypeFacts DEF Some
    <2> QED  BY <2>1, <1>1, <1>5, WantType DEF RscLeft
  <1>8. /\ \A f \in Encoders : seen[f] => pc[f] \in {"wait_on", "wait_off"}
        /\ \A f \in Encoders : vote[f] # "idle" => pc[f] \in {"on", "check_on", "wait_on"}
        /\ \A f \in Encoders : pc[f] \notin {"clocks", "undo"}
    BY <1>1, <1>2 DEF IInv, Places
  <1>9. CASE Held(e, e, st)
    <2>1. /\ pend' = [by |-> e, client |-> e, ask |-> st, st |-> Want(vote')]
          /\ pc' = pc /\ ph' = ph /\ rsc'.hw = Want(vote') /\ rsc'.wait = rsc.wait
      BY <1>9 DEF Held
    <2>2. pend' # NoRequest
      BY <2>1, PendIsRequest
    <2>3. Places'
      BY <1>1, <1>6, <1>8, <2>1, <2>2 DEF Places
    <2>4. Pending'
      <3>1. Want(vote') \in States
        BY WantType
      <3>2. /\ pend' \in [by : Encoders, client : Encoders, ask : States, st : States]
            /\ pend'.by = e /\ pend'.client = e /\ pend'.ask = st /\ pend'.st = Want(vote')
        BY <2>1, <3>1, <1>0
      <3> QED  BY <2>1, <3>2, <1>6, Primed DEF Pending
    <2>5. Counted'
      <3>1. Holders' = Holders
        BY <2>1 DEF Holders
      <3> QED  BY <2>1, <3>1, <1>1, <1>6 DEF Counted, IInv
    <2>6. Awake'
      BY <1>7 DEF Awake
    <2>7. Owing' = Owing
      BY <2>1, <1>6 DEF Owing
    <2> QED  BY <2>1, <2>2, <2>3, <2>4, <2>5, <2>6, <2>7, <1>5, <1>6, TypeFacts, Rebuilt DEF RscLeft
  <1>10. ASSUME NEW rc \in {"ok", "error", "refused"}, NEW id \in BOOLEAN,
                Returned(e, e, st, rc, id)
         PROVE  IInv'
    <2> DEFINE to == CASE id /\ st = "idle" -> "check_off"
                       [] id /\ st # "idle" -> "check_on"
                       [] OTHER -> IF st = "idle" THEN "unpower" ELSE "on"
    <2>1. pend' = NoRequest /\ ph' = ph /\ pc' = [pc EXCEPT ![e] = to]
      BY <1>10 DEF Returned, Return, Go
    <2>2. /\ rsc'.wait = rsc.wait \/ (rsc'.wait = rsc.wait + 1 /\ id)
      BY <1>10 DEF Returned
    <2>3. /\ to \in {"check_off", "check_on", "unpower", "on"}
          /\ st # "idle" => to \in {"check_on", "on"}
          /\ id => to \in {"check_on", "check_off"}
      OBVIOUS
    <2> HIDE DEF to
    <2>4. pc' \in [Encoders -> Locations] /\ pc'[e] = to /\ \A f \in Encoders \ {e} : pc'[f] = pc[f]
      BY <2>1, <2>3, TypeFacts DEF Locations
    <2>5. Places'
      BY <1>6, <1>8, <2>1, <2>3, <2>4 DEF Places
    <2>6. Pending'
      BY <2>1 DEF Pending
    <2>7. Counted'
      <3>1. Holders' = Holders
        BY <2>3, <2>4 DEF Holders
      <3> QED  BY <2>1, <3>1, <1>1, <1>6 DEF Counted, IInv
    <2>8. Awake'
      BY <1>7 DEF Awake
    <2>9. rsc'.wait <= Cardinality(Owing')
      <3>1. Owing \in SUBSET Encoders /\ e \notin Owing
        BY <1>8 DEF Owing
      <3>2. Owing' = IF to \in {"check_on", "check_off"} THEN Owing \cup {e} ELSE Owing
        BY <3>1, <2>4, <1>6, <1>8 DEF Owing
      <3>3. rsc.wait <= Cardinality(Owing) /\ rsc.wait \in Nat /\ Cardinality(Owing) \in Nat
            /\ Cardinality(Owing \cup {e}) = Cardinality(Owing) + 1
        BY <3>1, OneMore, TypeFacts DEF Controllers
      <3>4. CASE to \in {"check_on", "check_off"}
        BY <3>2, <3>3, <3>4, <2>2
      <3>5. CASE to \notin {"check_on", "check_off"}
        BY <3>2, <3>3, <3>5, <2>2, <2>3
      <3> QED  BY <3>4, <3>5
    <2> QED  BY <2>1, <2>4, <2>5, <2>6, <2>7, <2>8, <2>9, <1>5, <1>6, TypeFacts, Rebuilt DEF RscLeft
  <1> QED  BY <1>5, <1>9, <1>10

\* rsc_on: the encoder enters its own vote.
LEMMA RscOnStep ==
    ASSUME IInv, NEW e \in Encoders, rsc_on(e)
    PROVE  IInv'
  <1>1. PICK st \in Asks(e), config \in BOOLEAN : sde_rsc_client_state_update(e, e, st, config)
    BY DEF rsc_on
  <1>2. st # "idle" /\ st \in Asks(e) \cup {"idle"}
    BY DEF Asks
  <1>3. pc[e] = "powered" \/ (e = "prim" /\ pc[e] = "on")
    BY DEF rsc_on
  <1>4. e \in Exts => pc[e] = "powered" \/ st = "idle"
    BY <1>3, RscConstants
  <1> QED  BY <1>1, <1>2, <1>3, <1>4, EncoderRequest

\* rsc_off: it is taken back.
LEMMA RscOffStep ==
    ASSUME IInv, NEW e \in Encoders, rsc_off(e)
    PROVE  IInv'
  <1>1. pc[e] = "on" /\ sde_rsc_client_state_update(e, e, "idle", FALSE)
    BY DEF rsc_off
  <1> QED  BY <1>1, EncoderRequest

\* When the power handle is off nobody votes or waits.
LEMMA PowerDown ==
    ASSUME IInv, ~ph.cur
    PROVE  /\ rsc.wait = 0 /\ pend = NoRequest
           /\ \A e \in Encoders : vote[e] = "idle" /\ ~seen[e] /\ pc[e] \in {"off", "clocks", "undo"}
  <1>1. \A e \in Encoders : pc[e] \in {"off", "clocks", "undo"}
    BY DEF IInv, Counted, Holders
  <1>2. pend = NoRequest
    BY <1>1 DEF IInv, Pending
  <1>3. \A e \in Encoders : vote[e] = "idle" /\ ~seen[e]
    BY <1>1, <1>2 DEF IInv, Places
  <1>4. Owing = {}
    BY <1>1, <1>3 DEF Owing
  <1>5. Cardinality(Owing) = 0
    BY <1>4, FS_EmptySet
  <1> QED  BY <1>1, <1>2, <1>3, <1>5, TypeFacts DEF Controllers

\* The power handle asks for the clocks: it gets them, or is told of the error.
LEMMA PowerRequestOn ==
    ASSUME IInv, NEW e \in Encoders, ~ph.cur, pc[e] = "off", PowerFree,
           sde_rsc_client_state_update(e, "power", "clk", FALSE)
    PROVE  IInv'
  <1>0. "clk" \in States /\ "power" \in Clients /\ "power" \notin Exts
    BY TypeFacts, RscConstants DEF States
  <1>1. /\ rsc.wait = 0 /\ pend = NoRequest
        /\ \A f \in Encoders : vote[f] = "idle" /\ ~seen[f] /\ pc[f] = "off"
    BY PowerDown DEF PowerFree
  <1>2. Sane([vote EXCEPT !["power"] = "clk"])
    BY <1>0, TypeFacts DEF Sane
  <1>3. /\ RscLeft /\ vote' = [vote EXCEPT !["power"] = "clk"]
        /\ \/ Held(e, "power", "clk")
           \/ \E rc \in {"ok", "error", "refused"}, id \in BOOLEAN : Returned(e, "power", "clk", rc, id)
    <2>1. FALSE \in BOOLEAN
      OBVIOUS
    <2>2. Effect(e, "power", "clk")
      BY <2>1, <1>0, <1>2, RequestEffect, Zenon
    <2> QED  BY <2>2 DEF Effect
  <1>4. PICK rc \in {"ok", "error", "refused"}, id \in BOOLEAN : Returned(e, "power", "clk", rc, id)
    BY <1>1, <1>3 DEF Held
  <1>5. /\ Sane(vote') /\ cfg' = cfg /\ seen' = seen
        /\ vote'["power"] = "clk" /\ \A f \in Encoders : vote'[f] = "idle"
    BY <1>0, <1>1, <1>2, <1>3, TypeFacts DEF RscLeft
  <1>6. ~Outweighed(vote', "clk")
    BY <1>5 DEF Outweighed, Some, Clients
  <1>7. pend' = NoRequest /\ rsc'.wait = 0 /\ (rc # "error" => rsc'.state # "idle")
    BY <1>1, <1>4, <1>6 DEF Returned
  <1>8. /\ pc' \in [Encoders -> Locations] /\ \A f \in Encoders \ {e} : pc'[f] = "off"
        /\ pc'[e] \in {"off", "clocks"}
        /\ pc'[e] = "clocks" => rc # "error" /\ ph' = ph
        /\ pc'[e] = "off" => ph' = sde_power_resource_enable_fails(ph, "core")
    <2>1. e # "power"
      BY TypeFacts
    <2>2. CASE rc # "error"
      <3>1. pc' = [pc EXCEPT ![e] = "clocks"] /\ ph' = ph
        BY <1>4, <2>1, <2>2 DEF Returned, Return, Go
      <3> QED  BY <3>1, <2>2, <1>1, TypeFacts DEF Locations
    <2>3. CASE rc = "error"
      <3>1. pc' = [pc EXCEPT ![e] = "off"] /\ ph' = sde_power_resource_enable_fails(ph, "core")
        BY <1>4, <2>1, <2>3 DEF Returned, Return, Go
      <3> QED  BY <3>1, <2>3, <1>1, TypeFacts DEF Locations
    <2> QED  BY <2>2, <2>3
  <1>9. ph' \in PowerHandles({"core"}) /\ ph'.cur = FALSE /\ ph'.res = FALSE /\ ph'.ref["core"] \in Nat
    <2>1. ph.cur = FALSE /\ ph.res = FALSE
      BY TypeFacts
    <2>2. LET q == sde_power_resource_enable_fails(ph, "core")
          IN  /\ q \in PowerHandles({"core"}) /\ q.ref["core"] = ph.ref["core"] + 1
              /\ q.cur = ph.cur /\ q.res = FALSE
      BY PowerCalls, TypeFacts
    <2> QED  BY <2>1, <2>2, <1>8, TypeFacts
  <1>10. Places'
    BY <1>1, <1>5, <1>8, <1>9 DEF Places
  <1>11. Pending'
    BY <1>7 DEF Pending
  <1>12. Counted'
    <2>1. Holders' = {}
      BY <1>8 DEF Holders
    <2>2. Cardinality(Holders') = 0
      BY <2>1, FS_EmptySet
    <2>3. ph'.res = ph'.cur /\ ~ph'.cur
      BY <1>9
    <2>4. ph'.ref["core"] \in Nat
      BY <1>9, Zenon
    <2>5. Cardinality(Holders') <= ph'.ref["core"]
      BY <2>2, <2>4
    <2> QED  BY <2>1, <2>3, <2>5 DEF Counted
  <1>13. Awake'
    BY <1>3, <1>7, <1>8, <1>9 DEF Awake, RscLeft
  <1>14. rsc'.wait <= Cardinality(Owing')
    <2>1. Owing' = {}
      BY <1>1, <1>5, <1>8 DEF Owing
    <2> QED  BY <2>1, <1>7, FS_EmptySet
  <1>15. /\ rsc' \in Controllers /\ faults' \in 0..MaxFaults /\ failed' \in BOOLEAN
         /\ seen' \in [Encoders -> BOOLEAN]
         /\ pend' = NoRequest /\ ~failed' => rsc'.state = Want(vote') /\ rsc'.hw = Want(vote')
    BY <1>3, <1>5, TypeFacts DEF RscLeft
  <1> QED  BY <1>5, <1>8, <1>9, <1>10, <1>11, <1>12, <1>13, <1>14, <1>15, Rebuilt

\* An encoder takes the power handle, which is on already or has got its clocks.
LEMMA PowerTaken ==
    ASSUME IInv, NEW e \in Encoders, (pc[e] = "off" /\ ph.cur) \/ pc[e] = "clocks",
           ph' = sde_power_resource_enable(ph, "core", TRUE),
           pc' = [pc EXCEPT ![e] = "powered"],
           UNCHANGED <<cfg, vote, rsc, pend, seen, faults, failed>>
    PROVE  IInv'
  <1>1. /\ ph' \in PowerHandles({"core"}) /\ ph'.ref["core"] = ph.ref["core"] + 1
        /\ ph'.cur = TRUE /\ ph'.res = TRUE
    BY PowerCalls, TypeFacts
  <1>2. /\ pc' \in [Encoders -> Locations] /\ pc'[e] = "powered"
        /\ \A f \in Encoders \ {e} : pc'[f] = pc[f]
    BY TypeFacts DEF Locations
  <1>3. vote["power"] = "clk" /\ rsc.state # "idle"
    BY DEF IInv, Counted, Awake, Places
  <1>4. \A f \in Encoders \ {e} : pc[f] \notin {"clocks", "undo"}
    BY DEF IInv, Places
  <1>5. vote[e] = "idle" /\ ~seen[e] /\ (pend # NoRequest => pend.by # e)
    BY DEF IInv, Places, Pending
  <1>6. Places'
    <2>1. Places
      BY DEF IInv
    <2> QED  BY <2>1, <1>2, <1>4, <1>5 DEF Places
  <1>7. Pending'
    <2>1. Pending
      BY DEF IInv
    <2>2. (Want(vote))' = Want(vote)
      BY Primed
    <2> QED  BY <2>1, <2>2, <1>2, <1>5 DEF Pending
  <1>8. Counted'
    <2>1. Holders \in SUBSET Encoders /\ e \notin Holders /\ Holders' = Holders \cup {e}
      BY <1>2 DEF Holders
    <2>2. Cardinality(Holders') = Cardinality(Holders) + 1 /\ Cardinality(Holders) \in Nat
      BY <2>1, OneMore
    <2>3. Cardinality(Holders) <= ph.ref["core"] /\ ph.ref["core"] \in Nat
      BY TypeFacts DEF IInv, Counted
    <2>4. Cardinality(Holders') <= ph'.ref["core"] /\ ph'.ref["core"] > 0
      <3>1. ph'.ref["core"] = ph.ref["core"] + 1
        BY <1>1, Zenon
      <3>2. ASSUME NEW a \in Nat, NEW b \in Nat, a <= b
            PROVE  a + 1 <= b + 1 /\ b + 1 > 0
        BY <3>2
      <3> QED  BY <2>2, <2>3, <3>1, <3>2, Zenon
    <2> QED  BY <2>4, <1>1, <1>3 DEF Counted
  <1>9. Awake'
    BY <1>3 DEF Awake, IInv
  <1>10. Owing' = Owing
    BY <1>2 DEF Owing
  <1>11. ~failed /\ pend = NoRequest => rsc.state = Want(vote) /\ rsc.hw = Want(vote)
    BY WantedIsWant DEF IInv, VotesHonoured
  <1> QED  BY <1>1, <1>2, <1>6, <1>7, <1>8, <1>9, <1>10, <1>11, TypeFacts, Rebuilt

\* power_on: the first holder switches the handle, the others are counted.
LEMMA PowerOnStep ==
    ASSUME IInv, NEW e \in Encoders, power_on(e)
    PROVE  IInv'
  <1>1. pc[e] = "off" /\ PowerFree
    BY DEF power_on
  <1>2. _resource_changed(ph, "core", TRUE) <=> ~ph.cur
    BY PowerCalls, TypeFacts
  <1>3. CASE ~ph.cur
    <2>1. sde_rsc_client_state_update(e, "power", "clk", FALSE)
      BY <1>2, <1>3 DEF power_on
    <2> QED  BY <2>1, <1>1, <1>3, PowerRequestOn
  <1>4. CASE ph.cur
    <2>1. /\ ph' = sde_power_resource_enable(ph, "core", TRUE)
          /\ pc' = [pc EXCEPT ![e] = "powered"]
          /\ UNCHANGED <<cfg, vote, rsc, pend, seen, faults, failed>>
      BY <1>2, <1>4 DEF power_on, Go
    <2> QED  BY <2>1, <1>1, <1>4, PowerTaken
  <1> QED  BY <1>3, <1>4, TypeFacts

\* power_clocks: the clocks come on, or the way back begins.
LEMMA PowerClocksStep ==
    ASSUME IInv, NEW e \in Encoders, power_clocks(e)
    PROVE  IInv'
  <1>1. /\ pc[e] = "clocks"
        /\ UNCHANGED <<cfg, vote, rsc, pend, seen, failed>>
    BY DEF power_clocks
  <1>2. CASE /\ ph' = sde_power_resource_enable(ph, "core", TRUE)
             /\ Go(e, "powered") /\ UNCHANGED faults
    BY <1>1, <1>2, PowerTaken DEF Go
  <1>3. CASE faults < MaxFaults /\ faults' = faults + 1 /\ Go(e, "undo") /\ UNCHANGED ph
    <2>1. /\ pc' \in [Encoders -> Locations] /\ pc'[e] = "undo"
          /\ \A f \in Encoders \ {e} : pc'[f] = pc[f]
      BY <1>3, TypeFacts DEF Locations, Go
    <2>2. faults' \in 0..MaxFaults
      BY <1>3, TypeFacts, RscConstants
    <2>3. Places'
      <3>1. Places
        BY DEF IInv
      <3> QED  BY <3>1, <2>1, <1>1, <1>3 DEF Places
    <2>4. Pending'
      <3>1. Pending
        BY DEF IInv
      <3>2. (Want(vote))' = Want(vote)
        BY <1>1, Primed
      <3> QED  BY <3>1, <3>2, <2>1, <1>1 DEF Pending
    <2>5. Counted'
      <3>1. Holders' = Holders
        BY <2>1, <1>1 DEF Holders
      <3> QED  BY <3>1, <1>1, <1>3 DEF Counted, IInv
    <2>6. Awake'
      BY <2>1, <1>1, <1>3 DEF Awake, IInv
    <2>7. Owing' = Owing
      BY <2>1, <1>1 DEF Owing
    <2>8. ~failed /\ pend = NoRequest => rsc.state = Want(vote) /\ rsc.hw = Want(vote)
      BY WantedIsWant DEF IInv, VotesHonoured
    <2> QED  BY <2>1, <2>2, <2>3, <2>4, <2>5, <2>6, <2>7, <2>8, <1>1, <1>3, TypeFacts, Rebuilt
  <1> QED  BY <1>2, <1>3 DEF power_clocks

\* The last holder gives the power handle back, or the way back of a failed enable.
LEMMA PowerReleased ==
    ASSUME IInv, NEW e \in Encoders, sde_rsc_client_state_update(e, "power", "idle", FALSE),
           \A f \in Encoders \ {e} : pc[f] = "off",
           \/ pc[e] = "undo" /\ ~ph.cur
           \/ pc[e] = "unpower" /\ ph.cur /\ ph.ref["core"] = 1
    PROVE  IInv'
  <1>0. "idle" \in States /\ "power" \in Clients /\ "power" \notin Exts /\ FALSE \in BOOLEAN
    BY TypeFacts, RscConstants DEF States
  <1>1. pend = NoRequest
    BY DEF sde_rsc_client_state_update
  <1>2. \A f \in Encoders : vote[f] = "idle" /\ ~seen[f]
    BY <1>1 DEF IInv, Places
  <1>3. Sane([vote EXCEPT !["power"] = "idle"])
    BY <1>0, <1>2, TypeFacts DEF Sane
  <1>4. Effect(e, "power", "idle")
    BY <1>0, <1>3, RequestEffect, Zenon
  <1>5. /\ Sane(vote') /\ cfg' = cfg /\ seen' = seen
        /\ vote'["power"] = "idle" /\ \A f \in Encoders : vote'[f] = "idle"
    BY <1>0, <1>2, <1>3, <1>4, TypeFacts DEF Effect, RscLeft
  <1>6. PICK rc \in {"ok", "error", "refused"}, id \in BOOLEAN : Returned(e, "power", "idle", rc, id)
    BY <1>4, <1>5 DEF Effect, Held
  <1>7. rsc'.wait = 0 /\ pend' = NoRequest
    <2>1. Owing = {}
      BY <1>2 DEF Owing
    <2>2. Cardinality(Owing) = 0
      BY <2>1, FS_EmptySet
    <2>3. rsc.wait = 0
      BY <2>2, TypeFacts DEF Controllers
    <2> QED  BY <2>3, <1>6 DEF Returned
  <1>8. /\ pc' = [pc EXCEPT ![e] = "off"]
        /\ ph' = IF pc[e] = "undo" THEN sde_power_resource_enable_fails(ph, "core")
                 ELSE sde_power_resource_enable(ph, "core", FALSE)
    <2>1. e # "power"
      BY TypeFacts
    <2> QED  BY <2>1, <1>6 DEF Returned, Return, Go
  <1>9. pc' \in [Encoders -> Locations] /\ \A f \in Encoders : pc'[f] = "off"
    BY <1>8, TypeFacts DEF Locations
  <1>10. ph' \in PowerHandles({"core"}) /\ ph'.cur = FALSE /\ ph'.res = FALSE
    <2>1. CASE pc[e] = "undo" /\ ~ph.cur
      <3>1. ph' = sde_power_resource_enable_fails(ph, "core") /\ ph.cur = FALSE
        BY <2>1, <1>8, TypeFacts
      <3> QED  BY <3>1, PowerCalls, TypeFacts
    <2>2. CASE pc[e] = "unpower" /\ ph.cur /\ ph.ref["core"] = 1
      <3>1. ph' = sde_power_resource_enable(ph, "core", FALSE)
        BY <2>2, <1>8
      <3>2. ph' \in PowerHandles({"core"}) /\ ph'.res = ph'.cur /\ ~ph'.cur
        <4>1. ph'.cur <=> ph.ref["core"] > 1
          BY <3>1, <2>2, PowerCalls, TypeFacts
        <4>2. ~(ph.ref["core"] > 1)
          BY <2>2
        <4> QED  BY <3>1, <4>1, <4>2, <2>2, PowerCalls, TypeFacts
      <3> QED  BY <3>2 DEF PowerHandles
    <2> QED  BY <2>1, <2>2
  <1>11. Places'
    BY <1>2, <1>5, <1>9 DEF Places
  <1>12. Pending'
    BY <1>7 DEF Pending
  <1>13. Counted'
    <2>1. Holders' = {}
      BY <1>9 DEF Holders
    <2>2. Cardinality(Holders') = 0
      BY <2>1, FS_EmptySet
    <2>3. ph'.res = ph'.cur /\ ~ph'.cur
      BY <1>10
    <2>4. ph'.ref["core"] \in Nat
      BY <1>10 DEF PowerHandles
    <2>5. Cardinality(Holders') <= ph'.ref["core"]
      BY <2>2, <2>4
    <2> QED  BY <2>1, <2>3, <2>5 DEF Counted
  <1>14. Awake'
    BY <1>4, <1>7, <1>9, <1>10 DEF Awake, Effect, RscLeft
  <1>15. rsc'.wait <= Cardinality(Owing')
    <2>1. Owing' = {}
      BY <1>2, <1>5, <1>9 DEF Owing
    <2> QED  BY <2>1, <1>7, FS_EmptySet
  <1>16. /\ rsc' \in Controllers /\ faults' \in 0..MaxFaults /\ failed' \in BOOLEAN
         /\ seen' \in [Encoders -> BOOLEAN]
         /\ pend' = NoRequest /\ ~failed' => rsc'.state = Want(vote') /\ rsc'.hw = Want(vote')
    BY <1>4, <1>5, TypeFacts DEF Effect, RscLeft
  <1> QED  BY <1>5, <1>9, <1>10, <1>11, <1>12, <1>13, <1>14, <1>15, <1>16, Rebuilt

\* power_undo.
LEMMA PowerUndoStep ==
    ASSUME IInv, NEW e \in Encoders, power_undo(e)
    PROVE  IInv'
  <1>1. pc[e] = "undo" /\ sde_rsc_client_state_update(e, "power", "idle", FALSE)
    BY DEF power_undo
  <1>2. ~ph.cur /\ \A f \in Encoders \ {e} : pc[f] \notin {"clocks", "undo"}
    BY <1>1 DEF IInv, Places
  <1>3. \A f \in Encoders \ {e} : pc[f] = "off"
    BY <1>2, PowerDown
  <1> QED  BY <1>1, <1>2, <1>3, PowerReleased

\* power_off: the last holder switches the handle, the others are counted.
LEMMA PowerOffStep ==
    ASSUME IInv, NEW e \in Encoders, power_off(e)
    PROVE  IInv'
  <1>1. pc[e] = "unpower" /\ PowerFree
    BY DEF power_off
  <1>2. ph.cur /\ vote["power"] = "clk" /\ rsc.state # "idle"
    BY <1>1, HolderPowers
  <1>3. _resource_changed(ph, "core", FALSE) <=> ph.ref["core"] = 1
    BY <1>2, PowerCalls, TypeFacts
  <1>4. Holders \in SUBSET Encoders /\ e \in Holders
    BY <1>1 DEF Holders
  <1>5. /\ Cardinality(Holders) <= ph.ref["core"] /\ ph.ref["core"] \in Nat
        /\ Cardinality(Holders) \in Nat /\ Cardinality(Holders \ {e}) = Cardinality(Holders) - 1
        /\ Cardinality(Holders \ {e}) \in Nat
    BY <1>4, OneMore, TypeFacts DEF IInv, Counted
  <1>6. CASE ph.ref["core"] = 1
    <2>1. sde_rsc_client_state_update(e, "power", "idle", FALSE)
      BY <1>3, <1>6 DEF power_off
    <2>2. Cardinality(Holders \ {e}) = 0
      BY <1>5, <1>6
    <2>3. Holders \ {e} = {}
      BY <2>2, <1>4, OneMore
    <2>4. \A f \in Encoders \ {e} : pc[f] = "off"
      BY <2>3, <1>1 DEF Holders, PowerFree
    <2> QED  BY <2>1, <2>4, <1>1, <1>2, <1>6, PowerReleased
  <1>7. CASE ph.ref["core"] # 1
    <2>1. /\ ph' = sde_power_resource_enable(ph, "core", FALSE)
          /\ pc' = [pc EXCEPT ![e] = "off"]
          /\ UNCHANGED <<cfg, vote, rsc, pend, seen, faults, failed>>
      BY <1>3, <1>7 DEF power_off, Go
    <2>2. ph.ref["core"] > 1
      BY <1>2, <1>5, <1>7, TypeFacts
    <2>3. /\ ph' \in PowerHandles({"core"}) /\ ph'.ref["core"] = ph.ref["core"] - 1
          /\ ph'.res = ph'.cur /\ ph'.cur
      BY <2>1, <2>2, <1>2, PowerCalls, TypeFacts
    <2>4. /\ pc' \in [Encoders -> Locations] /\ pc'[e] = "off"
          /\ \A f \in Encoders \ {e} : pc'[f] = pc[f]
      BY <2>1, TypeFacts DEF Locations
    <2>5. vote[e] = "idle" /\ ~seen[e] /\ (pend # NoRequest => pend.by # e)
      BY <1>1 DEF IInv, Places, Pending
    <2>6. Places'
      <3>1. Places
        BY DEF IInv
      <3> QED  BY <3>1, <2>1, <2>4, <2>5, <1>2 DEF Places
    <2>7. Pending'
      <3>1. Pending
        BY DEF IInv
      <3>2. (Want(vote))' = Want(vote)
        BY <2>1, Primed
      <3> QED  BY <3>1, <3>2, <2>1, <2>4, <2>5 DEF Pending
    <2>8. Counted'
      <3>1. Holders' = Holders \ {e}
        BY <2>4 DEF Holders
      <3>2. Cardinality(Holders') = Cardinality(Holders) - 1
        BY <3>1, <1>5
      <3>3. ph'.ref["core"] = ph.ref["core"] - 1
        BY <2>3, Zenon
      <3>4. Cardinality(Holders') <= ph'.ref["core"] /\ ph'.ref["core"] > 0
        BY <3>2, <3>3, <2>2, <1>5
      <3> QED  BY <3>4, <2>1, <2>3, <1>2 DEF Counted
    <2>9. Awake'
      BY <2>1, <1>2 DEF Awake, IInv
    <2>10. Owing' = Owing
      BY <2>1, <2>4, <1>1 DEF Owing
    <2>11. ~failed /\ pend = NoRequest => rsc.state = Want(vote) /\ rsc.hw = Want(vote)
      BY WantedIsWant DEF IInv, VotesHonoured
    <2> QED  BY <2>1, <2>3, <2>4, <2>6, <2>7, <2>8, <2>9, <2>10, <2>11, TypeFacts, Rebuilt
  <1> QED  BY <1>6, <1>7

\* vsync_waited: the request that waited under client_lock goes on.
LEMMA VsyncWaitedStep ==
    ASSUME IInv, vsync_waited
    PROVE  IInv'
  <1> DEFINE e == pend.by
             st == pend.ask
  <1>1. /\ pend # NoRequest /\ pend' = NoRequest
        /\ cfg' = cfg /\ vote' = vote /\ seen' = seen
    BY DEF vsync_waited
  <1>2. /\ e \in Encoders /\ pend.client = e /\ pc[e] \in {"powered", "on"} /\ st = vote[e]
        /\ pend.st = Want(vote) /\ rsc.hw = pend.st /\ pend.st \in States
    BY <1>1 DEF IInv, Pending
  <1>3. ph.cur /\ vote["power"] = "clk" /\ rsc.state # "idle"
    BY <1>2, HolderPowers
  <1>4. PICK rc \in {"ok", "error"} :
           /\ Finish(e, e, st, Result(rsc, rc, pend.st, FALSE, FALSE), rsc)
           /\ faults' \in 0..MaxFaults
    <2>1. faults' \in 0..MaxFaults
      <3>1. faults' = faults \/ (faults < MaxFaults /\ faults' = faults + 1)
        BY DEF vsync_waited
      <3> QED  BY <3>1, TypeFacts, RscConstants
    <2>2. \/ Finish(e, e, st, Result(rsc, "ok", pend.st, FALSE, FALSE), rsc)
          \/ Finish(e, e, st, Result(rsc, "error", pend.st, FALSE, FALSE), rsc)
      BY <1>2, Zenon DEF vsync_waited
    <2> QED  BY <2>1, <2>2, Zenon
  <1> DEFINE to == IF rc = "ok" THEN pend.st ELSE rsc.state
             at == IF st = "idle" THEN "unpower" ELSE "on"
  <1>5. Want(vote) # "idle"
    <2>1. Some(vote, "clk")
      BY <1>3, TypeFacts DEF Some
    <2> QED  BY <2>1, WantType
  <1>6. to \in States /\ to # "idle"
    BY <1>2, <1>3, <1>5, TypeFacts DEF Controllers
  <1>7. rsc' = [rsc EXCEPT !.state = to]
    <2>1. rsc' = [rsc EXCEPT !.state = to, !.clk = IF to = "idle" THEN @ - 1 ELSE @]
      BY <1>4 DEF Finish, settle, Result
    <2> HIDE DEF to
    <2> QED  BY <2>1, <1>6, TypeFacts DEF Controllers
  <1>8. /\ rsc' \in Controllers /\ rsc'.state = to /\ rsc'.hw = rsc.hw /\ rsc'.wait = rsc.wait
        /\ rsc'.collapse = rsc.collapse /\ rsc'.clk = rsc.clk
    <2> HIDE DEF to
    <2> QED  BY <1>6, <1>7, TypeFacts DEF Controllers
  <1>9. failed' \in BOOLEAN /\ (rc = "error" => failed')
    BY <1>4, TypeFacts DEF Finish, Result
  <1>10. ph' = ph /\ pc' = [pc EXCEPT ![e] = at]
    <2>1. Return(e, e, st, rc, FALSE)
      BY <1>4 DEF Finish, Result
    <2> HIDE DEF e, st
    <2> QED  BY <2>1 DEF Return, Go
  <1>11. pend' = NoRequest /\ ~failed' => rsc'.state = Want(vote') /\ rsc'.hw = Want(vote')
    BY <1>1, <1>2, <1>8, <1>9
  <1>12. e \in Encoders /\ at \in {"unpower", "on"} /\ (vote[e] # "idle" => at = "on")
    BY <1>2
  <1>13. \A f \in Encoders \ {e} : pc[f] = "powered" => vote[f] = "idle"
    BY DEF IInv, Places
  <1>14. \A f \in Encoders : seen[f] => pc[f] \in {"wait_on", "wait_off"}
    BY DEF IInv, Places
  <1>15. pc[e] \in {"powered", "on"}
    BY <1>2
  <1> HIDE DEF e, st, at
  <1>16. /\ pc' \in [Encoders -> Locations] /\ pc'[e] = at
         /\ \A f \in Encoders \ {e} : pc'[f] = pc[f]
    BY <1>10, <1>12, TypeFacts DEF Locations
  <1>17. Places'
    <2>1. Places
      BY DEF IInv
    <2> QED  BY <2>1, <1>1, <1>3, <1>10, <1>12, <1>13, <1>14, <1>15, <1>16 DEF Places
  <1>18. Pending'
    BY <1>1 DEF Pending
  <1>19. Counted'
    <2>1. Holders' = Holders
      BY <1>12, <1>15, <1>16 DEF Holders
    <2> QED  BY <2>1, <1>1, <1>3, <1>10 DEF Counted, IInv
  <1>20. Awake'
    <2>1. rsc.clk = 1 /\ ~rsc.collapse
      BY <1>3 DEF IInv, Awake
    <2> QED  BY <2>1, <1>6, <1>8 DEF Awake
  <1>21. Owing' = Owing
    BY <1>1, <1>12, <1>15, <1>16 DEF Owing
  <1>22. rsc'.wait <= Cardinality(Owing')
    BY <1>8, <1>21, TypeFacts
  <1>23. Sane(vote') /\ ph' \in PowerHandles({"core"}) /\ seen' \in [Encoders -> BOOLEAN]
    BY <1>1, <1>10, TypeFacts
  <1>24. faults' \in 0..MaxFaults
    BY <1>4
  <1> QED  BY <1>1, <1>8, <1>9, <1>11, <1>16, <1>17, <1>18, <1>19, <1>20, <1>22, <1>23, <1>24, Rebuilt

\* The invariant from its parts, when only the count, the views of it and the
\* place of one waiting encoder change.
LEMMA WaitRebuilt ==
    ASSUME IInv, NEW e \in Encoders,
           pc[e] \in {"check_on", "check_off", "wait_on", "wait_off"},
           UNCHANGED <<cfg, vote, pend, ph, faults, failed>>,
           NEW n \in Nat, rsc' = [rsc EXCEPT !.wait = n],
           NEW to \in {"on", "wait_on", "wait_off", "unpower"}, pc' = [pc EXCEPT ![e] = to],
           pc[e] \in {"check_on", "wait_on"} => to \in {"wait_on", "on"},
           NEW b \in BOOLEAN, seen' = [seen EXCEPT ![e] = b],
           b => to \in {"wait_on", "wait_off"},
           n <= Cardinality(Owing')
    PROVE  IInv'
  <1>1. /\ rsc' \in Controllers /\ rsc'.state = rsc.state /\ rsc'.hw = rsc.hw /\ rsc'.wait = n
        /\ rsc'.collapse = rsc.collapse /\ rsc'.clk = rsc.clk
    BY TypeFacts DEF Controllers
  <1>2. /\ pc' \in [Encoders -> Locations] /\ pc'[e] = to
        /\ \A f \in Encoders \ {e} : pc'[f] = pc[f]
    BY TypeFacts DEF Locations
  <1>3. /\ seen' \in [Encoders -> BOOLEAN] /\ seen'[e] = b
        /\ \A f \in Encoders \ {e} : seen'[f] = seen[f]
    BY TypeFacts
  <1>4. pend # NoRequest => pend.by # e
    BY DEF IInv, Pending
  <1>5. vote[e] # "idle" => to \in {"wait_on", "on"}
    BY DEF IInv, Places
  <1>6. Places'
    <2>1. Places
      BY DEF IInv
    <2> QED  BY <2>1, <1>2, <1>3, <1>4, <1>5 DEF Places
  <1>7. Pending'
    <2>1. Pending
      BY DEF IInv
    <2>2. (Want(vote))' = Want(vote)
      BY Primed
    <2> QED  BY <2>1, <2>2, <1>1, <1>2, <1>4 DEF Pending
  <1>8. Counted'
    <2>1. Holders' = Holders
      BY <1>2 DEF Holders
    <2> QED  BY <2>1 DEF Counted, IInv
  <1>9. Awake'
    BY <1>1, <1>2 DEF Awake, IInv
  <1>10. ~failed /\ pend = NoRequest => rsc.state = Want(vote) /\ rsc.hw = Want(vote)
    BY WantedIsWant DEF IInv, VotesHonoured
  <1> QED  BY <1>1, <1>2, <1>3, <1>6, <1>7, <1>8, <1>9, <1>10, TypeFacts, Rebuilt

\* vsync_refcount: the encoder looks at the count without the lock.
LEMMA VsyncRefcountStep ==
    ASSUME IInv, NEW e \in Encoders, vsync_refcount(e)
    PROVE  IInv'
  <1> DEFINE to == IF pc[e] = "check_on" THEN "wait_on" ELSE "wait_off"
  <1>1. /\ pc[e] \in {"check_on", "check_off"} /\ rsc' = rsc
        /\ UNCHANGED <<cfg, vote, pend, ph, faults, failed>>
        /\ pc' = [pc EXCEPT ![e] = to]
    BY DEF vsync_refcount, Go
  <1>2. PICK b \in BOOLEAN : b = (rsc.wait > 0)
    <2>1. (rsc.wait > 0) \in BOOLEAN
      OBVIOUS
    <2> QED  BY <2>1, Zenon
  <1>3. seen' = [seen EXCEPT ![e] = b]
    BY <1>2, Zenon DEF vsync_refcount
  <1>4. rsc' = [rsc EXCEPT !.wait = rsc.wait] /\ rsc.wait \in Nat
    BY <1>1, TypeFacts DEF Controllers
  <1>5. to \in {"wait_on", "wait_off"} /\ (pc[e] = "check_on" => to = "wait_on")
    OBVIOUS
  <1> HIDE DEF to
  <1>6. rsc.wait <= Cardinality(Owing')
    <2>1. CASE b
      <3>1. Owing' = Owing
        BY <2>1, <1>1, <1>3, <1>5, TypeFacts DEF Owing
      <3> QED  BY <3>1, TypeFacts
    <2>2. CASE ~b
      <3>0. ~(rsc.wait > 0)
        BY <2>2, <1>2, Zenon
      <3>1. rsc.wait = 0
        BY <3>0, <1>4
      <3>2. Owing' \in SUBSET Encoders
        BY DEF Owing
      <3>3. Cardinality(Owing') \in Nat
        BY <3>2, EncodersFinite, FS_Subset, FS_CardinalityType
      <3> QED  BY <3>1, <3>3
    <2> QED  BY <2>1, <2>2
  <1> QED  BY <1>1, <1>3, <1>4, <1>5, <1>6, WaitRebuilt

\* vblank_waited: the encoder lowers the count it has seen.
LEMMA VblankWaitedStep ==
    ASSUME IInv, NEW e \in Encoders, vblank_waited(e)
    PROVE  IInv'
  <1> DEFINE to == IF pc[e] = "wait_on" THEN "on" ELSE "unpower"
             n == IF seen[e] THEN reset_vsync_refcount(rsc.wait) ELSE rsc.wait
  <1>1. /\ pc[e] \in {"wait_on", "wait_off"} /\ rsc' = [rsc EXCEPT !.wait = n]
        /\ UNCHANGED <<cfg, vote, pend, ph, faults, failed>>
        /\ pc' = [pc EXCEPT ![e] = to] /\ seen' = [seen EXCEPT ![e] = FALSE]
    BY DEF vblank_waited, Go
  <1>2. to \in {"on", "unpower"} /\ (pc[e] = "wait_on" => to = "on")
    OBVIOUS
  <1>3. rsc.wait \in Nat /\ n \in Nat /\ (seen[e] => n = IF rsc.wait > 0 THEN rsc.wait - 1 ELSE 0)
        /\ (~seen[e] => n = rsc.wait)
    BY TypeFacts DEF Controllers, reset_vsync_refcount
  <1> HIDE DEF to, n
  <1>4. n <= Cardinality(Owing')
    <2>1. Owing \in SUBSET Encoders
      BY DEF Owing
    <2>2. Owing' = Owing \ {e}
      BY <1>1, <1>2, TypeFacts DEF Owing
    <2>3. /\ Cardinality(Owing) \in Nat /\ rsc.wait <= Cardinality(Owing)
          /\ e \in Owing => Cardinality(Owing \ {e}) = Cardinality(Owing) - 1
                             /\ Cardinality(Owing) >= 1
      BY <2>1, OneMore, TypeFacts
    <2>4. CASE seen[e]
      <3>1. e \in Owing
        BY <2>4 DEF Owing
      <3>2. Cardinality(Owing') = Cardinality(Owing) - 1 /\ Cardinality(Owing) >= 1
        BY <3>1, <2>2, <2>3
      <3> QED  BY <3>2, <2>3, <2>4, <1>3
    <2>5. CASE ~seen[e]
      <3>1. Owing \ {e} = Owing
        BY <2>5, <1>1 DEF Owing
      <3> QED  BY <3>1, <2>2, <2>3, <2>5, <1>3
    <2> QED  BY <2>4, <2>5
  <1> QED  BY <1>1, <1>2, <1>3, <1>4, WaitRebuilt
-----------------------------------------------------------------------------
(* The theorems.                                                           *)

\* Nothing is on or asked for at the start.
LEMMA InitInv ==
    Init => IInv
  <1> SUFFICES ASSUME Init
               PROVE  IInv
    OBVIOUS
  <1> USE DEF Init
  <1>1. /\ \A c \in Clients : vote[c] = "idle"
        /\ \A e \in Encoders : e \in Clients /\ pc[e] = "off" /\ ~seen[e]
        /\ "power" \in Clients
    BY DEF Clients, Encoders
  <1>2. Want(vote) = "idle" /\ Wanted = "idle"
    BY <1>1, WantType, WantedIsWant
  <1>3. Sane(vote)
    BY <1>1 DEF Sane, States
  <1>4. Holders = {} /\ Owing = {} /\ Cardinality({}) = 0
    BY <1>1, FS_EmptySet DEF Holders, Owing
  <1>5. TypeOK
    <2>1. rsc.wait <= Cardinality(Owing) /\ 0 \in 0..Cardinality(Encoders)
      BY <1>4, EncodersFinite
    <2>2. rsc \in [state : States, hw : States, collapse : BOOLEAN, clk : 0..1,
                   wait : 0..Cardinality(Encoders)]
      BY <2>1 DEF States
    <2>3. ph \in PowerHandles({"core"})
      BY DEF PowerHandles
    <2>4. rsc.wait
              <= Cardinality({e \in Encoders : pc[e] \in {"check_on", "check_off"} \/ seen[e]})
      BY <2>1 DEF Owing
    <2>5. faults \in 0..MaxFaults /\ failed \in BOOLEAN /\ vote \in [Clients -> States]
      <3>1. 0 \in 0..MaxFaults
        BY RscConstants
      <3>2. failed \in BOOLEAN
        BY Zenon
      <3> QED  BY <3>1, <3>2, <1>3 DEF Sane
    <2>6. seen \in [Encoders -> BOOLEAN]
      BY Zenon
    <2> QED  BY <2>2, <2>3, <2>4, <2>5, <2>6 DEF TypeOK
  <1>6. Places /\ Pending /\ Awake /\ VotesHonoured
    BY <1>1, <1>2 DEF Places, Pending, Awake, VotesHonoured
  <1>7. Counted
    BY <1>4 DEF Counted
  <1> QED  BY <1>3, <1>5, <1>6, <1>7 DEF IInv

\* A stuttering step changes nothing.
LEMMA StutterInv ==
    ASSUME IInv, UNCHANGED vars
    PROVE  IInv'
  BY DEF vars, IInv, TypeOK, Sane, Asks, Places, Pending, Counted, Awake, VotesHonoured,
         Holders, Wanted, Want, ExtClk, Some

\* The invariant holds in every reachable state of the RSC and its clients.
THEOREM InvInductive ==
    Spec => []IInv
  <1>1. ASSUME IInv, [Next]_vars
        PROVE  IInv'
    <2>1. CASE UNCHANGED vars
      BY <1>1, <2>1, StutterInv
    <2>2. CASE vsync_waited
      BY <1>1, <2>2, VsyncWaitedStep
    <2>3. ASSUME NEW e \in Encoders,
                 \/ power_on(e) \/ power_clocks(e) \/ power_undo(e) \/ rsc_on(e)
                 \/ rsc_off(e) \/ vsync_refcount(e) \/ vblank_waited(e) \/ power_off(e)
          PROVE  IInv'
      BY <1>1, <2>3, PowerOnStep, PowerClocksStep, PowerUndoStep, RscOnStep, RscOffStep,
         VsyncRefcountStep, VblankWaitedStep, PowerOffStep
    <2> QED  BY <1>1, <2>1, <2>2, <2>3 DEF Next
  <1> QED  BY <1>1, InitInv, PTL DEF Spec

\* Every variable keeps its type, and no vsync count is left behind by the encoders
\* that asked for it (rsc_vsync_wait).
THEOREM TypeCorrect ==
    Spec => []TypeOK
  <1>1. IInv => TypeOK
    BY DEF IInv
  <1> QED  BY <1>1, InvInductive, PTL

\* No vote is forgotten: between requests, and unless the last switch failed, the RSC
\* and its hardware are in the state the votes ask for (sde_rsc_client_state_update).
THEOREM NoVoteForgotten ==
    Spec => []VotesHonoured
  <1>1. IInv => VotesHonoured
    BY DEF IInv
  <1> QED  BY <1>1, InvInductive, PTL

\* Whatever failed or timed out, the RSC has not collapsed while the power handle
\* has its clocks on (sde_power_resource_enable, sde_rsc_switch_to_idle).
THEOREM AwakeUnderPower ==
    Spec => []PowerMeansAwake
  <1>1. IInv => PowerMeansAwake
    BY DEF IInv, Counted, Awake, PowerMeansAwake
  <1> QED  BY <1>1, InvInductive, PTL
=============================================================================
