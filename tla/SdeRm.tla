-------------------------------- MODULE SdeRm --------------------------------
(***************************************************************************)
(* The resource manager (sde_rm.c) and its users: the check phase of       *)
(* commits and the display threads, which reserve hardware blocks in       *)
(* mode_set and release them in disable.  A call runs under rm_lock, so    *)
(* that it is one step.  A block is <<type, id>>; ids give the order of    *)
(* the lists.  Left out: ROI MISR, blocks of shared displays, topology     *)
(* NONE.                                                                   *)
(***************************************************************************)
EXTENDS Naturals, Sequences, FiniteSets, FiniteSetsExt, SequencesExt

CONSTANTS
    Displays,  \* the encoders
    Display,   \* of each: primary, dsi, wb, its interfaces or writebacks (outs),
               \* the display it may clone, what it may be asked for
    Splash,    \* of each: whether the boot loader lit it, with which topology,
               \* and with which lm, ctl and dsc
    Mixer,     \* id -> pp, dspp, ds (0: none), pairs, primary, cwb
    Pingpong,  \* id -> split, slave
    Ctl,       \* id -> split, ppsplit, primary
    Dsc,       \* id -> pairs
    Cdm,       \* id -> outs it connects to
    Qdss,      \* ids
    HasDs,     \* hw_mdp->caps->has_dest_scaler
    CtlV1,     \* the CTL path has version 1.0.0
    None

\* the rows of g_top_table, or of g_ctl_ver_1_top_table, where one CTL drives
\* several interfaces: num_lm, num_comp_enc, num_ctl, needs_split_display
Top(lm, dsc, ctl, split) == [lm |-> lm, dsc |-> dsc, ctl |-> ctl, split |-> split]
Topology ==
    [singlepipe           |-> Top(1, 0, 1, FALSE),
     singlepipe_dsc       |-> Top(1, 1, 1, FALSE),
     dualpipe             |-> IF CtlV1 THEN Top(2, 0, 1, FALSE) ELSE Top(2, 0, 2, TRUE),
     dualpipe_dsc         |-> IF CtlV1 THEN Top(2, 2, 1, FALSE) ELSE Top(2, 2, 2, TRUE),
     dualpipe_3dmerge     |-> Top(2, 0, 1, FALSE),
     dualpipe_3dmerge_dsc |-> Top(2, 1, 1, FALSE),
     dualpipe_dscmerge    |-> Top(2, 2, 1, FALSE),
     ppsplit              |-> Top(1, 0, 1, ~CtlV1),
     triplepipe           |-> Top(3, 0, 1, FALSE),
     triplepipe_dsc       |-> Top(3, 3, 1, FALSE),
     quadpipe_3dmerge     |-> Top(4, 0, 1, FALSE),
     quadpipe_3dmerge_dsc |-> Top(4, 3, 1, FALSE),
     quadpipe_dscmerge    |-> Top(4, 4, 1, FALSE),
     sixpipe_3dmerge      |-> Top(6, 0, 1, FALSE),
     sixpipe_dscmerge     |-> Top(6, 6, 1, FALSE)]
Requests == [top : DOMAIN Topology, dspp : BOOLEAN, ds : BOOLEAN, cwb : BOOLEAN,
             cdm : BOOLEAN]

Tagged(type, ids) == {<<type, i>> : i \in ids}
Outs == UNION {Display[e].outs : e \in Displays}
Blocks ==
    Tagged("lm", DOMAIN Mixer) \cup Tagged("pp", DOMAIN Pingpong)
    \cup Tagged("dspp", {Mixer[l].dspp : l \in DOMAIN Mixer} \ {0})
    \cup Tagged("ds", {Mixer[l].ds : l \in DOMAIN Mixer} \ {0})
    \cup Tagged("ctl", DOMAIN Ctl) \cup Tagged("dsc", DOMAIN Dsc)
    \cup Tagged("cdm", DOMAIN Cdm) \cup Tagged("qdss", Qdss) \cup Outs

ASSUME RmConstants ==
    /\ IsFiniteSet(Displays) /\ None \notin Displays
    /\ \A e \in Displays : /\ Display[e].asks \in (SUBSET Requests) \ {{}}
                           /\ Display[e].outs \subseteq {"intf", "wb"} \X Nat
                           /\ Display[e].clone \in Displays \cup {None}
                           /\ Splash[e].lit \in BOOLEAN /\ Splash[e].q \in Requests
    /\ UNION {DOMAIN Mixer, DOMAIN Pingpong, DOMAIN Ctl, DOMAIN Dsc, DOMAIN Cdm, Qdss}
          \subseteq Nat
    /\ 0 \notin DOMAIN Mixer \cup DOMAIN Dsc
    /\ \A l \in DOMAIN Mixer : /\ Mixer[l].pp \in DOMAIN Pingpong
                               /\ Mixer[l].pairs \subseteq DOMAIN Mixer
    /\ \A d \in DOMAIN Dsc : Dsc[d] \subseteq DOMAIN Dsc

\* lm_pair_mask and dsc_pair_mask name one peer at most, and which blocks "can be
\* controlled by same CTL" is mutual
Matching(pairs) ==
    \A x \in DOMAIN pairs : x \notin pairs[x] /\ \A y \in pairs[x] : pairs[y] = {x}
Pairs == [l \in DOMAIN Mixer |-> Mixer[l].pairs]
ASSUME PairsMatch == Matching(Pairs) /\ Matching(Dsc)

VARIABLES
    rsvp,   \* the display that has reserved each block
    nxt,    \* rsvp_nxt: the display a reservation under way proposes it for
    conn,   \* connector state: what was asked for, and RESERVE_LOCK, as long as
            \* the display is on or a commit will read them
    com,    \* the display's commit: boot, idle, queued, seamless, modeset, off
    on,     \* the display is enabled
    hw,     \* the blocks the encoder's pointers refer to, if the display is on
    mode,   \* the topology they were fetched for
    splash  \* the boot loader's picture is still shown

vars == <<rsvp, nxt, conn, com, on, hw, mode, splash>>
-----------------------------------------------------------------------------
(* The search for blocks.                                                  *)

\* mutant: what others hold counts as free
reserved_by_nobody(r, b, e) == FALSE
\* neither free nor the display's own
RESERVED_BY_OTHER(r, b, e) == r[b] \notin {None, e}

\* All DSI displays use DSPPs, the primary one destination scalers.  A clone
\* takes as many mixers as the cloned display, whatever it was asked for.
_sde_rm_populate_requirements(e, q) ==
    LET cloned == Display[e].clone
        lms == IF cloned = None THEN 0 ELSE Topology[conn[cloned].q.top].lm
    IN  [top  |-> IF q.cwb THEN IF lms = 1 THEN "singlepipe" ELSE "dualpipe_3dmerge"
                           ELSE q.top,
         dspp |-> q.dspp \/ Display[e].dsi,
         ds   |-> q.ds \/ (Display[e].dsi /\ Display[e].primary /\ HasDs),
         cwb  |-> q.cwb, cdm |-> q.cdm]

\* DSPP and DS as required in each pass over the mixers: those without either
\* are given away first
Passes(q) ==
    <<[dspp |-> q.dspp, ds |-> q.ds]>>
    \o (IF q.dspp THEN <<>> ELSE <<[dspp |-> TRUE, ds |-> q.ds]>>)
    \o (IF q.ds THEN <<>> ELSE <<[dspp |-> TRUE, ds |-> TRUE]>>)

\* the blocks wired to each mixer
Connected ==
    [l \in DOMAIN Mixer |->
        {<<"lm", l>>, <<"pp", Mixer[l].pp>>}
        \cup (IF Mixer[l].dspp = 0 THEN {} ELSE {<<"dspp", Mixer[l].dspp>>})
        \cup (IF Mixer[l].ds = 0 THEN {} ELSE {<<"ds", Mixer[l].ds>>})]

\* a mixer fits as it is wired, and if all of that is free; one preferred for the
\* primary display goes to no other
_sde_rm_check_lm_and_get_connected_blks(r, e, q, pass, l) ==
    LET m == Mixer[l]
    IN  /\ IF m.primary THEN Display[e].primary
           ELSE /\ (m.dspp # 0) = pass.dspp /\ (m.ds # 0) = pass.ds
                /\ q.cwb => m.cwb
        /\ \A b \in Connected[l] : ~RESERVED_BY_OTHER(r, b, e)
        /\ q.top = "ppsplit" => Pingpong[m.pp].split

\* One round of the search of _sde_rm_reserve_lms and _sde_rm_reserve_dsc among
\* the <<pass, id>> that fit, in their order: the next one, with its peer if two
\* or more are still missing.  What was found stays.  The boot loader's blocks
\* are fixed by pin.
Round(s, num, fits, pairs, pin) ==
    LET n == Len(s.got)
        Left(k, x) == /\ x \notin Range(s.got)
                      /\ pin.on => k \in DOMAIN pin.ids /\ pin.ids[k] = x
        Peers(c) == {y \in pairs[c[2]] \ {c[2]} : <<c[1], y>> \in fits /\ Left(n + 2, y)}
        Ahead == {c \in fits : /\ c[1] > s.pass \/ (c[1] = s.pass /\ c[2] > s.at)
                               /\ Left(n + 1, c[2])
                               /\ n + 1 = num \/ Peers(c) # {}}
        First(S) == CHOOSE c \in S : \A d \in S :
                        c[1] < d[1] \/ (c[1] = d[1] /\ c[2] <= d[2])
        Take(c) == [got  |-> s.got \o (IF n + 1 = num THEN <<c[2]>>
                                       ELSE <<c[2], Min(Peers(c))>>),
                    pass |-> c[1], at |-> c[2]]
    IN  IF n >= num \/ Ahead = {} THEN s ELSE Take(First(Ahead))

\* no search takes more rounds than there are blocks to find
Rounds(num, fits, pairs, pin) ==
    LET after[i \in 0..num] ==
            IF i = 0 THEN [got |-> <<>>, pass |-> 1, at |-> 0]
            ELSE Round(after[i - 1], num, fits, pairs, pin)
    IN  after

\* mutant: the number found is not compared with the number asked for
search_takes_less(num, fits, pairs, pin) ==
    {Range(Rounds(num, fits, pairs, pin)[num].got)}
\* the blocks found, if all of them were
Search(num, fits, pairs, pin) ==
    {Range(got) : got \in {g \in {Rounds(num, fits, pairs, pin)[num].got} : Len(g) = num}}

\* what a step of a reservation tags, and whether it succeeds
Result(ok, tags) == [ok |-> ok, tags |-> tags]

_sde_rm_reserve_lms(r, e, q, pin) ==
    LET passes == Passes(q)
        fits == {c \in (DOMAIN passes) \X (DOMAIN Mixer) :
                    _sde_rm_check_lm_and_get_connected_blks(r, e, q, passes[c[1]], c[2])}
        slaves == {p \in DOMAIN Pingpong :
                      Pingpong[p].slave /\ ~RESERVED_BY_OTHER(r, <<"pp", p>>, e)}
        slave == {<<"pp", p>> : p \in {p \in slaves : q.top = "ppsplit" /\ p = Min(slaves)}}
        Tags(found) == Result(found # {} /\ (q.top = "ppsplit" => slave # {}),
                              (UNION {Connected[l] : l \in UNION found}) \cup slave)
    IN  Tags(Search(Topology[q.top].lm, fits, Pairs, pin))

\* The first CTLs that fit, or none: the return value is ignored, and with it the
\* second try among the CTLs of split displays.
_sde_rm_reserve_ctls(r, e, q, pin) ==
    LET t == Topology[q.top]
        Fits(c) ==
            /\ ~RESERVED_BY_OTHER(r, <<"ctl", c>>, e)
            /\ \/ pin.on
               \/ IF Ctl[c].primary THEN Display[e].primary
                  ELSE /\ Ctl[c].split = t.split
                       /\ q.top = "ppsplit" => Ctl[c].ppsplit
        fit == {c \in DOMAIN Ctl : Fits(c) /\ (pin.on => c \in Range(pin.ids))}
        first == {c \in fit : Cardinality({d \in fit : d <= c}) <= t.ctl}
    IN  IF Cardinality(fit) < t.ctl THEN {} ELSE Tagged("ctl", first)

\* interfaces and writebacks are fixed; the chroma down block is the first that
\* connects to them
_sde_rm_reserve_intf_related_hw(r, e, q) ==
    LET outs == Display[e].outs
        cdms(o) == {c \in DOMAIN Cdm :
                       o \in Cdm[c] /\ ~RESERVED_BY_OTHER(r, <<"cdm", c>>, e)}
        ok == \A o \in outs : /\ ~RESERVED_BY_OTHER(r, o, e)
                              /\ q.cdm => cdms(o) # {}
    IN  Result(ok, IF ok THEN outs \cup {<<"cdm", Min(cdms(o))>> :
                                           o \in {p \in outs : q.cdm}}
                         ELSE {})

_sde_rm_reserve_dsc(r, e, q, pin) ==
    LET fits == {c \in {1} \X (DOMAIN Dsc) : ~RESERVED_BY_OTHER(r, <<"dsc", c[2]>>, e)}
        Tags(found) == Result(found # {}, Tagged("dsc", UNION found))
    IN  Tags(Search(Topology[q.top].dsc, fits, Dsc, pin))

_sde_rm_reserve_qdss(r, e) ==
    LET free == {d \in Qdss : ~RESERVED_BY_OTHER(r, <<"qdss", d>>, e)}
    IN  Result(Qdss = {} \/ free # {},
               IF free = {} THEN {} ELSE {<<"qdss", Min(free)>>})

\* the steps in their order, up to the first that fails; that CTLs are missing is
\* not a failure
InOrder(steps) ==
    Result(\A i \in DOMAIN steps : steps[i].ok,
           UNION {steps[i].tags : i \in {i \in DOMAIN steps :
                                           \A j \in 1..(i - 1) : steps[j].ok}})
_sde_rm_make_next_rsvp(r, e, q) ==
    LET Pin(ids) == [on |-> splash[e], ids |-> ids]
    IN  InOrder(<<_sde_rm_reserve_lms(r, e, q, Pin(Splash[e].lm)),
                  Result(TRUE, _sde_rm_reserve_ctls(r, e, q, Pin(Splash[e].ctl))),
                  _sde_rm_reserve_intf_related_hw(r, e, q),
                  _sde_rm_reserve_dsc(r, e, q, Pin(Splash[e].dsc)),
                  _sde_rm_reserve_qdss(r, e)>>)
-----------------------------------------------------------------------------
(* Reservations.                                                           *)

\* mutant: the proposal stays behind
release_keeps_next(f, e) == f
\* the display's tags are taken off the blocks
_sde_rm_release_rsvp(f, e) == [b \in Blocks |-> IF f[b] = e THEN None ELSE f[b]]

\* every proposed block becomes its display's
_sde_rm_commit_rsvp(r, n) == [b \in Blocks |-> IF n[b] # None THEN n[b] ELSE r[b]]

\* sde_rm_reserve: CLEAR drops the current reservation before the test; a failed
\* proposal is dropped, and a tested one unless LOCK keeps it
Reserved(e, cur, new, keep, top) ==
    LET n == [b \in Blocks |-> IF b \in new.tags THEN e ELSE nxt[b]]
    IN  IF new.ok /\ keep
        THEN [ok |-> TRUE, top |-> top, nxt |-> [b \in Blocks |-> None],
              rsvp |-> _sde_rm_commit_rsvp(_sde_rm_release_rsvp(cur, e), n)]
        ELSE [ok |-> new.ok, top |-> top, nxt |-> _sde_rm_release_rsvp(n, e), rsvp |-> cur]
\* mutants: a test is kept as a reservation is; a locked test is dropped as another
reserve_keeps_test(e, ask, test, lock, clear) ==
    LET q == _sde_rm_populate_requirements(e, ask)
    IN  Reserved(e, rsvp, _sde_rm_make_next_rsvp(rsvp, e, q), TRUE, q.top)
reserve_drops_lock(e, ask, test, lock, clear) ==
    LET q == _sde_rm_populate_requirements(e, ask)
    IN  Reserved(e, rsvp, _sde_rm_make_next_rsvp(rsvp, e, q), ~test, q.top)
sde_rm_reserve(e, ask, test, lock, clear) ==
    LET q == _sde_rm_populate_requirements(e, ask)
        cur == IF test /\ clear THEN _sde_rm_release_rsvp(rsvp, e) ELSE rsvp
    IN  Reserved(e, cur, _sde_rm_make_next_rsvp(cur, e, q), ~test \/ lock, q.top)

\* sde_rm_release: a locked display keeps its blocks
sde_rm_release(e) ==
    IF conn[e].lock THEN rsvp ELSE _sde_rm_release_rsvp(rsvp, e)

Own(r, e) == {b \in Blocks : r[b] = e}

NoRequest(e) == [q |-> CHOOSE q \in Display[e].asks : TRUE, lock |-> FALSE]
-----------------------------------------------------------------------------
(* The users.                                                              *)

Init ==
    /\ splash \in {[e \in Displays |-> FALSE], [e \in Displays |-> Splash[e].lit]}
    /\ conn = [e \in Displays |-> IF splash[e] THEN [q |-> Splash[e].q, lock |-> FALSE]
                                  ELSE NoRequest(e)]
    /\ com = [e \in Displays |-> IF splash[e] THEN "boot" ELSE "idle"]
    /\ on = [e \in Displays |-> FALSE]
    /\ mode = [e \in Displays |-> None]
    /\ hw = [e \in Displays |-> {}]
    /\ rsvp = [b \in Blocks |-> None] /\ nxt = rsvp

\* a clone is committed while the display it clones is on, and that one is not
\* switched while it is cloned: they share a crtc
MayCommit(e, cwb) ==
    /\ com[e] = "idle"
    /\ cwb => on[Display[e].clone] /\ com[Display[e].clone] = "idle"
    /\ \A d \in Displays : Display[d].clone = e /\ conn[d].q.cwb =>
           ~on[d] /\ com[d] = "idle"

Modes(e) == {"queued"} \cup {m \in {"seamless"} : on[e] /\ ~splash[e] /\ Display[e].dsi}

\* sde_encoder_virt_atomic_check of an ioctl that only tests, or of one that goes
\* on to commit if the test succeeds.  User space locks and clears only what is
\* off.
atomic_check(e, q, lock, clear) ==
    /\ lock \/ clear => ~on[e] /\ com[e] = "idle"
    /\ q.cwb => on[Display[e].clone]
    /\ \E res \in {sde_rm_reserve(e, q, TRUE, lock, clear)} :
           /\ rsvp' = res.rsvp /\ nxt' = res.nxt
           /\ \/ UNCHANGED <<conn, com>>
              \/ /\ res.ok /\ MayCommit(e, q.cwb)
                 /\ conn' = [conn EXCEPT ![e] = [q |-> q, lock |-> lock]]
                 /\ \E m \in Modes(e) : com' = [com EXCEPT ![e] = m]
    /\ UNCHANGED <<on, hw, mode, splash>>

commit_off(e, lock) ==
    /\ on[e] /\ ~splash[e] /\ MayCommit(e, FALSE)
    /\ conn' = [conn EXCEPT ![e].lock = lock]
    /\ com' = [com EXCEPT ![e] = "off"]
    /\ UNCHANGED <<rsvp, nxt, on, hw, mode, splash>>

\* the display thread disables what is on, unless the switch is seamless or the
\* first after boot
sde_encoder_virt_disable(e) ==
    /\ com[e] \in {"queued", "off"}
    /\ com' = [com EXCEPT ![e] = IF @ = "off" THEN "idle" ELSE "modeset"]
    /\ conn' = [conn EXCEPT ![e] = IF com[e] = "off" THEN NoRequest(e) ELSE @]
    /\ IF on[e] /\ ~splash[e]
       THEN /\ rsvp' = sde_rm_release(e)
            /\ on' = [on EXCEPT ![e] = FALSE]
            /\ hw' = [hw EXCEPT ![e] = {}]
            /\ mode' = [mode EXCEPT ![e] = None]
       ELSE UNCHANGED <<rsvp, on, hw, mode>>
    /\ UNCHANGED <<nxt, splash>>

\* blocks are reserved and fetched; without them, or memory for the reservation,
\* the display is not enabled, or keeps its old mode
GetBlocks(e) ==
    /\ \E res \in {sde_rm_reserve(e, conn[e].q, FALSE, conn[e].lock, FALSE)} :
           \/ UNCHANGED <<rsvp, nxt, on, hw, mode>>
           \/ /\ rsvp' = res.rsvp /\ nxt' = res.nxt
              /\ IF res.ok THEN /\ on' = [on EXCEPT ![e] = TRUE]
                               /\ hw' = [hw EXCEPT ![e] = Own(res.rsvp, e)]
                               /\ mode' = [mode EXCEPT ![e] = res.top]
                 ELSE UNCHANGED <<on, hw, mode>>
    /\ com' = [com EXCEPT ![e] = "idle"]
    /\ conn' = [conn EXCEPT ![e] = IF on'[e] THEN [@ EXCEPT !.lock = FALSE]
                                   ELSE NoRequest(e)]

\* the boot loader's picture is taken over; the device is registered already, so
\* the other displays may be in use
sde_encoder_update_caps_for_cont_splash(e) ==
    /\ com[e] = "boot"
    /\ GetBlocks(e)
    /\ UNCHANGED splash

\* the first commit ends the splash
mode_set(e) ==
    /\ com[e] \in {"modeset", "seamless"}
    /\ GetBlocks(e)
    /\ splash' = [splash EXCEPT ![e] = FALSE]

Next ==
    \E e \in Displays :
        \/ \E q \in Display[e].asks, lock, clear \in BOOLEAN : atomic_check(e, q, lock, clear)
        \/ \E lock \in BOOLEAN : commit_off(e, lock)
        \/ sde_encoder_update_caps_for_cont_splash(e)
        \/ sde_encoder_virt_disable(e)
        \/ mode_set(e)

Spec == Init /\ [][Next]_vars
-----------------------------------------------------------------------------
(* Properties.                                                             *)

\* Every variable has its type, and no proposal outlives the call that made it.
TypeOK ==
    /\ rsvp \in [Blocks -> Displays \cup {None}]
    /\ nxt = [b \in Blocks |-> None]
    /\ conn \in [Displays -> [q : Requests, lock : BOOLEAN]]
    /\ com \in [Displays -> {"boot", "idle", "queued", "seamless", "modeset", "off"}]
    /\ on \in [Displays -> BOOLEAN] /\ splash \in [Displays -> BOOLEAN]
    /\ hw \in [Displays -> SUBSET Blocks] /\ mode \in [Displays -> DOMAIN Topology \cup {None}]

OfType(S, type) == {b \in S : b[1] = type}

\* A display that is on drives blocks reserved for it and for nobody else
\* (sde_rm_reserve, sde_rm_release and the tests of other displays between them).
DrivesItsOwn == \A e \in Displays : on[e] => hw[e] \subseteq Own(rsvp, e)

\* the blocks S are what the topology asks for
Fulfils(e, S, top) ==
    LET t == Topology[top]
        lms == {b[2] : b \in OfType(S, "lm")}
    IN  /\ Cardinality(lms) = t.lm
        /\ (UNION {Connected[l] : l \in lms}) \cup Display[e].outs \subseteq S
        /\ Cardinality({l \in lms : Pairs[l] \cap lms = {}}) = t.lm % 2
        /\ Cardinality(OfType(S, "dsc")) = t.dsc
        /\ Display[e].dsi => \A l \in lms : Mixer[l].dspp # 0

\* A display that is on has what its topology asks for: the mixers with all that
\* is wired to them, in pairs, the interfaces, and the compression blocks.
Complete == \A e \in Displays : on[e] => Fulfils(e, hw[e], mode[e])

\* A display that locked its blocks in the check phase gets what it asked for,
\* whatever the others did since: "after a successful test, reserve the
\* resources for this display" (RESERVE_LOCK).
LockHolds ==
    \A e \in Displays :
        com[e] \in {"queued", "modeset"} /\ conn[e].lock =>
            sde_rm_reserve(e, conn[e].q, FALSE, TRUE, FALSE).ok

\* The manager implements the abstract one: a test without LOCK or CLEAR, and a
\* reservation that fails, change nothing, and no call touches the blocks of
\* another display (sde_rm_reserve, sde_rm_release).
R == INSTANCE Reservations WITH holder <- rsvp
ImplementsReservations == R!Spec
=============================================================================
