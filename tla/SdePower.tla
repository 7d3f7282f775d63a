------------------------------ MODULE SdePower ------------------------------
(***************************************************************************)
(* The power handle of sde_power_handle.c as a value: the refcount of each *)
(* client, the state the handle believes in (cur: current_usecase_ndx is   *)
(* not VOTE_INDEX_DISABLE) and the resources themselves (res: regulators,  *)
(* RSC vote and clocks).  A call runs under phandle_lock, so that it is    *)
(* one step of its caller.  Bandwidth votes and the scaling of the         *)
(* register bus are left out.                                              *)
(***************************************************************************)
EXTENDS Naturals

PowerHandles(clients) ==
    [ref : [clients -> Nat], cur : BOOLEAN, res : BOOLEAN]

\* the refcounts after a call: a disable at zero is ignored
Voted(p, c, enable) ==
    [p.ref EXCEPT ![c] = IF enable THEN @ + 1 ELSE IF @ = 0 THEN 0 ELSE @ - 1]

\* max_usecase_ndx over the clients is above VOTE_INDEX_DISABLE
AnyVote(p, ref) == \E c \in DOMAIN p.ref : ref[c] > 0

_resource_changed(p, c, enable) == AnyVote(p, Voted(p, c, enable)) # p.cur

\* the direction of the switch is the caller's, not that of the change
sde_power_resource_enable(p, c, enable) ==
    LET ref == Voted(p, c, enable)
    IN  IF _resource_changed(p, c, enable)
        THEN [ref |-> ref, cur |-> AnyVote(p, ref), res |-> enable]
        ELSE [p EXCEPT !.ref = ref]

\* mutant: the error path forgets current_usecase_ndx
power_fail_keeps_state(p, c) ==
    [ref |-> Voted(p, c, TRUE), cur |-> TRUE, res |-> FALSE]
\* an enable that fails half way unwinds the resources and current_usecase_ndx,
\* and leaves the client's refcount raised
sde_power_resource_enable_fails(p, c) ==
    [ref |-> Voted(p, c, TRUE), cur |-> p.cur, res |-> FALSE]
=============================================================================
