------------------------------ MODULE Timeline ------------------------------
(***************************************************************************)
(* What a release/retire fence timeline promises, free of lists, locks and *)
(* 32-bit counters.  A timeline has some commits outstanding (lag).  Each  *)
(* fence waits for a number of completions that is fixed when it is        *)
(* created, and may signal only once that many commits have completed.     *)
(***************************************************************************)
EXTENDS Integers

CONSTANTS Fences,      \* fence objects that can exist at one time
          Offsets      \* constant offsets a fence may be created with

VARIABLES lag,         \* commits prepared and not yet completed
          wait,        \* completions each live fence still waits for
          phase        \* "free", "live" or "signaled", per fence

tvars == <<lag, wait, phase>>

TInit ==
    /\ lag = 0
    /\ wait = [f \in Fences |-> 0]
    /\ phase = [f \in Fences |-> "free"]

\* A commit is prepared; its fences are due one completion later.
TPrepare ==
    /\ lag' = lag + 1
    /\ UNCHANGED <<wait, phase>>

\* k outstanding commits complete together (k > 1 only when a timeline is reset).
TComplete(k) ==
    /\ k \in 1 .. lag
    /\ lag' = lag - k
    /\ wait' = [f \in Fences |->
                  IF phase[f] = "live" THEN wait[f] - k ELSE wait[f]]
    /\ UNCHANGED phase

TCreate(f, offset) ==
    /\ phase[f] = "free"
    /\ phase' = [phase EXCEPT ![f] = "live"]
    /\ wait' = [wait EXCEPT ![f] = lag + offset]
    /\ UNCHANGED lag

\* The promise: a fence never signals before its completions have happened.
TSignal(f) ==
    /\ phase[f] = "live"
    /\ wait[f] <= 0
    /\ phase' = [phase EXCEPT ![f] = "signaled"]
    /\ wait' = [wait EXCEPT ![f] = 0]
    /\ UNCHANGED lag

\* A fence nobody refers to any more disappears, and never before it signaled.
TRelease(f) ==
    /\ phase[f] = "signaled"
    /\ phase' = [phase EXCEPT ![f] = "free"]
    /\ UNCHANGED <<lag, wait>>

TNext ==
    \/ TPrepare
    \/ \E k \in 1 .. lag : TComplete(k)
    \/ \E f \in Fences : TSignal(f) \/ TRelease(f)
    \/ \E f \in Fences, offset \in Offsets : TCreate(f, offset)

TSpec == TInit /\ [][TNext]_tvars
=============================================================================
