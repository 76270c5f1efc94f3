------------------------------ MODULE FencedLock ------------------------------
(***************************************************************************)
(* What src/src/db/lease promises to its users, without statements,        *)
(* sessions, tokens or a clock: one lock whose grants carry ever larger    *)
(* fencing tokens.  A grant ends when its owner gives it up, or, once it   *)
(* has lapsed, when another grant replaces it.                             *)
(***************************************************************************)
EXTENDS Integers

VARIABLES
    fence,    \* the fencing token of the grant in the row; 0 when there is no row
    live,     \* whether that grant has not lapsed
    last      \* the largest fencing token ever handed out

lockVars == <<fence, live, last>>

LockInit == fence = 0 /\ live = FALSE /\ last = 0

\* A new grant, over no row or over a lapsed one.  Its own time may have run
\* out before it is stored, when the claim waited for the row.
Grant ==
    /\ ~ live
    /\ last' > last
    /\ fence' = last'
    /\ live' \in BOOLEAN

\* A fencing token is drawn and not granted: the claim lost the race for the row.
Burn == last' > last /\ UNCHANGED <<fence, live>>

\* A renewal; one that waited for the row may revive a grant that has lapsed
\* meanwhile, as long as nobody replaced it.
Renew == fence # 0 /\ live' \in BOOLEAN /\ UNCHANGED <<fence, last>>

Release == fence' = 0 /\ live' = FALSE /\ UNCHANGED last

Lapse == live' = FALSE /\ UNCHANGED <<fence, last>>

LockNext == Grant \/ Burn \/ Renew \/ Release \/ Lapse

LockSpec == LockInit /\ [][LockNext]_lockVars
=============================================================================
