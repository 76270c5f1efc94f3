----------------------------- MODULE MCRequests -----------------------------
(***************************************************************************)
(* What stands before an application's work: the throttler of MCThrottler, *)
(* or the CSRF tokens of a browser, for two tabs or for one tab during a   *)
(* rotation of keys.  cast says which of them a behaviour is about.        *)
(***************************************************************************)
EXTENDS MCThrottler, Csrf

VARIABLE cast

\* The servers differ only during a rotation.
SomeServer == CHOOSE s \in Servers : TRUE

LoneTab == CHOOSE t \in Tabs : TRUE

RequestsInit ==
    /\ MCInit /\ CsrfInit
    /\ cast \in {"throttler", "tabs", "rotation"}
    /\ identity = CHOOSE i \in Identities : TRUE
    /\ IF cast = "throttler" THEN layered ELSE taking = Callers

WebStep ==
    \/ cast = "tabs" /\ \E t \in Tabs : Browsing(t, {SomeServer})
    \/ cast = "rotation" /\ (Browsing(LoneTab, Servers) \/ Deployment)
    \/ cast \in {"tabs", "rotation"} /\ Time

RequestsNext ==
    /\ UNCHANGED cast
    /\ \/ cast = "throttler" /\ MCNext /\ UNCHANGED csrfVars
       \/ WebStep /\ UNCHANGED <<vars, taking>>

RequestsSpec == RequestsInit /\ [][RequestsNext]_<<vars, taking, csrfVars, cast>>
=============================================================================
