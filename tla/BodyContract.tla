---------------------------- MODULE BodyContract ----------------------------
(***************************************************************************)
(* What a Body promises the server that sends it (http_body::Body as       *)
(* implemented in src/src/body.rs): it hands over exactly the bytes it     *)
(* announced or fails; it ends only when nothing is left; nothing follows  *)
(* the end or a failure; and the completion hook runs once, with whatever  *)
(* comes first of end, failure and drop.                                   *)
(***************************************************************************)
EXTENDS Integers

VARIABLES
    left,    \* bytes announced (size_hint) and not yet handed over
    given,   \* bytes handed over
    status,  \* "open", or how the body was over: "ended", "failed", "dropped"
    calls    \* times the completion hook has run

vars == <<left, given, status, calls>>

Init ==
    /\ left \in Nat
    /\ given = 0
    /\ status = "open"
    /\ calls = 0

Deliver ==
    /\ status = "open"
    /\ left' \in 0 .. left
    /\ given' = given + (left - left')
    /\ UNCHANGED <<status, calls>>

Close(how) ==
    /\ status = "open"
    /\ status' = how
    /\ calls' = 1
    /\ left' = 0
    /\ UNCHANGED given

End  == left = 0 /\ Close("ended")
Fail == Close("failed")
Drop == Close("dropped")

Next == Deliver \/ End \/ Fail \/ Drop

Spec == Init /\ [][Next]_vars
=============================================================================
