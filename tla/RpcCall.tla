------------------------------ MODULE RpcCall ------------------------------
(* What a client of a speedysvc service is promised of its calls, one at a *)
(* time: the service runs the method once for each call, and the call      *)
(* returns what that run produced, a result or an exception.               *)

CONSTANTS Request,     \* what a client may ask for
          NoRequest,   \* no call is in progress
          NoReply      \* the method has not run

VARIABLES call,        \* the request of the call in progress
          outcome,     \* what the run of the method produced
          answer       \* what the last finished call returned

vars == <<call, outcome, answer>>

Reply == [to : Request, kind : {"+", "-"}]

Init == call = NoRequest /\ outcome = NoReply /\ answer = NoReply

Call(r) ==
    /\ call = NoRequest
    /\ call' = r
    /\ outcome' = NoReply
    /\ answer' = NoReply

Run(k) ==
    /\ call # NoRequest
    /\ outcome = NoReply
    /\ outcome' = [to |-> call, kind |-> k]
    /\ UNCHANGED <<call, answer>>

Return ==
    /\ call # NoRequest
    /\ outcome # NoReply
    /\ call' = NoRequest
    /\ answer' = outcome
    /\ UNCHANGED outcome

Next ==
    \/ \E r \in Request : Call(r)
    \/ \E k \in {"+", "-"} : Run(k)
    \/ Return

Spec == Init /\ [][Next]_vars
=============================================================================
