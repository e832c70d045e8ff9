------------------------------- MODULE RiotCall -------------------------------
(***************************************************************************)
(* What RiotTransport.get_json promises to RiotClient and the refresh: a   *)
(* call that was begun ends, once, with the payload, with a RiotApiError   *)
(* or with a RiotClientError, and always does.  Attempts, delays and the   *)
(* host's bucket are the business of RiotTransport, which has this         *)
(* module's FairSpec as a property.                                        *)
(***************************************************************************)
CONSTANT Callers

VARIABLE result   \* what each caller's call has come to

Ends == {"payload", "api_error", "client_error"}

Init == result = [c \in Callers |-> "not_begun"]

Begin(c) ==
  /\ result[c] = "not_begun"
  /\ result' = [result EXCEPT ![c] = "pending"]

End(c) ==
  /\ result[c] = "pending"
  /\ \E end \in Ends : result' = [result EXCEPT ![c] = end]

Next == \E c \in Callers : Begin(c) \/ End(c)

Spec == Init /\ [][Next]_result

FairSpec == Spec /\ \A c \in Callers : WF_result(End(c))
=============================================================================
