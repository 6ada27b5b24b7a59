-------------------------- MODULE PerformContract --------------------------
(***************************************************************************)
(* What Multi.perform() promises its caller (lib/Multi.ts, the comment of  *)
(* perform): one promise per call, settled once, by the outcome of that    *)
(* call's own request.  A call whose multi is closed under it is abandoned.*)
(* MultiHandle implements this for callers that keep their handles and     *)
(* remove only handles whose result they have seen.                        *)
(***************************************************************************)
CONSTANT Transfers

VARIABLES
  phase,     \* of the caller's promise
  answer,    \* what the network made of the request
  threw      \* one of the request's callbacks threw, or one for a duplicate of its handle

vars == <<phase, answer, threw>>

Init ==
  /\ phase = [t \in Transfers |-> "idle"]
  /\ answer = [t \in Transfers |-> "none"]
  /\ threw = [t \in Transfers |-> FALSE]

Start(t) ==
  /\ phase[t] = "idle"
  /\ phase' = [phase EXCEPT ![t] = "waiting"]
  /\ UNCHANGED <<answer, threw>>

\* Also after the answer, which the caller does not know of yet.
Throw(t) ==
  /\ phase[t] = "waiting"
  /\ threw' = [threw EXCEPT ![t] = TRUE]
  /\ UNCHANGED <<phase, answer>>

Answer(t, code) ==
  /\ phase[t] = "waiting" /\ answer[t] = "none"
  /\ answer' = [answer EXCEPT ![t] = code]
  /\ UNCHANGED <<phase, threw>>

Verdict(t) == IF threw[t] THEN "aborted"
              ELSE IF answer[t] = "ok" THEN "resolved" ELSE "rejected"

Settle(t) ==
  /\ phase[t] = "waiting" /\ answer[t] # "none"
  /\ phase' = [phase EXCEPT ![t] = Verdict(t)]
  /\ UNCHANGED <<answer, threw>>

\* Closing a multi abandons every call still waiting in it.
Abandon(S) ==
  /\ \A t \in S : phase[t] = "waiting"
  /\ phase' = [t \in Transfers |-> IF t \in S THEN "abandoned" ELSE phase[t]]
  /\ UNCHANGED <<answer, threw>>

Next ==
  \/ \E t \in Transfers :
       \/ Start(t)
       \/ Throw(t)
       \/ \E code \in {"ok", "failed"} : Answer(t, code)
       \/ Settle(t)
  \/ \E S \in SUBSET Transfers : Abandon(S)

\* An answered call does not wait for ever.
Spec == Init /\ [][Next]_vars /\ \A t \in Transfers : WF_vars(Settle(t))
=============================================================================
