---------------------------- MODULE CircuitBreaker ----------------------------
(***************************************************************************)
(* What each of the guard's breakers promises the service: a half-open     *)
(* circuit breaker in which a verdict about LinkedIn, or about the         *)
(* server's session, is always the verdict of a single call that ran       *)
(* alone.                                                                  *)
(*                                                                         *)
(*   closed  : calls come and go; a result may open the circuit            *)
(*   cooling : no call comes in, the ones still out come back              *)
(*   ready   : the cooldown is over and nobody is out                      *)
(*   probing : one call is out, or was turned away before it reached       *)
(*             LinkedIn and nobody is                                      *)
(*                                                                         *)
(* The general breaker is asked first, and when it probes, the session     *)
(* breaker takes the call for anybody's: Shared is TRUE of a breaker to    *)
(* which that can happen.                                                  *)
(*                                                                         *)
(* Guard implements both (Guard.tla, CB and SB) whenever its calls are     *)
(* shorter than its cooldowns.                                             *)
(***************************************************************************)
EXTENDS FiniteSets

CONSTANTS Procs,
          Shared  \* whether another breaker's probe may come in

VARIABLES state,  \* of the circuit
          calls   \* the goroutines whose call is past the breaker

Init == state = "closed" /\ calls = {}

Admit(p) ==
  /\ state = "closed"
  /\ p \notin calls
  /\ calls' = calls \cup {p}
  /\ UNCHANGED state

\* A call comes back, with a result or turned away.  Results open a closed
\* circuit; they never close a cooling one.
Return(p) ==
  /\ state \in {"closed", "cooling"}
  /\ p \in calls
  /\ calls' = calls \ {p}
  /\ state' \in {state, "cooling"}

CoolDown ==
  /\ state = "cooling"
  /\ calls = {}
  /\ state' = "ready"
  /\ UNCHANGED calls

Probe(p) ==
  /\ state = "ready"
  /\ state' = "probing"
  /\ calls' = {p}

Verdict(p) ==
  /\ state = "probing"
  /\ calls = {p}
  /\ calls' = {}
  /\ state' \in {"closed", "cooling"}

\* The probe is turned away by another limit and no verdict ever comes.
Lose(p) ==
  /\ state = "probing"
  /\ calls = {p}
  /\ calls' = {}
  /\ UNCHANGED state

\* The call was another breaker's probe, and it says nothing of this circuit.
Decline(p) ==
  /\ Shared
  /\ state = "probing"
  /\ calls = {p}
  /\ calls' = {}
  /\ state' = "ready"

Next ==
  \/ \E p \in Procs : \/ Admit(p) \/ Return(p) \/ Probe(p)
                      \/ Verdict(p) \/ Lose(p) \/ Decline(p)
  \/ CoolDown

Spec == Init /\ [][Next]_<<state, calls>>
================================================================================
