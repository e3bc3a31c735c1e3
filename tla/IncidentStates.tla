--------------------------- MODULE IncidentStates ---------------------------
(***************************************************************************)
(* What internal/incidents promises of every incident: its state moves     *)
(* along the transition table and along nothing else.                      *)
(***************************************************************************)

CONSTANT Incident     \* incident ids

VARIABLE state        \* incidents.state, "none" before the row is inserted

State == {"detected", "acknowledged", "investigating", "mitigated", "resolved", "closed",
          "reopened"}

Transitions ==
    [detected      |-> {"acknowledged", "investigating", "mitigated", "resolved"},
     acknowledged  |-> {"investigating", "mitigated", "resolved"},
     investigating |-> {"mitigated", "resolved"},
     mitigated     |-> {"investigating", "resolved"},
     resolved      |-> {"closed", "reopened"},
     closed        |-> {"reopened"},
     reopened      |-> {"acknowledged", "investigating", "mitigated", "resolved"}]

ValidTransition(from, to) == from \in State /\ to \in Transitions[from]

IsOpen(s) == s \in State \ {"resolved", "closed"}

Init == state = [i \in Incident |-> "none"]

Detect(i) == state[i] = "none" /\ state' = [state EXCEPT ![i] = "detected"]

Move(i) ==
    \E to \in State : ValidTransition(state[i], to) /\ state' = [state EXCEPT ![i] = to]

Next == \E i \in Incident : Detect(i) \/ Move(i)

Spec == Init /\ [][Next]_state
=============================================================================
