----------------------------- MODULE StateMachine -----------------------------
(***************************************************************************)
(* The transition table of src/core/state_machine.cpp.  dispatch() looks   *)
(* the pair (state, event) up under its lock; a pair that is not in the    *)
(* table changes nothing.                                                  *)
(***************************************************************************)
EXTENDS FiniteSets

States == {"Init", "Configuring", "Running", "Fault", "Stopped"}
Events == {"ConfigLoaded", "Start", "Stop", "SerialError", "SerialRecovered", "Fatal"}

Rules ==
    {<<"Init",        "ConfigLoaded",    "Configuring">>,
     <<"Configuring", "Start",           "Running">>,
     <<"Running",     "Stop",            "Stopped">>,
     <<"Running",     "SerialError",     "Fault">>,
     <<"Fault",       "SerialRecovered", "Running">>,
     <<"Fault",       "Stop",            "Stopped">>}
    \cup {<<s, "Fatal", "Stopped">> : s \in States}

\* The state after dispatch(ev) in state s.
After(s, ev) ==
    IF \E to \in States : <<s, ev, to>> \in Rules
    THEN CHOOSE to \in States : <<s, ev, to>> \in Rules
    ELSE s
=============================================================================
