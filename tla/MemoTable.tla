----------------------------- MODULE MemoTable -----------------------------
(***************************************************************************)
(* What Engine.GetModule promises, as an atomic object: the first call for *)
(* an id whose bytes can be loaded decides the module of that id, and      *)
(* every other call for the id, before or after, answers with that module. *)
(* A call whose bytes cannot be loaded fails only while there is no module.*)
(***************************************************************************)
CONSTANTS Runner, Plugin, Artefact, Loadable, NoModule

VARIABLES table, call

memoVars == <<table, call>>

NoCall == [at |-> "idle", id |-> NoModule, bytes |-> NoModule, res |-> NoModule]

Init ==
    /\ table = [p \in Plugin |-> NoModule]
    /\ call = [r \in Runner |-> NoCall]

Invoke(r, p, b) ==
    /\ call[r].at = "idle"
    /\ call' = [call EXCEPT ![r] = [at |-> "called", id |-> p, bytes |-> b,
                                    res |-> NoModule]]
    /\ UNCHANGED table

\* res = NoModule is the error.
Answer(r) ==
    LET p == call[r].id
        b == call[r].bytes
    IN  /\ call[r].at = "called"
        /\ table' = IF table[p] = NoModule /\ b \in Loadable
                    THEN [table EXCEPT ![p] = b] ELSE table
        /\ call' = [call EXCEPT ![r] = [at |-> "answered", id |-> p, bytes |-> b,
                                        res |-> table'[p]]]

Return(r) ==
    /\ call[r].at = "answered"
    /\ call' = [call EXCEPT ![r] = NoCall]
    /\ UNCHANGED table

Next ==
    \E r \in Runner :
        \/ \E p \in Plugin, b \in Artefact : Invoke(r, p, b)
        \/ Answer(r)
        \/ Return(r)

SafeSpec == Init /\ [][Next]_memoVars

\* Every call is answered and returns.
Spec == SafeSpec /\ \A r \in Runner : WF_memoVars(Answer(r) \/ Return(r))
=============================================================================
