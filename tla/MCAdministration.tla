-------------------------- MODULE MCAdministration --------------------------
(* Who may do what, for TLC: accounts (Access), the tokens of workers      *)
(* (RunTokens) and the configuration that instances share (ConfigShare).   *)
(* They share no state, so a behaviour is one of the three.                *)
EXTENDS Access, RunTokens, ConfigShare

VARIABLE part

Init == AccessInit /\ TokenInit /\ ConfigInit /\ part \in {"access", "tokens", "config"}
Next ==
    \/ part = "access" /\ AccessNext /\ UNCHANGED <<TokenVars, ConfigVars, part>>
    \/ part = "tokens" /\ TokenNext /\ UNCHANGED <<AccessVars, ConfigVars, part>>
    \/ part = "config" /\ ConfigNext /\ UNCHANGED <<AccessVars, TokenVars, part>>
Spec == Init /\ [][Next]_<<AccessVars, TokenVars, ConfigVars, part>>

CONSTANTS a, b, k1, k2, t1, t2, s1, p1

Keys == [i \in Instances |-> IF i = a THEN k1 ELSE k2]
PacksElsewhere == [i \in Instances |-> IF i = a THEN {} ELSE {p1}]
EarlierCopy ==
    [key |-> k1, secrets |-> TRUE,
     targets |-> [t \in {t1} |-> [conn |-> 1, secret |-> k1]],
     specs |-> [s \in {s1} |-> [target |-> t1, pack |-> p1, rate |-> 1]]]
=============================================================================
