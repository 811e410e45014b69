------------------------------ MODULE MCCommands ------------------------------
(* Small instances of the two halves of running a command: where its standard *)
(* descriptors go, and which program its name is. A run follows one of them.  *)
EXTENDS Redirection, CommandPath

CONSTANTS Subjects, o1, usr, home, c1, c2, unset

VARIABLE subject

MCFile == {"in", "out", "err", "file", "pipe"}
MCObj == {o1}
MCRedirArg == {<<"IN_2_FILE", "file">>, <<"OUT_2_FILE", "missing">>,
               <<"MERGE_ERR_2_OUT_2_FILE", o1>>, <<"HERE_STR", "long">>}
MCCmd == {c1, c2}
MCDir == {usr, home}
MCPathValue == {<<home, usr>>, <<home>>}
MCDefault == <<usr>>

Frozen ==
  /\ files = [d \in Dir |-> [c \in Cmd |-> "absent"]]
  /\ path = Unset /\ handler = FALSE

vars == <<subject, redirVars, pathVars>>
Init == /\ subject \in Subjects /\ RedirInit /\ PathInit
        /\ subject = "redirection" => Frozen
Next ==
  \/ subject = "redirection" /\ RedirNext /\ UNCHANGED <<subject, pathVars>>
  \/ subject = "path" /\ PathNext /\ UNCHANGED <<subject, redirVars>>
Spec == Init /\ [][Next]_vars
===============================================================================
