----------------------------- MODULE MCWorkflow -----------------------------
(***************************************************************************)
(* Items share no state with each other, nor with users, so TLC explores a *)
(* ticket, a case, an investigation and the users one at a time: focus is  *)
(* the item that is created, or "users".                                   *)
(***************************************************************************)
EXTENDS Workflow, Moderation

VARIABLE focus

FocusInit == Init /\ ModInit /\ focus \in Items \union {"users"}

FocusNext ==
  /\ UNCHANGED focus
  /\ \/ Next /\ UNCHANGED modVars /\ \A i \in Items \ {focus} : status'[i] = Absent
     \/ ModNext /\ UNCHANGED vars /\ focus = "users"

FocusSpec == FocusInit /\ [][FocusNext]_<<vars, modVars, focus>>
=============================================================================
