---------------------------- MODULE NoticeBoard ----------------------------
(***************************************************************************)
(* What the notification dispatcher promises to the sync pipeline, with    *)
(* nothing said of audiences, attempts or failures: an event that names a  *)
(* user is resolved only after a notice for that user was stored in the    *)
(* same dispatch; notices are stored in dispatches alone; what was         *)
(* rejected, or resolved and not recorded as such, is begun again with the *)
(* same event.  It promises nothing about Telegram: a stored notice is in  *)
(* the user's list, whether or not a message told of it.                   *)
(*                                                                         *)
(* Notices implements it: see Board in that module.                        *)
(***************************************************************************)
EXTENDS Naturals

CONSTANTS
  Users,
  Jobs,    \* dispatches
  Targets, \* what an event can name: Users, what is no user, or Nobody
  Nobody

VARIABLES
  phase,    \* phase[d]: "idle", "working", "rejected" or "resolved"
  named,    \* named[d]: whom the event names, Nobody when it is for an audience
  stored,  \* stored[d]: the users for whom this dispatch stored a notice
  rows      \* rows[u]: notices stored for u

boardVars == <<phase, named, stored, rows>>

Init ==
  /\ phase = [d \in Jobs |-> "idle"]
  /\ named = [d \in Jobs |-> Nobody]
  /\ stored = [d \in Jobs |-> {}]
  /\ rows = [u \in Users |-> 0]

\* An event that names no one may be for no audience either.
Begin(d, who) ==
  /\ phase[d] \in {"idle", "rejected"}
  /\ phase[d] = "rejected" => who = named[d]
  /\ \E p \in {"working"} \union (IF who = Nobody THEN {"resolved"} ELSE {}) : phase' = [phase EXCEPT ![d] = p]
  /\ named' = [named EXCEPT ![d] = who]
  /\ stored' = [stored EXCEPT ![d] = {}]
  /\ UNCHANGED rows

Store(d, u) ==
  /\ phase[d] = "working"
  /\ stored' = [stored EXCEPT ![d] = @ \union {u}]
  /\ rows' = [rows EXCEPT ![u] = @ + 1]
  /\ UNCHANGED <<phase, named>>

\* A row whose insert reported an error is there, and does not count.
Stray(d, u) ==
  /\ phase[d] = "working"
  /\ rows' = [rows EXCEPT ![u] = @ + 1]
  /\ \/ UNCHANGED <<phase, stored>>
     \/ phase' = [phase EXCEPT ![d] = "rejected"] /\ stored' = [stored EXCEPT ![d] = {}]
  /\ UNCHANGED named

\* Also after a dispatch whose end was never recorded.
Reject(d) ==
  /\ phase[d] \in {"working", "resolved"}
  /\ phase' = [phase EXCEPT ![d] = "rejected"]
  /\ stored' = [stored EXCEPT ![d] = {}]
  /\ UNCHANGED <<named, rows>>

Resolve(d) ==
  /\ phase[d] = "working"
  /\ named[d] # Nobody => named[d] \in stored[d]
  /\ phase' = [phase EXCEPT ![d] = "resolved"]
  /\ UNCHANGED <<named, stored, rows>>

Next ==
  \E d \in Jobs :
    \/ \E who \in Targets : Begin(d, who)
    \/ \E u \in Users : Store(d, u) \/ Stray(d, u)
    \/ Reject(d)
    \/ Resolve(d)

Spec == Init /\ [][Next]_boardVars
=============================================================================
