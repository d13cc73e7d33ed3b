------------------------------ MODULE Staffing ------------------------------
(***************************************************************************)
(* StaffService.create and update: a member has isActive, their user has   *)
(* isStaff, and each is written by a call of its own; the bot's guard      *)
(* reads isStaff.                                                          *)
(***************************************************************************)
EXTENDS Naturals

CONSTANTS
  Persons,    \* users
  StaffCalls  \* calls of StaffService in progress at the same time

VARIABLES
  member,    \* member[u]: "none", or isActive of the member of user u
  isStaff,   \* isStaff[u]
  staffCall, \* the calls
  skewed     \* skewed[u]: since the last call that wrote both flags with nothing in between,
             \* another call wrote in between, or one was lost between its writes

staffVars == <<member, isStaff, staffCall, skewed>>

NoCall == [pc |-> "idle", op |-> "none", user |-> "none"]

StaffInit ==
  /\ member = [u \in Persons |-> "none"]
  /\ isStaff = [u \in Persons |-> FALSE]
  /\ staffCall = [c \in StaffCalls |-> NoCall]
  /\ skewed = isStaff

Between(u) == {c \in StaffCalls : staffCall[c].pc = "flag" /\ staffCall[c].user = u}

\* Faulty: only activate and create go on to the user's flag.
LazyNextWrite(op) == IF op \in {"edit", "deactivate"} THEN "tell" ELSE "flag"

\* update goes on to the user's flag when isActive is given.
NextWrite(op) == IF op = "edit" THEN "tell" ELSE "flag"

\* The checks: there is a member already; there is no such member.
Admit(c, op, u) ==
  /\ staffCall[c] = NoCall
  /\ (op = "create") <=> (member[u] = "none")
  /\ staffCall' = [staffCall EXCEPT ![c] = [pc |-> "write", op |-> op, user |-> u]]
  /\ UNCHANGED <<member, isStaff, skewed>>

\* member.create, of which a user can have one row, or member.update.
WriteMember(c) ==
  LET u == staffCall[c].user
      op == staffCall[c].op
  IN /\ staffCall[c].pc = "write"
     /\ op = "create" => member[u] = "none"
     /\ member' = [member EXCEPT ![u] =
          CASE op = "deactivate" -> "inactive" [] op = "edit" -> @ [] OTHER -> "active"]
     /\ skewed' = [skewed EXCEPT ![u] = IF op = "edit" THEN @ ELSE Between(u) # {}]
     /\ staffCall' = [staffCall EXCEPT ![c].pc = NextWrite(op)]
     /\ UNCHANGED isStaff

WriteUser(c) ==
  /\ staffCall[c].pc = "flag"
  /\ isStaff' = [isStaff EXCEPT ![staffCall[c].user] = staffCall[c].op # "deactivate"]
  /\ staffCall' = [staffCall EXCEPT ![c].pc = "tell"]
  /\ UNCHANGED <<member, skewed>>

\* staff:created, staff:updated, staff:deactivated and publishStaffSuspended.
Tell(c) ==
  /\ staffCall[c].pc = "tell"
  /\ staffCall' = [staffCall EXCEPT ![c] = NoCall]
  /\ UNCHANGED <<member, isStaff, skewed>>

\* A call of the database fails, a second create of the member among them, or the process ends.
LoseCall(c) ==
  /\ staffCall[c] # NoCall
  /\ skewed' = IF staffCall[c].pc = "flag" THEN [skewed EXCEPT ![staffCall[c].user] = TRUE] ELSE skewed
  /\ staffCall' = [staffCall EXCEPT ![c] = NoCall]
  /\ UNCHANGED <<member, isStaff>>

StaffNext ==
  \E c \in StaffCalls :
    \/ \E u \in Persons, op \in {"create", "activate", "deactivate", "edit"} : Admit(c, op, u)
    \/ WriteMember(c)
    \/ WriteUser(c)
    \/ Tell(c)
    \/ LoseCall(c)

StaffSpec == StaffInit /\ [][StaffNext]_staffVars

-----------------------------------------------------------------------------
StaffCallStates ==
  [pc: {"idle", "write", "flag", "tell"}, op: {"none", "create", "activate", "deactivate", "edit"},
   user: Persons \union {"none"}]

StaffTypeOK ==
  /\ member \in [Persons -> {"none", "active", "inactive"}]
  /\ isStaff \in [Persons -> BOOLEAN] /\ skewed \in [Persons -> BOOLEAN]
  /\ staffCall \in [StaffCalls -> StaffCallStates]

\* The flag the bot's guard reads is the member's own, but while a call is between its two
\* writes, and from a call that was lost or overtaken there until one that was neither
\* (StaffService.create, update; staffGuard).
StaffFlagsAgree ==
  \A u \in Persons :
    ~skewed[u] /\ Between(u) = {} => (isStaff[u] <=> member[u] = "active")
=============================================================================
