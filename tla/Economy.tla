------------------------------ MODULE Economy ------------------------------
(***************************************************************************)
(* EconomyService: accounts with a balance, and the ledger of transactions *)
(* that should explain it.  A call reads the accounts, and writes balances *)
(* computed from what it read, with nothing in between that would keep     *)
(* other calls away:                                                       *)
(*   - createTransaction inserts a ledger row, then updates the account;   *)
(*   - transfer reads two accounts one after the other, then writes both   *)
(*     rows and both balances in one database transaction.                 *)
(***************************************************************************)
EXTENDS Integers

CONSTANTS
  Accounts,         \* the accounts that may be created
  Calls,            \* bound: calls of the service at the same time
  Types,            \* the types of transactions that are asked for
  Amounts,          \* bound: amounts that callers ask for
  MaxCalls          \* bound: calls that get past their checks

Credits == {"CREDIT", "REFUND", "TRANSFER_IN", "ADMIN_GRANT", "REWARD"}
Debits == {"DEBIT", "TRANSFER_OUT", "ADMIN_DEDUCT", "PENALTY"}
Transfer == "transfer"
NoAccount == "none"

\* The amount of a request is any number: only transfer checks that it is
\* positive.  A credit of a negative amount takes money.
ASSUME CallersAssumption ==
  /\ Types \subseteq Credits \union Debits
  /\ Amounts \subseteq Int
  /\ NoAccount \notin Accounts

VARIABLES
  accounts,   \* the accounts that exist
  balance,    \* their balance
  frozen,     \* those that are frozen
  \* the ledger: what the rows of an account say
  booked,     \* the sum of their amounts, debits negative
  afters,     \* their values of balanceAfter
  call,       \* the calls in progress
  \* history
  calls,      \* how many calls got past their checks
  uncovered,  \* accounts with a row that took money and was not checked
  raced,      \* accounts that two calls used at once
  torn,       \* accounts with a row whose balance update was lost
  excused     \* calls that had read an account before it was frozen

ledger == <<booked, afters, uncovered>>
history == <<calls, raced, torn, excused>>
vars == <<accounts, balance, frozen, ledger, call, history>>

CallState ==
  [at : {"idle", "book", "balance", "readTo", "commit"},
   type : Credits \union Debits \union {Transfer, "none"},
   from : Accounts \union {NoAccount}, to : Accounts \union {NoAccount},
   delta : Int, before : Int, toBefore : Int]
Idle ==
  [at |-> "idle", type |-> "none", from |-> NoAccount, to |-> NoAccount,
   delta |-> 0, before |-> 0, toBefore |-> 0]

Init ==
  /\ accounts = {}
  /\ balance = [a \in Accounts |-> 0]
  /\ frozen = {}
  /\ booked = [a \in Accounts |-> 0]
  /\ afters = [a \in Accounts |-> {}]
  /\ call = [c \in Calls |-> Idle]
  /\ calls = 0
  /\ uncovered = {}
  /\ raced = {}
  /\ torn = {}
  /\ excused = [a \in Accounts |-> {}]

Uses(c, a) == call[c].at # "idle" /\ a \in {call[c].from, call[c].to}
HasRead(c, a) ==
  \/ call[c].at # "idle" /\ a = call[c].from
  \/ call[c].at = "commit" /\ a = call[c].to

-----------------------------------------------------------------------------

\* A second account of a user is refused by the unique userId.
EnsureAccount(a) ==
  /\ a \notin accounts
  /\ accounts' = accounts \union {a}
  /\ UNCHANGED <<balance, frozen, ledger, call, history>>

\* A call of which the account a, and possibly b, are read and checked.
Start(c, r) ==
  /\ call[c] = Idle
  /\ calls < MaxCalls
  /\ calls' = calls + 1
  /\ call' = [call EXCEPT ![c] = r]
  /\ raced' = raced \union {a \in Accounts \intersect {r.from, r.to} : \E d \in Calls : Uses(d, a)}
  /\ excused' = [a \in Accounts |-> excused[a] \ {c}]
  /\ UNCHANGED <<accounts, balance, frozen, ledger, torn>>

Finish(c) == call' = [call EXCEPT ![c] = Idle]

Signed(t, n) == IF t \in Credits THEN n ELSE -n

\* Faulty: the new balance is checked for no type.
Unchecked(t, after) == TRUE

\* The types whose balanceAfter is checked.
Checked == Debits \ {"ADMIN_DEDUCT"}

Sufficient(t, after) == t \in Checked => after >= 0

\* createTransaction reads the account.
ReadAccount(c, a, t, n) ==
  /\ a \in accounts
  /\ a \notin frozen
  /\ Sufficient(t, balance[a] + Signed(t, n))
  /\ Start(c, [at |-> "book", type |-> t, from |-> a, to |-> NoAccount,
               delta |-> Signed(t, n), before |-> balance[a], toBefore |-> 0])

After(c) == call[c].before + call[c].delta
TakesUnchecked(r) == r.type \notin Checked /\ r.delta < 0

\* createTransaction inserts the row.
Book(c) ==
  LET a == call[c].from IN
  /\ call[c].at = "book"
  /\ booked' = [booked EXCEPT ![a] = @ + call[c].delta]
  /\ afters' = [afters EXCEPT ![a] = @ \union {After(c)}]
  /\ uncovered' = IF TakesUnchecked(call[c]) THEN uncovered \union {a} ELSE uncovered
  /\ call' = [call EXCEPT ![c].at = "balance"]
  /\ UNCHANGED <<accounts, balance, frozen, history>>

\* createTransaction updates the account.
UpdateBalance(c) ==
  /\ call[c].at = "balance"
  /\ balance' = [balance EXCEPT ![call[c].from] = After(c)]
  /\ Finish(c)
  /\ UNCHANGED <<accounts, frozen, ledger, history>>

\* transfer reads the source.  It checks it after it has read the
\* destination, but what it checks is what it read here.
ReadSource(c, a, b, n) ==
  /\ n > 0
  /\ a # b
  /\ a \in accounts
  /\ a \notin frozen
  /\ balance[a] >= n
  /\ Start(c, [at |-> "readTo", type |-> Transfer, from |-> a, to |-> b,
               delta |-> -n, before |-> balance[a], toBefore |-> 0])

\* Faulty: only the source must not be frozen.
ReadAnyDestination(c) ==
  LET b == call[c].to IN
  /\ call[c].at = "readTo"
  /\ IF b \in accounts
       THEN call' = [call EXCEPT ![c].at = "commit", ![c].toBefore = balance[b]]
       ELSE Finish(c)
  /\ UNCHANGED <<accounts, balance, frozen, ledger, history>>

\* transfer reads the destination and makes its checks.
ReadDestination(c) ==
  LET b == call[c].to IN
  /\ call[c].at = "readTo"
  /\ IF b \in accounts /\ b \notin frozen
       THEN call' = [call EXCEPT ![c].at = "commit", ![c].toBefore = balance[b]]
       ELSE Finish(c)
  /\ UNCHANGED <<accounts, balance, frozen, ledger, history>>

\* Faulty: the rows of both accounts, but the balance of the source only.
CommitSourceOnly(c) ==
  LET a == call[c].from
      b == call[c].to
      d == call[c].delta
  IN
  /\ call[c].at = "commit"
  /\ balance' = [balance EXCEPT ![a] = call[c].before + d]
  /\ booked' = [booked EXCEPT ![a] = @ + d, ![b] = @ - d]
  /\ afters' = [afters EXCEPT ![a] = @ \union {call[c].before + d},
                              ![b] = @ \union {call[c].toBefore - d}]
  /\ Finish(c)
  /\ UNCHANGED <<accounts, frozen, uncovered, history>>

\* Faulty: the row of the destination has the balance before the transfer.
CommitBefore(c) ==
  LET a == call[c].from
      b == call[c].to
      d == call[c].delta
  IN
  /\ call[c].at = "commit"
  /\ balance' = [balance EXCEPT ![a] = call[c].before + d, ![b] = call[c].toBefore - d]
  /\ booked' = [booked EXCEPT ![a] = @ + d, ![b] = @ - d]
  /\ afters' = [afters EXCEPT ![a] = @ \union {call[c].before + d},
                              ![b] = @ \union {call[c].toBefore}]
  /\ Finish(c)
  /\ UNCHANGED <<accounts, frozen, uncovered, history>>

\* The database transaction of a transfer: two rows, two balances.
Commit(c) ==
  LET a == call[c].from
      b == call[c].to
      d == call[c].delta
  IN
  /\ call[c].at = "commit"
  /\ balance' = [balance EXCEPT ![a] = call[c].before + d, ![b] = call[c].toBefore - d]
  /\ booked' = [booked EXCEPT ![a] = @ + d, ![b] = @ - d]
  /\ afters' = [afters EXCEPT ![a] = @ \union {call[c].before + d},
                              ![b] = @ \union {call[c].toBefore - d}]
  /\ Finish(c)
  /\ UNCHANGED <<accounts, frozen, uncovered, history>>

\* A database call throws, or the process stops.
Fail(c) ==
  /\ call[c].at # "idle"
  /\ torn' = IF call[c].at = "balance" THEN torn \union {call[c].from} ELSE torn
  /\ Finish(c)
  /\ UNCHANGED <<accounts, balance, frozen, ledger, calls, raced, excused>>

Freeze(a) ==
  /\ a \in accounts
  /\ a \notin frozen
  /\ frozen' = frozen \union {a}
  /\ excused' = [excused EXCEPT ![a] = {c \in Calls : HasRead(c, a)}]
  /\ UNCHANGED <<accounts, balance, ledger, call, calls, raced, torn>>

Unfreeze(a) ==
  /\ a \in frozen
  /\ frozen' = frozen \ {a}
  /\ UNCHANGED <<accounts, balance, ledger, call, history>>

-----------------------------------------------------------------------------

Begin(c) ==
  \/ \E a \in Accounts, t \in Types, n \in Amounts : ReadAccount(c, a, t, n)
  \/ \E a, b \in Accounts, n \in Amounts : ReadSource(c, a, b, n)

Continue(c) == Book(c) \/ UpdateBalance(c) \/ ReadDestination(c) \/ Commit(c)

Next ==
  \/ \E a \in Accounts : EnsureAccount(a) \/ Freeze(a) \/ Unfreeze(a)
  \/ \E c \in Calls : Begin(c) \/ Continue(c) \/ Fail(c)

Spec == Init /\ [][Next]_vars

-----------------------------------------------------------------------------
(* Properties *)

\* Balances are integers, and an account that is not there has no money, no
\* rows and no flag.
TypeOK ==
  /\ accounts \subseteq Accounts
  /\ balance \in [Accounts -> Int]
  /\ frozen \subseteq accounts
  /\ booked \in [Accounts -> Int]
  /\ afters \in [Accounts -> SUBSET Int]
  /\ call \in [Calls -> CallState]
  /\ calls \in Nat
  /\ uncovered \subseteq Accounts
  /\ raced \subseteq Accounts
  /\ torn \subseteq Accounts
  /\ excused \in [Accounts -> SUBSET Calls]
  /\ \A a \in Accounts \ accounts : balance[a] = 0 /\ booked[a] = 0 /\ afters[a] = {}

\* Whatever the races, an account is below zero only if the ledger has a row of
\* it that took money without the check: an ADMIN_DEDUCT, or a credit of a
\* negative amount, which createTransaction does not refuse.  No debit and no
\* transfer overdraws an account that had no such row.
OverdraftIsExplained ==
  \A a \in Accounts : balance[a] < 0 => a \in uncovered

\* Whatever the races and the faults, a balance is the balanceAfter of a row
\* of the ledger, or the zero of a new account.
EveryBalanceIsBooked ==
  \A a \in Accounts : balance[a] \in afters[a] \union {0}

\* The rows of an account add up to its balance while no call uses it, unless
\* two calls used it at once, or the update after a row was lost.
LedgerExplainsBalance ==
  \A a \in Accounts \ (raced \union torn) :
    (\A c \in Calls : ~Uses(c, a)) => balance[a] = booked[a]

\* A freeze takes effect at once, but for the calls that had read the account
\* before it: no other call is on its way to change the balance.
FreezeHolds ==
  \A a \in frozen, c \in Calls :
    HasRead(c, a) => c \in excused[a]
=============================================================================
