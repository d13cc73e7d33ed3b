--------------------------- MODULE Economy_proofs ---------------------------
(***************************************************************************)
(* Proofs about Economy, for any accounts, amounts and calls.              *)
(***************************************************************************)
EXTENDS Economy, TLAPS

USE CallersAssumption

\* What a call may rely on: the account it read is there, and the balances it
\* is about to write are covered.
CallOK(c) ==
  LET r == call[c] IN
  /\ r.at = "idle" => r = Idle
  /\ r.at # "idle" => r.from \in accounts
  /\ r.at \in {"book", "balance"} => r.to = NoAccount
  /\ r.at = "book" => r.before + r.delta >= 0 \/ TakesUnchecked(r) \/ r.from \in uncovered
  /\ r.at = "balance" =>
       /\ r.before + r.delta >= 0 \/ r.from \in uncovered
       /\ r.before + r.delta \in afters[r.from]
  /\ r.at \in {"readTo", "commit"} =>
       r.to \in Accounts /\ r.to # r.from /\ r.delta <= 0 /\ r.before + r.delta >= 0
  /\ r.at = "commit" => r.to \in accounts /\ (r.toBefore >= 0 \/ r.to \in uncovered)

CallsOK == \A c \in Calls : CallOK(c)

\* While one call at a time uses an account, what it has read is the balance,
\* and the ledger is ahead by the row it has inserted, if it has.
AccountOK(a) ==
  a \notin raced \union torn =>
    /\ \A c, d \in Calls : Uses(c, a) /\ Uses(d, a) => c = d
    /\ (\A c \in Calls : ~Uses(c, a)) => balance[a] = booked[a]
    /\ \A c \in Calls : Uses(c, a) =>
         /\ call[c].at = "balance" => booked[a] = balance[a] + call[c].delta
         /\ call[c].at # "balance" => booked[a] = balance[a]
         /\ a = call[c].from => call[c].before = balance[a]
         /\ a = call[c].to /\ call[c].at = "commit" => call[c].toBefore = balance[a]

AccountsOK == \A a \in Accounts : AccountOK(a)

IInv ==
  /\ TypeOK
  /\ CallsOK
  /\ AccountsOK
  /\ OverdraftIsExplained
  /\ EveryBalanceIsBooked
  /\ FreezeHolds

\* No account, no row and no call at first.
THEOREM InitIInv == Init => IInv
<1> SUFFICES ASSUME Init PROVE IInv
  OBVIOUS
<1> USE DEF Init
<1>1. Idle \in CallState
  BY DEF Idle, CallState
<1>2. TypeOK
  BY <1>1 DEF TypeOK
<1>3. \A c \in Calls : call[c] = Idle /\ Idle.at = "idle"
  BY DEF Idle
<1>4. CallsOK
  BY <1>3 DEF CallsOK, CallOK
<1>5. AccountsOK /\ FreezeHolds
  BY <1>3 DEF AccountsOK, AccountOK, FreezeHolds, Uses
<1>6. OverdraftIsExplained /\ EveryBalanceIsBooked
  BY DEF OverdraftIsExplained, EveryBalanceIsBooked
<1>7. QED BY <1>2, <1>4, <1>5, <1>6 DEF IInv

-----------------------------------------------------------------------------
(* The parts of a step *)

\* What ending a call changes.
LEMMA Finished ==
  ASSUME call \in [Calls -> CallState], NEW c \in Calls, Finish(c)
  PROVE  /\ call' \in [Calls -> CallState]
         /\ call'[c] = Idle /\ call'[c].at = "idle"
         /\ \A d \in Calls : d # c => call'[d] = call[d]
<1>1. Idle \in CallState /\ Idle.at = "idle"
  BY DEF Idle, CallState
<1>2. QED BY <1>1 DEF Finish

\* A call that does not move can rely on what it relied on.
LEMMA CallKeeps ==
  ASSUME IInv, NEW d \in Calls, call'[d] = call[d],
         accounts \subseteq accounts', uncovered \subseteq uncovered',
         \A a \in Accounts : afters[a] \subseteq afters'[a]
  PROVE  CallOK(d)'
<1>1. CallOK(d)
  BY DEF IInv, CallsOK
<1>2. call[d].at # "idle" => call[d].from \in Accounts
  BY <1>1 DEF IInv, TypeOK, CallOK
<1>3. QED BY <1>1, <1>2 DEF CallOK

\* An account that no moving call uses stays in order.
LEMMA AccountKeeps ==
  ASSUME IInv, NEW a \in Accounts, balance'[a] = balance[a], booked'[a] = booked[a],
         raced \subseteq raced', torn \subseteq torn',
         \A d \in Calls : Uses(d, a) \/ Uses(d, a)' => call'[d] = call[d]
  PROVE  AccountOK(a)'
<1>1. AccountOK(a)
  BY DEF IInv, AccountsOK
<1>2. \A d \in Calls : Uses(d, a)' <=> Uses(d, a)
  BY DEF Uses
<1>3. QED BY <1>1, <1>2 DEF AccountOK

\* A frozen account, when no call reads it and no account is frozen.
LEMMA FreezeKeeps ==
  ASSUME IInv, frozen' = frozen, excused' = excused,
         \A d \in Calls, a \in frozen : HasRead(d, a)' => HasRead(d, a)
  PROVE  FreezeHolds'
BY DEF IInv, FreezeHolds

-----------------------------------------------------------------------------
(* The actions *)

\* Creating, freezing and unfreezing move no call and no money.
LEMMA AccountActionIInv ==
  ASSUME IInv, NEW a \in Accounts, EnsureAccount(a) \/ Freeze(a) \/ Unfreeze(a)
  PROVE  IInv'
<1> USE DEF IInv, ledger, history
<1>1. /\ UNCHANGED <<balance, booked, afters, uncovered, call, calls, raced, torn>>
      /\ accounts \subseteq accounts' /\ accounts' \subseteq Accounts
      /\ frozen' \subseteq accounts'
      /\ \/ frozen' \subseteq frozen /\ excused' = excused
         \/ /\ frozen' = frozen \union {a}
            /\ excused' = [excused EXCEPT ![a] = {c \in Calls : HasRead(c, a)}]
  BY DEF EnsureAccount, Freeze, Unfreeze, TypeOK
<1>2. TypeOK'
  BY <1>1 DEF TypeOK
<1>3. CallsOK'
  BY <1>1, CallKeeps DEF CallsOK
<1>4. AccountsOK'
  BY <1>1, AccountKeeps DEF AccountsOK
<1>5. OverdraftIsExplained' /\ EveryBalanceIsBooked'
  BY <1>1 DEF OverdraftIsExplained, EveryBalanceIsBooked
<1>6. \A d \in Calls, b \in Accounts : HasRead(d, b)' <=> HasRead(d, b)
  BY <1>1 DEF HasRead
<1>7. FreezeHolds'
  BY <1>1, <1>6 DEF FreezeHolds, TypeOK
<1>8. QED BY <1>2, <1>3, <1>4, <1>5, <1>7

\* A call that starts races if another one uses an account of it.
LEMMA StartIInv ==
  ASSUME IInv, NEW c \in Calls, NEW r \in CallState, Start(c, r),
         r.at \in {"book", "readTo"},
         r.from \in accounts, r.from \notin frozen, r.before = balance[r.from],
         r.at = "book" =>
           /\ r.to = NoAccount
           /\ r.before + r.delta >= 0 \/ TakesUnchecked(r) \/ r.from \in uncovered,
         r.at = "readTo" =>
           r.to \in Accounts /\ r.to # r.from /\ r.delta <= 0 /\ r.before + r.delta >= 0
  PROVE  IInv'
<1> USE DEF IInv, ledger
<1>1. /\ UNCHANGED <<accounts, balance, frozen, booked, afters, uncovered, torn>>
      /\ call[c] = Idle /\ call' = [call EXCEPT ![c] = r] /\ calls' = calls + 1
      /\ raced' = raced \union
           {a \in Accounts \intersect {r.from, r.to} : \E d \in Calls : Uses(d, a)}
      /\ excused' = [a \in Accounts |-> excused[a] \ {c}]
  BY DEF Start
<1>2. /\ call' \in [Calls -> CallState] /\ call'[c] = r
      /\ \A d \in Calls : d # c => call'[d] = call[d]
  BY <1>1 DEF TypeOK
<1>3. TypeOK'
  BY <1>1, <1>2 DEF TypeOK
<1>4. CallsOK'
  <2>1. CallOK(c)'
    BY <1>1, <1>2 DEF CallOK
  <2>2. ASSUME NEW d \in Calls, d # c PROVE CallOK(d)'
    BY <2>2, <1>1, <1>2, CallKeeps
  <2>3. QED BY <2>1, <2>2 DEF CallsOK
<1>5. AccountsOK'
  <2> SUFFICES ASSUME NEW a \in Accounts PROVE AccountOK(a)'
    BY DEF AccountsOK
  <2>1. CASE a \notin {r.from, r.to}
    BY <2>1, <1>1, <1>2, AccountKeeps DEF Uses, Idle
  <2>2. CASE a \in {r.from, r.to} /\ a \notin raced' \union torn'
    <3>1. a \notin raced \union torn /\ \A d \in Calls : ~Uses(d, a)
      BY <2>2, <1>1
    <3>2. balance[a] = booked[a]
      BY <3>1 DEF AccountsOK, AccountOK
    <3>3. \A d \in Calls : d # c => ~Uses(d, a)'
      BY <3>1, <1>2 DEF Uses
    <3>4. QED BY <2>2, <3>2, <3>3, <1>1, <1>2 DEF AccountOK
  <2>3. CASE a \in raced' \union torn'
    BY <2>3 DEF AccountOK
  <2>4. QED BY <2>1, <2>2, <2>3
<1>6. OverdraftIsExplained' /\ EveryBalanceIsBooked'
  BY <1>1 DEF OverdraftIsExplained, EveryBalanceIsBooked
<1>7. FreezeHolds'
  <2> SUFFICES ASSUME NEW a \in frozen, NEW d \in Calls, HasRead(d, a)'
               PROVE  d \in excused'[a]
    BY <1>1 DEF FreezeHolds
  <2>1. d # c
    BY <1>1, <1>2 DEF HasRead
  <2>2. HasRead(d, a)
    BY <2>1, <1>2 DEF HasRead
  <2>3. QED BY <2>1, <2>2, <1>1 DEF FreezeHolds, TypeOK
<1>8. QED BY <1>3, <1>4, <1>5, <1>6, <1>7

\* createTransaction and transfer, up to their first write.
LEMMA BeginIInv == ASSUME IInv, NEW c \in Calls, Begin(c) PROVE IInv'
<1> USE DEF IInv
<1>1. ASSUME NEW a \in Accounts, NEW t \in Types, NEW n \in Amounts, ReadAccount(c, a, t, n)
      PROVE  IInv'
  <2> DEFINE r == [at |-> "book", type |-> t, from |-> a, to |-> NoAccount,
                   delta |-> Signed(t, n), before |-> balance[a], toBefore |-> 0]
  <2>1. Signed(t, n) \in Int /\ balance[a] \in Int
    BY DEF Signed, TypeOK
  <2>2. r \in CallState
    BY <2>1 DEF CallState
  <2>3. /\ a \in accounts /\ a \notin frozen /\ Start(c, r)
        /\ Sufficient(t, balance[a] + Signed(t, n))
    BY <1>1 DEF ReadAccount
  <2>4. /\ r.at = "book" /\ r.type = t /\ r.from = a /\ r.to = NoAccount
        /\ r.delta = Signed(t, n) /\ r.before = balance[a]
    OBVIOUS
  <2> HIDE DEF r
  <2>5. r.before + r.delta >= 0 \/ TakesUnchecked(r) \/ r.from \in uncovered
    <3>1. CASE t \in Checked
      BY <3>1, <2>3, <2>4 DEF Sufficient
    <3>2. CASE t \notin Checked /\ r.delta < 0
      BY <3>2, <2>4 DEF TakesUnchecked
    <3>3. CASE r.delta >= 0
      <4>1. balance[a] >= 0 \/ a \in uncovered
        BY <2>1 DEF OverdraftIsExplained
      <4>2. QED BY <4>1, <3>3, <2>1, <2>4
    <3>4. QED BY <3>1, <3>2, <3>3, <2>1, <2>4
  <2>6. QED BY <2>2, <2>3, <2>4, <2>5, StartIInv
<1>2. ASSUME NEW a \in Accounts, NEW b \in Accounts, NEW n \in Amounts, ReadSource(c, a, b, n)
      PROVE  IInv'
  <2> DEFINE r == [at |-> "readTo", type |-> Transfer, from |-> a, to |-> b,
                   delta |-> -n, before |-> balance[a], toBefore |-> 0]
  <2>1. n \in Int /\ n > 0 /\ balance[a] \in Int
    BY <1>2 DEF ReadSource, TypeOK
  <2>2. r \in CallState
    BY <2>1 DEF CallState
  <2>3. a # b /\ a \in accounts /\ a \notin frozen /\ balance[a] >= n /\ Start(c, r)
    BY <1>2 DEF ReadSource
  <2>4. /\ r.at = "readTo" /\ r.from = a /\ r.to = b /\ r.delta = -n /\ r.before = balance[a]
    OBVIOUS
  <2> HIDE DEF r
  <2>5. r.delta <= 0 /\ r.before + r.delta >= 0
    BY <2>1, <2>3, <2>4
  <2>6. QED BY <2>2, <2>3, <2>4, <2>5, StartIInv
<1>3. QED BY <1>1, <1>2 DEF Begin

\* The row of a transaction: the ledger is ahead of the balance by it.
LEMMA BookIInv == ASSUME IInv, NEW c \in Calls, Book(c) PROVE IInv'
<1> USE DEF IInv, ledger, history
<1> DEFINE a == call[c].from
           r == [call[c] EXCEPT !.at = "balance"]
<1>1. /\ call[c].at = "book" /\ call[c].to = NoAccount /\ a \in accounts /\ a \in Accounts
      /\ After(c) >= 0 \/ TakesUnchecked(call[c]) \/ a \in uncovered
  BY DEF Book, CallsOK, CallOK, TypeOK, After
<1>2. r \in CallState /\ r.at = "balance" /\ r.from = a /\ r.to = NoAccount
      /\ r.before = call[c].before /\ r.delta = call[c].delta /\ r.type = call[c].type
  BY <1>1 DEF CallState, TypeOK
<1>3. call' = [call EXCEPT ![c] = r]
  BY DEF Book
<1>4. /\ UNCHANGED <<accounts, balance, frozen, calls, raced, torn, excused>>
      /\ booked' = [booked EXCEPT ![a] = @ + call[c].delta]
      /\ afters' = [afters EXCEPT ![a] = @ \union {After(c)}]
      /\ uncovered' = IF TakesUnchecked(call[c]) THEN uncovered \union {a} ELSE uncovered
  BY DEF Book
<1>5. call[c].delta \in Int /\ call[c].before \in Int /\ After(c) \in Int
  BY DEF TypeOK, CallState, After
<1> HIDE DEF r
<1>6. /\ call' \in [Calls -> CallState] /\ call'[c] = r
      /\ \A d \in Calls : d # c => call'[d] = call[d]
  BY <1>2, <1>3 DEF TypeOK
<1>7. /\ \A b \in Accounts : afters[b] \subseteq afters'[b]
      /\ After(c) \in afters'[a]
      /\ uncovered \subseteq uncovered' /\ uncovered' \subseteq Accounts
  BY <1>1, <1>4 DEF TypeOK
<1>8. TypeOK'
  BY <1>1, <1>4, <1>5, <1>6, <1>7 DEF TypeOK
<1>9. CallsOK'
  <2>1. CallOK(c)'
    BY <1>1, <1>2, <1>4, <1>6, <1>7 DEF CallOK, After
  <2>2. ASSUME NEW d \in Calls, d # c PROVE CallOK(d)'
    BY <2>2, <1>4, <1>6, <1>7, CallKeeps
  <2>3. QED BY <2>1, <2>2 DEF CallsOK
<1>10. ASSUME NEW b \in Accounts PROVE AccountOK(b)'
  <2>1. CASE b # a
    BY <2>1, <1>1, <1>2, <1>4, <1>6, AccountKeeps DEF Uses, TypeOK
  <2>2. CASE b = a /\ b \notin raced \union torn
    <3>1. Uses(c, b)
      BY <2>2, <1>1 DEF Uses
    <3>2. /\ \A d \in Calls : d # c => ~Uses(d, b)
          /\ booked[b] = balance[b] /\ call[c].before = balance[b]
      BY <2>2, <3>1, <1>1 DEF AccountsOK, AccountOK
    <3>3. \A d \in Calls : d # c => ~Uses(d, b)'
      BY <3>2, <1>6 DEF Uses
    <3>4. booked'[b] = balance'[b] + call[c].delta
      BY <2>2, <3>2, <1>4 DEF TypeOK
    <3>5. Uses(c, b)'
      BY <2>2, <1>2, <1>6 DEF Uses
    <3>6. QED BY <3>2, <3>3, <3>4, <3>5, <1>1, <1>2, <1>4, <1>6 DEF AccountOK
  <2>3. CASE b \in raced \union torn
    BY <2>3, <1>4 DEF AccountOK
  <2>4. QED BY <2>1, <2>2, <2>3
<1>11. OverdraftIsExplained' /\ EveryBalanceIsBooked'
  BY <1>4, <1>7 DEF OverdraftIsExplained, EveryBalanceIsBooked
<1>12. \A d \in Calls, b \in frozen : HasRead(d, b)' => HasRead(d, b)
  BY <1>1, <1>2, <1>6 DEF HasRead
<1>13. FreezeHolds'
  BY <1>4, <1>12, FreezeKeeps
<1>14. QED BY <1>8, <1>9, <1>10, <1>11, <1>13 DEF AccountsOK

\* The end of a call that has used its account alone: ledger and balance meet.
LEMMA UpdateIInv == ASSUME IInv, NEW c \in Calls, UpdateBalance(c) PROVE IInv'
<1> USE DEF IInv, ledger, history
<1> DEFINE a == call[c].from
<1>1. /\ call[c].at = "balance" /\ call[c].to = NoAccount /\ a \in accounts /\ a \in Accounts
      /\ After(c) >= 0 \/ a \in uncovered
      /\ After(c) \in afters[a]
  BY DEF UpdateBalance, CallsOK, CallOK, TypeOK, After
<1>2. /\ UNCHANGED <<accounts, frozen, booked, afters, uncovered, calls, raced, torn, excused>>
      /\ balance' = [balance EXCEPT ![a] = After(c)]
      /\ Finish(c)
  BY DEF UpdateBalance
<1>3. call[c].delta \in Int /\ call[c].before \in Int /\ After(c) \in Int
      /\ After(c) = call[c].before + call[c].delta
  BY DEF TypeOK, CallState, After
<1>4. /\ call' \in [Calls -> CallState] /\ call'[c] = Idle /\ call'[c].at = "idle"
      /\ \A d \in Calls : d # c => call'[d] = call[d]
  BY <1>2, Finished DEF TypeOK
<1>5. \A b \in Accounts : balance'[b] = IF b = a THEN After(c) ELSE balance[b]
  BY <1>1, <1>2 DEF TypeOK
<1>6. TypeOK'
  BY <1>1, <1>2, <1>3, <1>4 DEF TypeOK
<1>7. CallsOK'
  <2>1. CallOK(c)'
    BY <1>4 DEF CallOK
  <2>2. ASSUME NEW d \in Calls, d # c PROVE CallOK(d)'
    BY <2>2, <1>2, <1>4, CallKeeps
  <2>3. QED BY <2>1, <2>2 DEF CallsOK
<1>8. ASSUME NEW b \in Accounts PROVE AccountOK(b)'
  <2>1. CASE b # a
    BY <2>1, <1>1, <1>2, <1>4, <1>5, AccountKeeps DEF Uses
  <2>2. CASE b = a /\ b \notin raced \union torn
    <3>1. Uses(c, b)
      BY <2>2, <1>1 DEF Uses
    <3>2. /\ \A d \in Calls : d # c => ~Uses(d, b)
          /\ booked[b] = balance[b] + call[c].delta /\ call[c].before = balance[b]
      BY <2>2, <3>1, <1>1 DEF AccountsOK, AccountOK
    <3>3. \A d \in Calls : ~Uses(d, b)'
      BY <3>2, <1>4 DEF Uses
    <3>4. QED BY <2>2, <3>2, <3>3, <1>2, <1>3, <1>5 DEF AccountOK
  <2>3. CASE b \in raced \union torn
    BY <2>3, <1>2 DEF AccountOK
  <2>4. QED BY <2>1, <2>2, <2>3
<1>9. OverdraftIsExplained' /\ EveryBalanceIsBooked'
  <2> SUFFICES ASSUME NEW b \in Accounts
               PROVE  /\ balance'[b] < 0 => b \in uncovered
                      /\ balance'[b] \in afters[b] \union {0}
    BY <1>2 DEF OverdraftIsExplained, EveryBalanceIsBooked
  <2>1. CASE b = a
    BY <2>1, <1>1, <1>3, <1>5
  <2>2. CASE b # a
    BY <2>2, <1>5 DEF OverdraftIsExplained, EveryBalanceIsBooked
  <2>3. QED BY <2>1, <2>2
<1>10. \A d \in Calls, b \in frozen : HasRead(d, b)' => HasRead(d, b)
  BY <1>4 DEF HasRead
<1>11. FreezeHolds'
  BY <1>2, <1>10, FreezeKeeps
<1>12. QED BY <1>6, <1>7, <1>8, <1>9, <1>11 DEF AccountsOK

\* The second read of a transfer.
LEMMA ReadDestinationIInv == ASSUME IInv, NEW c \in Calls, ReadDestination(c) PROVE IInv'
<1> USE DEF IInv, ledger, history
<1> DEFINE b == call[c].to
           r == [call[c] EXCEPT !.at = "commit", !.toBefore = balance[b]]
<1>1. /\ UNCHANGED <<accounts, balance, frozen, booked, afters, uncovered, calls, raced,
                     torn, excused>>
      /\ call[c].at = "readTo" /\ call[c].from \in accounts
      /\ b \in Accounts /\ b # call[c].from /\ call[c].delta <= 0
      /\ call[c].before + call[c].delta >= 0
  BY DEF ReadDestination, CallsOK, CallOK
<1>2. r \in CallState /\ r.at = "commit" /\ r.from = call[c].from /\ r.to = b
      /\ r.before = call[c].before /\ r.delta = call[c].delta /\ r.toBefore = balance[b]
  BY <1>1 DEF CallState, TypeOK
<1>3. \/ b \in accounts /\ b \notin frozen /\ call' = [call EXCEPT ![c] = r]
      \/ Finish(c)
  BY DEF ReadDestination
<1> HIDE DEF r
<1>4. /\ call' \in [Calls -> CallState]
      /\ \A d \in Calls : d # c => call'[d] = call[d]
      /\ \/ b \in accounts /\ b \notin frozen /\ call'[c] = r
         \/ call'[c] = Idle /\ call'[c].at = "idle"
  BY <1>2, <1>3, Finished DEF TypeOK
<1>5. TypeOK'
  BY <1>1, <1>4 DEF TypeOK
<1>6. CallsOK'
  <2>1. balance[b] >= 0 \/ b \in uncovered
    BY <1>1 DEF OverdraftIsExplained, TypeOK
  <2>2. CallOK(c)'
    BY <2>1, <1>1, <1>2, <1>4 DEF CallOK
  <2>3. ASSUME NEW d \in Calls, d # c PROVE CallOK(d)'
    BY <2>3, <1>1, <1>4, CallKeeps
  <2>4. QED BY <2>2, <2>3 DEF CallsOK
<1>7. ASSUME NEW a \in Accounts PROVE AccountOK(a)'
  <2>1. CASE a \notin {call[c].from, b}
    <3>1. ~Uses(c, a) /\ ~Uses(c, a)'
      BY <2>1, <1>2, <1>4 DEF Uses
    <3>2. QED BY <3>1, <1>1, <1>4, AccountKeeps
  <2>2. CASE a \in {call[c].from, b} /\ a \notin raced \union torn
    <3>1. Uses(c, a)
      BY <2>2, <1>1 DEF Uses
    <3>2. /\ \A d \in Calls : d # c => ~Uses(d, a)
          /\ booked[a] = balance[a]
          /\ a = call[c].from => call[c].before = balance[a]
      BY <2>2, <3>1, <1>1 DEF AccountsOK, AccountOK
    <3>3. \A d \in Calls : d # c => ~Uses(d, a)'
      BY <3>2, <1>4 DEF Uses
    <3>4. QED BY <2>2, <3>2, <3>3, <1>1, <1>2, <1>4 DEF AccountOK, Uses
  <2>3. CASE a \in raced \union torn
    BY <2>3, <1>1 DEF AccountOK
  <2>4. QED BY <2>1, <2>2, <2>3
<1>8. OverdraftIsExplained' /\ EveryBalanceIsBooked'
  BY <1>1 DEF OverdraftIsExplained, EveryBalanceIsBooked
<1>9. \A d \in Calls, a \in frozen : HasRead(d, a)' => HasRead(d, a)
  BY <1>1, <1>2, <1>4 DEF HasRead
<1>10. FreezeHolds'
  BY <1>1, <1>9, FreezeKeeps
<1>11. QED BY <1>5, <1>6, <1>7, <1>8, <1>10 DEF AccountsOK

\* Both rows and both balances of a transfer.
LEMMA CommitIInv == ASSUME IInv, NEW c \in Calls, Commit(c) PROVE IInv'
<1> USE DEF IInv, ledger, history
<1> DEFINE a == call[c].from
           b == call[c].to
           x == call[c].before + call[c].delta
           y == call[c].toBefore - call[c].delta
<1>1. /\ call[c].at = "commit" /\ a \in accounts /\ b \in accounts /\ a # b
      /\ a \in Accounts /\ b \in Accounts
      /\ call[c].delta <= 0 /\ x >= 0
      /\ call[c].toBefore >= 0 \/ b \in uncovered
  BY DEF Commit, CallsOK, CallOK, TypeOK
<1>2. call[c].delta \in Int /\ call[c].before \in Int /\ call[c].toBefore \in Int
      /\ x \in Int /\ y \in Int
  BY DEF TypeOK, CallState
<1>3. y >= 0 \/ b \in uncovered
  BY <1>1, <1>2
<1>4. /\ UNCHANGED <<accounts, frozen, uncovered, calls, raced, torn, excused>>
      /\ balance' = [balance EXCEPT ![a] = x, ![b] = y]
      /\ booked' = [booked EXCEPT ![a] = @ + call[c].delta, ![b] = @ - call[c].delta]
      /\ afters' = [afters EXCEPT ![a] = @ \union {x}, ![b] = @ \union {y}]
      /\ Finish(c)
  BY DEF Commit
<1>5. /\ call' \in [Calls -> CallState] /\ call'[c] = Idle /\ call'[c].at = "idle"
      /\ \A d \in Calls : d # c => call'[d] = call[d]
  BY <1>4, Finished DEF TypeOK
<1>6. \A e \in Accounts :
        /\ balance'[e] = IF e = b THEN y ELSE IF e = a THEN x ELSE balance[e]
        /\ booked'[e] = IF e = b THEN booked[e] - call[c].delta
                        ELSE IF e = a THEN booked[e] + call[c].delta ELSE booked[e]
        /\ afters'[e] = IF e = b THEN afters[e] \union {y}
                        ELSE IF e = a THEN afters[e] \union {x} ELSE afters[e]
  BY <1>1, <1>4 DEF TypeOK
<1>7. TypeOK'
  <2>1. balance' \in [Accounts -> Int] /\ booked' \in [Accounts -> Int]
    BY <1>1, <1>2, <1>4 DEF TypeOK
  <2>2. afters' \in [Accounts -> SUBSET Int]
    BY <1>1, <1>2, <1>4 DEF TypeOK
  <2>3. \A e \in Accounts \ accounts' : balance'[e] = 0 /\ booked'[e] = 0 /\ afters'[e] = {}
    BY <1>1, <1>4, <1>6 DEF TypeOK
  <2>4. QED BY <2>1, <2>2, <2>3, <1>4, <1>5 DEF TypeOK
<1>8. CallsOK'
  <2>1. CallOK(c)'
    BY <1>5 DEF CallOK
  <2>2. \A e \in Accounts : afters[e] \subseteq afters'[e]
    BY <1>6
  <2>3. ASSUME NEW d \in Calls, d # c PROVE CallOK(d)'
    BY <2>2, <2>3, <1>4, <1>5, CallKeeps
  <2>4. QED BY <2>1, <2>3 DEF CallsOK
<1>9. ASSUME NEW e \in Accounts PROVE AccountOK(e)'
  <2>1. CASE e \notin {a, b}
    <3>1. ~Uses(c, e) /\ ~Uses(c, e)'
      BY <2>1, <1>5 DEF Uses
    <3>2. balance'[e] = balance[e] /\ booked'[e] = booked[e]
      BY <2>1, <1>6
    <3>3. QED BY <3>1, <3>2, <1>4, <1>5, AccountKeeps
  <2>2. CASE e \in {a, b} /\ e \notin raced \union torn
    <3>1. Uses(c, e)
      BY <2>2, <1>1 DEF Uses
    <3>2. /\ \A d \in Calls : d # c => ~Uses(d, e)
          /\ booked[e] = balance[e]
          /\ e = a => call[c].before = balance[e]
          /\ e = b => call[c].toBefore = balance[e]
      BY <2>2, <3>1, <1>1 DEF AccountsOK, AccountOK
    <3>3. \A d \in Calls : ~Uses(d, e)'
      BY <3>2, <1>5 DEF Uses
    <3>4. CASE e = a
      <4>1. balance'[e] = balance[e] + call[c].delta /\ booked'[e] = booked[e] + call[c].delta
        BY <3>4, <3>2, <1>1, <1>6
      <4>2. QED BY <4>1, <3>2, <3>3 DEF AccountOK
    <3>5. CASE e = b
      <4>1. balance'[e] = balance[e] - call[c].delta /\ booked'[e] = booked[e] - call[c].delta
        BY <3>5, <3>2, <1>6
      <4>2. QED BY <4>1, <3>2, <3>3 DEF AccountOK
    <3>6. QED BY <2>2, <3>4, <3>5
  <2>3. CASE e \in raced \union torn
    BY <2>3, <1>4 DEF AccountOK
  <2>4. QED BY <2>1, <2>2, <2>3
<1>10. OverdraftIsExplained' /\ EveryBalanceIsBooked'
  <2> SUFFICES ASSUME NEW e \in Accounts
               PROVE  /\ balance'[e] < 0 => e \in uncovered
                      /\ balance'[e] \in afters'[e] \union {0}
    BY <1>4 DEF OverdraftIsExplained, EveryBalanceIsBooked
  <2>1. CASE e = b
    <3>1. balance'[e] = y /\ y \in afters'[e]
      BY <2>1, <1>6
    <3>2. QED BY <2>1, <3>1, <1>2, <1>3
  <2>2. CASE e = a
    <3>1. balance'[e] = x /\ x \in afters'[e]
      BY <2>2, <1>1, <1>6
    <3>2. QED BY <3>1, <1>1, <1>2
  <2>3. CASE e \notin {a, b}
    BY <2>3, <1>6 DEF OverdraftIsExplained, EveryBalanceIsBooked
  <2>4. QED BY <2>1, <2>2, <2>3
<1>11. \A d \in Calls, e \in frozen : HasRead(d, e)' => HasRead(d, e)
  BY <1>5 DEF HasRead
<1>12. FreezeHolds'
  BY <1>4, <1>11, FreezeKeeps
<1>13. QED BY <1>7, <1>8, <1>9, <1>10, <1>12 DEF AccountsOK

\* A lost call: only a row without its update leaves anything behind.
LEMMA FailIInv == ASSUME IInv, NEW c \in Calls, Fail(c) PROVE IInv'
<1> USE DEF IInv, ledger
<1>1. /\ UNCHANGED <<accounts, balance, frozen, booked, afters, uncovered, calls, raced, excused>>
      /\ torn' = IF call[c].at = "balance" THEN torn \union {call[c].from} ELSE torn
      /\ Finish(c)
  BY DEF Fail
<1>2. /\ call' \in [Calls -> CallState] /\ call'[c] = Idle /\ call'[c].at = "idle"
      /\ \A d \in Calls : d # c => call'[d] = call[d]
  BY <1>1, Finished DEF TypeOK
<1>3. call[c].at # "idle" /\ call[c].from \in Accounts
  BY DEF Fail, CallsOK, CallOK, TypeOK
<1>4. TypeOK'
  BY <1>1, <1>2, <1>3 DEF TypeOK
<1>5. CallsOK'
  <2>1. CallOK(c)'
    BY <1>2 DEF CallOK
  <2>2. ASSUME NEW d \in Calls, d # c PROVE CallOK(d)'
    BY <2>2, <1>1, <1>2, CallKeeps
  <2>3. QED BY <2>1, <2>2 DEF CallsOK
<1>6. ASSUME NEW a \in Accounts PROVE AccountOK(a)'
  <2>1. CASE ~Uses(c, a)
    <3>1. ~Uses(c, a)'
      BY <1>2 DEF Uses
    <3>2. torn \subseteq torn'
      BY <1>1
    <3>3. QED BY <2>1, <3>1, <3>2, <1>1, <1>2, AccountKeeps
  <2>2. CASE Uses(c, a) /\ a \notin raced' \union torn'
    <3>1. a \notin raced \union torn
      BY <2>2, <1>1
    <3>2. call[c].at # "balance"
      <4>1. call[c].at = "balance" => a = call[c].from
        BY <2>2 DEF Uses, CallsOK, CallOK
      <4>2. QED BY <4>1, <2>2, <1>1
    <3>3. (\A d \in Calls : d # c => ~Uses(d, a)) /\ booked[a] = balance[a]
      BY <2>2, <3>1, <3>2 DEF AccountsOK, AccountOK
    <3>4. \A d \in Calls : ~Uses(d, a)'
      BY <3>3, <1>2 DEF Uses
    <3>5. QED BY <3>3, <3>4, <1>1 DEF AccountOK
  <2>3. CASE a \in raced' \union torn'
    BY <2>3 DEF AccountOK
  <2>4. QED BY <2>1, <2>2, <2>3
<1>7. OverdraftIsExplained' /\ EveryBalanceIsBooked'
  BY <1>1 DEF OverdraftIsExplained, EveryBalanceIsBooked
<1>8. \A d \in Calls, a \in frozen : HasRead(d, a)' => HasRead(d, a)
  BY <1>2 DEF HasRead
<1>9. FreezeHolds'
  BY <1>1, <1>8, FreezeKeeps
<1>10. QED BY <1>4, <1>5, <1>6, <1>7, <1>9 DEF AccountsOK

-----------------------------------------------------------------------------

\* Every step preserves the invariant.
LEMMA NextIInv == IInv /\ [Next]_vars => IInv'
<1> SUFFICES ASSUME IInv, [Next]_vars PROVE IInv'
  OBVIOUS
<1>1. CASE \E a \in Accounts : EnsureAccount(a) \/ Freeze(a) \/ Unfreeze(a)
  BY <1>1, AccountActionIInv
<1>2. ASSUME NEW c \in Calls, Begin(c) \/ Continue(c) \/ Fail(c) PROVE IInv'
  BY <1>2, BeginIInv, BookIInv, UpdateIInv, ReadDestinationIInv, CommitIInv, FailIInv
     DEF Continue
<1>3. CASE UNCHANGED vars
  <2> USE <1>3 DEF vars, ledger, history, IInv
  <2>1. TypeOK'
    BY DEF TypeOK
  <2>2. CallsOK'
    BY CallKeeps DEF CallsOK
  <2>3. AccountsOK'
    BY AccountKeeps DEF AccountsOK
  <2>4. OverdraftIsExplained' /\ EveryBalanceIsBooked'
    BY DEF OverdraftIsExplained, EveryBalanceIsBooked
  <2>5. FreezeHolds'
    BY FreezeKeeps DEF HasRead
  <2>6. QED BY <2>1, <2>2, <2>3, <2>4, <2>5
<1>4. QED BY <1>1, <1>2, <1>3 DEF Next

\* The invariant holds in every reachable state.
THEOREM Invariance == Spec => []IInv
BY InitIInv, NextIInv, PTL DEF Spec

\* Every reachable state is well typed; accounts that are not there are empty.
THEOREM TypeCorrect == Spec => []TypeOK
<1>1. IInv => TypeOK
  BY DEF IInv
<1>2. QED BY <1>1, Invariance, PTL

\* Races never overdraw an account: it takes an ADMIN_DEDUCT or a credit of a
\* negative amount, for any amounts that callers may send.
THEOREM OverdraftsAreExplained == Spec => []OverdraftIsExplained
<1>1. IInv => OverdraftIsExplained
  BY DEF IInv
<1>2. QED BY <1>1, Invariance, PTL

\* Every balance has a row of the ledger that says it.
THEOREM BalancesAreBooked == Spec => []EveryBalanceIsBooked
<1>1. IInv => EveryBalanceIsBooked
  BY DEF IInv
<1>2. QED BY <1>1, Invariance, PTL

\* The ledger adds up but for races and lost updates.
THEOREM LedgerAddsUp == Spec => []LedgerExplainsBalance
<1>1. IInv => LedgerExplainsBalance
  BY DEF IInv, AccountsOK, AccountOK, LedgerExplainsBalance
<1>2. QED BY <1>1, Invariance, PTL

\* A freeze excuses only the calls that had read the account.
THEOREM FreezeIsImmediate == Spec => []FreezeHolds
<1>1. IInv => FreezeHolds
  BY DEF IInv
<1>2. QED BY <1>1, Invariance, PTL
=============================================================================
