------------------------------ MODULE Treasury ------------------------------
(***************************************************************************)
(* processor/tokenbudget and processor/boardcontrol.  Every LLM call is    *)
(* recorded in counters that many goroutines share, without a lock; the    *)
(* one that finds the hour's budget spent pauses the board.  A pause or a  *)
(* resume puts a key, sets a flag in memory, and comes back by the watch   *)
(* on the key, which sets the flag again.                                  *)
(*                                                                         *)
(* Not modelled: prompt and completion tokens apart, costs, the warning at *)
(* four fifths, who paused the board, the notice published on a resume.    *)
(***************************************************************************)
EXTENDS Naturals, Sequences, FiniteSets

CONSTANTS
  Bills,         \* goroutines that record
  HourlyLimit,   \* DefaultHourlyLimit, or that of the configuration
  SpendBound,    \* bound: tokens recorded
  HourBound,     \* bound: hours
  DecreeBound    \* bound: pauses by hand, resumes, changes of the budget

ASSUME TreasuryAssumption ==
  /\ IsFiniteSet(Bills)
  /\ {HourlyLimit, SpendBound, HourBound, DecreeBound} \subseteq Nat

VARIABLES
  hour,          \* the clock
  hourlyEpoch,   \* the hour the ledger counts
  spent,         \* hourly tokens
  spentTotal,    \* tokens of all time
  savedTotal,    \* usage.total, in the bucket
  unsaved,       \* snapshots of the total whose put is under way
  hourlyLimit,   \* in memory; 0 is unlimited
  budgetConfig,  \* budget.config, in the bucket; a set of at most one limit
  bill,          \* what each Record is at
  boardState,    \* board.state, in the bucket: paused
  stateFeed,     \* puts of it the watch has yet to deliver
  pausedFlag,    \* Paused()
  crier,         \* an operator's pause or resume between its put and its flag
  decrees,       \* history: pauses by hand, resumes, changes of the budget
  excused,       \* history: the board was resumed, or the limit changed, since the last pause
  pauseFailed    \* history: an attempt to pause failed, and no tokens were recorded since

trVars == <<hour, hourlyEpoch, spent, spentTotal, savedTotal, unsaved, hourlyLimit, budgetConfig,
            bill, boardState, stateFeed, pausedFlag, crier, decrees, excused, pauseFailed>>

TreasuryTypeOK ==
  /\ {hour, hourlyEpoch, spent, spentTotal, savedTotal, hourlyLimit} \subseteq Nat
  /\ unsaved \subseteq Nat /\ budgetConfig \subseteq Nat
  /\ bill \in [Bills -> {"idle", "zeroing", "adding", "checking", "pausing", "flagging",
                         "saving"}]
  /\ {boardState, pausedFlag, excused, pauseFailed} \subseteq BOOLEAN
  /\ crier \in {"none", "pausing", "resuming"}
  /\ stateFeed \in Seq(BOOLEAN)
  /\ decrees \in [pauses : Nat, resumes : Nat, budgets : Nat]

TreasuryInit ==
  /\ hour = 0 /\ hourlyEpoch = 0
  /\ spent = 0 /\ spentTotal = 0 /\ savedTotal = 0 /\ unsaved = {}
  /\ hourlyLimit = HourlyLimit /\ budgetConfig = {}
  /\ bill = [b \in Bills |-> "idle"]
  /\ boardState = FALSE /\ stateFeed = <<>> /\ pausedFlag = FALSE
  /\ crier = "none"
  /\ decrees = [pauses |-> 0, resumes |-> 0, budgets |-> 0]
  /\ excused = FALSE /\ pauseFailed = FALSE

-----------------------------------------------------------------------------
HourStrikes ==
  /\ spentTotal > 0 /\ hour < HourBound
  /\ hour' = hour + 1
  /\ UNCHANGED <<hourlyEpoch, spent, spentTotal, savedTotal, unsaved, hourlyLimit, budgetConfig,
                 bill, boardState, stateFeed, pausedFlag, crier, decrees, excused, pauseFailed>>

BillGoes(b, at) == bill' = [bill EXCEPT ![b] = at]

Pending(at) == Cardinality({b \in Bills : bill[b] = at})

\* rollEpochIfNeeded: one goroutine wins the compare-and-swap, and zeroes the counters later.
RollEpoch(b) ==
  /\ bill[b] = "idle"
  /\ spentTotal + Pending("adding") + Pending("zeroing") < SpendBound
  /\ hourlyEpoch' = hour
  /\ BillGoes(b, IF hour # hourlyEpoch THEN "zeroing" ELSE "adding")
  /\ UNCHANGED <<hour, spent, spentTotal, savedTotal, unsaved, hourlyLimit, budgetConfig,
                 boardState, stateFeed, pausedFlag, crier, decrees, excused, pauseFailed>>

ZeroCounters(b) ==
  /\ bill[b] = "zeroing"
  /\ spent' = 0
  /\ pauseFailed' = FALSE
  /\ BillGoes(b, "adding")
  /\ UNCHANGED <<hour, hourlyEpoch, spentTotal, savedTotal, unsaved, hourlyLimit, budgetConfig,
                 boardState, stateFeed, pausedFlag, crier, decrees, excused>>

AddTokens(b) ==
  /\ bill[b] = "adding"
  /\ spent' = spent + 1 /\ spentTotal' = spentTotal + 1
  /\ pauseFailed' = FALSE
  /\ BillGoes(b, "checking")
  /\ UNCHANGED <<hour, hourlyEpoch, savedTotal, unsaved, hourlyLimit, budgetConfig, boardState,
                 stateFeed, pausedFlag, crier, decrees, excused>>

\* Mutant: only the Record that reaches the limit trips the breaker.
BreakerTrippedOnce == hourlyLimit > 0 /\ spent = hourlyLimit

BreakerTripped == hourlyLimit > 0 /\ spent >= hourlyLimit

CheckBreaker(b) ==
  /\ bill[b] = "checking"
  /\ BillGoes(b, IF BreakerTripped THEN "pausing" ELSE "saving")
  /\ UNCHANGED <<hour, hourlyEpoch, spent, spentTotal, savedTotal, unsaved, hourlyLimit,
                 budgetConfig, boardState, stateFeed, pausedFlag, crier, decrees, excused, pauseFailed>>

PutBoardState(paused) ==
  /\ boardState' = paused
  /\ stateFeed' = Append(stateFeed, paused)

PutPause(b) ==
  /\ bill[b] = "pausing"
  /\ PutBoardState(TRUE)
  /\ excused' = FALSE /\ pauseFailed' = FALSE
  /\ BillGoes(b, "flagging")
  /\ UNCHANGED <<hour, hourlyEpoch, spent, spentTotal, savedTotal, unsaved, hourlyLimit,
                 budgetConfig, pausedFlag, crier, decrees>>

\* The put fails, which is logged, and the Record goes on with the board running.
PauseFails(b) ==
  /\ bill[b] = "pausing"
  /\ pauseFailed' = TRUE
  /\ BillGoes(b, "saving")
  /\ UNCHANGED <<hour, hourlyEpoch, spent, spentTotal, savedTotal, unsaved, hourlyLimit,
                 budgetConfig, boardState, stateFeed, pausedFlag, crier, decrees, excused>>

\* The put is stored and its answer is lost: the flag is left to the watch.
PauseUnanswered(b) ==
  /\ bill[b] = "pausing"
  /\ PutBoardState(TRUE)
  /\ excused' = FALSE /\ pauseFailed' = FALSE
  /\ BillGoes(b, "saving")
  /\ UNCHANGED <<hour, hourlyEpoch, spent, spentTotal, savedTotal, unsaved, hourlyLimit,
                 budgetConfig, pausedFlag, crier, decrees>>

ApplyPause(b) ==
  /\ bill[b] = "flagging"
  /\ pausedFlag' = TRUE
  /\ BillGoes(b, "saving")
  /\ UNCHANGED <<hour, hourlyEpoch, spent, spentTotal, savedTotal, unsaved, hourlyLimit,
                 budgetConfig, boardState, stateFeed, crier, decrees, excused, pauseFailed>>

\* persistTotalAsync: a snapshot is put by a goroutine nobody waits for.
PersistTotal(b) ==
  /\ bill[b] = "saving"
  /\ unsaved' = unsaved \cup {spentTotal}
  /\ BillGoes(b, "idle")
  /\ UNCHANGED <<hour, hourlyEpoch, spent, spentTotal, savedTotal, hourlyLimit, budgetConfig,
                 boardState, stateFeed, pausedFlag, crier, decrees, excused, pauseFailed>>

\* In any order, so an older total may come last; a put that fails is given up.
PutTotal(n) ==
  /\ n \in unsaved
  /\ unsaved' = unsaved \ {n}
  /\ savedTotal' \in {n, savedTotal}
  /\ UNCHANGED <<hour, hourlyEpoch, spent, spentTotal, hourlyLimit, budgetConfig, bill,
                 boardState, stateFeed, pausedFlag, crier, decrees, excused, pauseFailed>>

-----------------------------------------------------------------------------
(* Operators.                                                              *)

MayDecree == decrees.pauses + decrees.resumes + decrees.budgets < DecreeBound

\* Put first, then in memory.
SetBudget(limit) ==
  /\ budgetConfig' = {limit}
  /\ hourlyLimit' = limit

SetTokenBudget(limit) ==
  /\ spentTotal > 0 /\ MayDecree
  /\ limit # hourlyLimit
  /\ SetBudget(limit)
  /\ decrees' = [decrees EXCEPT !.budgets = @ + 1]
  /\ excused' = TRUE
  /\ UNCHANGED <<hour, hourlyEpoch, spent, spentTotal, savedTotal, unsaved, bill, boardState,
                 stateFeed, pausedFlag, crier, pauseFailed>>

\* handleBoardPause: whether or not the board is paused.
PauseByHand ==
  /\ spentTotal > 0 /\ crier = "none" /\ MayDecree
  /\ PutBoardState(TRUE)
  /\ crier' = "pausing"
  /\ decrees' = [decrees EXCEPT !.pauses = @ + 1]
  /\ UNCHANGED <<hour, hourlyEpoch, spent, spentTotal, savedTotal, unsaved, hourlyLimit,
                 budgetConfig, bill, pausedFlag, excused, pauseFailed>>

\* handleBoardResume: whether or not it is paused.
Resume ==
  /\ spentTotal > 0 /\ crier = "none" /\ MayDecree
  /\ PutBoardState(FALSE)
  /\ crier' = "resuming"
  /\ decrees' = [decrees EXCEPT !.resumes = @ + 1]
  /\ excused' = TRUE
  /\ UNCHANGED <<hour, hourlyEpoch, spent, spentTotal, savedTotal, unsaved, hourlyLimit,
                 budgetConfig, bill, pausedFlag, pauseFailed>>

\* Unless the answer of the put was lost.
ApplyDecree ==
  /\ crier # "none"
  /\ pausedFlag' \in {crier = "pausing", pausedFlag}
  /\ crier' = "none"
  /\ UNCHANGED <<hour, hourlyEpoch, spent, spentTotal, savedTotal, unsaved, hourlyLimit,
                 budgetConfig, bill, boardState, stateFeed, decrees, excused, pauseFailed>>

WatchBoardState ==
  /\ stateFeed # <<>>
  /\ pausedFlag' = Head(stateFeed)
  /\ stateFeed' = Tail(stateFeed)
  /\ UNCHANGED <<hour, hourlyEpoch, spent, spentTotal, savedTotal, unsaved, hourlyLimit,
                 budgetConfig, bill, boardState, crier, decrees, excused, pauseFailed>>

\* The hour's count is not saved, and a saved limit of 0 is taken for none.
RestartTreasury ==
  /\ spentTotal > savedTotal
  /\ hourlyEpoch' = hour
  /\ spent' = 0 /\ spentTotal' = savedTotal /\ unsaved' = {}
  /\ hourlyLimit' = IF \E n \in budgetConfig : n > 0 THEN CHOOSE n \in budgetConfig : TRUE
                                                     ELSE HourlyLimit
  /\ bill' = [b \in Bills |-> "idle"]
  /\ pausedFlag' = boardState /\ stateFeed' = <<boardState>>
  /\ crier' = "none"
  /\ pauseFailed' = FALSE
  /\ UNCHANGED <<hour, savedTotal, budgetConfig, boardState, decrees, excused>>

TreasuryNext ==
  \/ HourStrikes
  \/ \E b \in Bills :
       \/ RollEpoch(b) \/ ZeroCounters(b) \/ AddTokens(b) \/ CheckBreaker(b)
       \/ PutPause(b) \/ PauseFails(b) \/ PauseUnanswered(b) \/ ApplyPause(b) \/ PersistTotal(b)
  \/ \E n \in unsaved : PutTotal(n)
  \/ \E limit \in {0, HourlyLimit + 1} : SetTokenBudget(limit)
  \/ PauseByHand
  \/ Resume
  \/ ApplyDecree
  \/ WatchBoardState
  \/ RestartTreasury

TreasurySpec == TreasuryInit /\ [][TreasuryNext]_trVars

-----------------------------------------------------------------------------
(* Safety: when no Record is under way and the hour's budget is spent, the *)
(* board is paused, in the bucket and, unless an operator interfered, in   *)
(* memory, whichever of several goroutines crossed the limit and whether   *)
(* the hour struck between them.  Excepted is a pause that failed: Record  *)
(* logs it and goes on, and until the next Record nobody tries again.      *)
OverBudgetIsPaused ==
  (spent >= hourlyLimit /\ hourlyLimit > 0 /\ ~excused /\ ~pauseFailed
     /\ \A b \in Bills : bill[b] \in {"idle", "saving"})
    => boardState /\ (decrees.resumes = 0 /\ stateFeed = <<>> => pausedFlag)
=============================================================================
