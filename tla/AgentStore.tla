----------------------------- MODULE AgentStore -----------------------------
(***************************************************************************)
(* processor/agentstore: what an agent owns is kept twice.  A purchase or  *)
(* the use of a consumable changes the inventory in memory, under a mutex, *)
(* and then the agent entity, by a read and a put that other processors    *)
(* may come between.  The watch brings every put of the entity back, also  *)
(* the store's own, late, and merges it into the inventory.                *)
(*                                                                         *)
(* One agent, one tool and one consumable, which ends a cooldown, are      *)
(* modelled.  Not modelled: the catalog, tiers, discounts, rentals (their  *)
(* uses are never counted down), events, and ConsumeEffect (nobody calls   *)
(* it, so effects in memory do not expire).                                *)
(***************************************************************************)
EXTENDS Naturals, Integers, Sequences, FiniteSets

CONSTANTS
  Tills,         \* calls of the store at one time
  Purse,         \* XP the agent begins with
  ItemPrice,
  TradeBound,    \* bound: purchases and uses
  MeddleBound,   \* bound: puts of the agent by other processors
  StoreCrashes   \* bound: restarts

ASSUME AgentStoreAssumption ==
  /\ IsFiniteSet(Tills)
  /\ {Purse, ItemPrice, TradeBound, MeddleBound, StoreCrashes} \subseteq Nat

VARIABLES
  shopper,       \* the agent entity
  shopperFeed,   \* puts of it the watch has yet to deliver
  inventory,     \* inventories[agent] and activeEffects[agent], in memory
  till,          \* what each call is at
  meddler,       \* another processor between its read and its put: a set of at most one copy
  receipts,      \* history: what the store sold and took back since it started
  shopCounts

asVars == <<shopper, shopperFeed, inventory, till, meddler, receipts, shopCounts>>

\* xp is not checked when it is taken off the entity, and may become negative.
Shopper ==
  [xp : Int, spent : Nat, consumables : Nat, tool : BOOLEAN, effects : Nat, cooldown : BOOLEAN]

Inventory == [spent : Nat, consumables : Nat, tool : BOOLEAN, effects : Nat]

Fresh == [xp |-> Purse, spent |-> 0, consumables |-> 0, tool |-> FALSE, effects |-> 0,
          cooldown |-> FALSE]
Empty == [spent |-> 0, consumables |-> 0, tool |-> FALSE, effects |-> 0]

\* xp is what the caller read the agent to have; copy what the store reads later.
Till ==
  [call : {"buy", "use"}, at : {"idle", "entered", "done", "putting", "telling"},
   item : {"tool", "consumable"}, xp : Int, copy : Shopper]

ClosedTill == [call |-> "buy", at |-> "idle", item |-> "tool", xp |-> 0, copy |-> Fresh]

StoreTypeOK ==
  /\ shopper \in Shopper
  /\ shopperFeed \in Seq(Shopper)
  /\ inventory \in Inventory
  /\ till \in [Tills -> Till]
  /\ meddler \subseteq Shopper
  /\ receipts \in Inventory
  /\ shopCounts \in [trades : Nat, meddles : Nat, crashes : Nat]

StoreInit ==
  /\ shopper = Fresh
  /\ shopperFeed = <<>>
  /\ inventory = Empty
  /\ till = [c \in Tills |-> ClosedTill]
  /\ meddler = {}
  /\ receipts = Empty
  /\ shopCounts = [trades |-> 0, meddles |-> 0, crashes |-> 0]

-----------------------------------------------------------------------------
PutShopper(a) ==
  /\ shopper' = a
  /\ shopperFeed' = Append(shopperFeed, a)

Trade ==
  /\ shopCounts.trades < TradeBound
  /\ shopCounts' = [shopCounts EXCEPT !.trades = @ + 1]

\* The API or a heartbeat passes the XP of the agent it has read.
EnterShop(c, item) ==
  /\ till[c].at = "idle"
  /\ Trade
  /\ till' = [till EXCEPT ![c] =
       [ClosedTill EXCEPT !.at = "entered", !.item = item, !.xp = shopper.xp]]
  /\ UNCHANGED <<shopper, shopperFeed, inventory, meddler, receipts>>

\* handleUseConsumable.
AskToUse(c) ==
  /\ till[c].at = "idle"
  /\ Trade
  /\ till' = [till EXCEPT ![c] = [ClosedTill EXCEPT !.call = "use", !.at = "entered"]]
  /\ UNCHANGED <<shopper, shopperFeed, inventory, meddler, receipts>>

\* What a sale adds to a record of an inventory.
Sold(r, item) ==
  IF item = "tool" THEN [r EXCEPT !.tool = TRUE, !.spent = @ + ItemPrice]
  ELSE [r EXCEPT !.consumables = @ + 1, !.spent = @ + ItemPrice]

Entered(c, call) == till[c].at = "entered" /\ till[c].call = call

\* Purchase: affordability by the caller's XP, then the inventory under its mutex.
Purchase(c) ==
  /\ Entered(c, "buy")
  /\ IF till[c].xp < ItemPrice
     THEN till' = [till EXCEPT ![c] = ClosedTill] /\ UNCHANGED <<inventory, receipts>>
     ELSE /\ inventory' = Sold(inventory, till[c].item)
          /\ receipts' = Sold(receipts, till[c].item)
          /\ till' = [till EXCEPT ![c].at = "done"]
  /\ UNCHANGED <<shopper, shopperFeed, meddler, shopCounts>>

\* The count in memory decides; the effect is added in memory.
UseConsumable(c) ==
  /\ Entered(c, "use")
  /\ IF inventory.consumables = 0
     THEN till' = [till EXCEPT ![c] = ClosedTill] /\ UNCHANGED <<inventory, receipts>>
     ELSE /\ inventory' = [inventory EXCEPT !.consumables = @ - 1, !.effects = @ + 1]
          /\ receipts' = [receipts EXCEPT !.consumables = IF @ > 0 THEN @ - 1 ELSE 0]
          /\ till' = [till EXCEPT ![c].at = "done"]
  /\ UNCHANGED <<shopper, shopperFeed, meddler, shopCounts>>

\* The entity is read,
ReadShopper(c) ==
  /\ till[c].at = "done"
  /\ till' = [till EXCEPT ![c].copy = shopper, ![c].at = "putting"]
  /\ UNCHANGED <<shopper, shopperFeed, inventory, meddler, receipts, shopCounts>>

Told(c) == till' = [till EXCEPT ![c].at = "telling", ![c].copy = Fresh]

\* and put, with the item and without the XP;
PutPurchase(c) ==
  /\ till[c].at = "putting" /\ till[c].call = "buy"
  /\ PutShopper([Sold(till[c].copy, till[c].item) EXCEPT !.xp = @ - ItemPrice])
  /\ Told(c)
  /\ UNCHANGED <<inventory, meddler, receipts, shopCounts>>

\* or without the consumable: a count at or below zero is deleted, and effects of one
\* type are stored under one predicate, so that one is read back.
PutUsed(c) ==
  /\ till[c].at = "putting" /\ till[c].call = "use"
  /\ PutShopper([till[c].copy EXCEPT !.consumables = IF @ > 0 THEN @ - 1 ELSE 0,
                                     !.effects = 1, !.cooldown = FALSE])
  /\ Told(c)
  /\ UNCHANGED <<inventory, meddler, receipts, shopCounts>>

\* A failed read or put is logged, and leaves the trade in memory only.
LoseTrade(c) ==
  /\ till[c].at \in {"done", "putting"}
  /\ Told(c)
  /\ UNCHANGED <<shopper, shopperFeed, inventory, meddler, receipts, shopCounts>>

Announce(c) ==
  /\ till[c].at = "telling"
  /\ till' = [till EXCEPT ![c] = ClosedTill]
  /\ UNCHANGED <<shopper, shopperFeed, inventory, meddler, receipts, shopCounts>>

\* An event that cannot be published makes the call an error, and the API calls once more:
\* the item is sold, or the consumable used, a second time.
CallAgain(c) ==
  /\ till[c].at = "telling"
  /\ Trade
  /\ till' = [till EXCEPT ![c].at = "entered"]
  /\ UNCHANGED <<shopper, shopperFeed, inventory, meddler, receipts>>

\* Any other processor reads the agent,
MeddlerReads ==
  /\ shopCounts.trades > 0
  /\ meddler = {} /\ shopCounts.meddles < MeddleBound
  /\ meddler' = {shopper}
  /\ shopCounts' = [shopCounts EXCEPT !.meddles = @ + 1]
  /\ UNCHANGED <<shopper, shopperFeed, inventory, till, receipts>>

\* and puts its copy with XP or a cooldown.
MeddlerPuts ==
  /\ \E a \in meddler :
       \/ PutShopper([a EXCEPT !.xp = @ + ItemPrice])
       \/ PutShopper([a EXCEPT !.cooldown = TRUE])
  /\ meddler' = {}
  /\ UNCHANGED <<inventory, till, receipts, shopCounts>>

-----------------------------------------------------------------------------
\* Mutant: the inventory becomes that of the entity.
SyncInventoryFromAgentReplacing(a, inv) ==
  IF a.consumables > 0 \/ a.tool \/ a.spent > 0
  THEN [spent |-> a.spent, consumables |-> a.consumables, tool |-> a.tool,
        effects |-> IF a.effects > 0 THEN a.effects ELSE inv.effects]
  ELSE IF a.effects > 0 THEN [inv EXCEPT !.effects = a.effects] ELSE inv

\* The higher count and sum, either's tool; effects are replaced by the entity's, if any.
SyncInventoryFromAgent(a, inv) ==
  [spent |-> IF a.spent > inv.spent THEN a.spent ELSE inv.spent,
   consumables |-> IF a.consumables > inv.consumables THEN a.consumables ELSE inv.consumables,
   tool |-> a.tool \/ inv.tool,
   effects |-> IF a.effects > 0 THEN a.effects ELSE inv.effects]

WatchShopper ==
  /\ shopperFeed # <<>>
  /\ inventory' = SyncInventoryFromAgent(Head(shopperFeed), inventory)
  /\ shopperFeed' = Tail(shopperFeed)
  /\ UNCHANGED <<shopper, till, meddler, receipts, shopCounts>>

\* loadInitialInventories; calls under way are lost.
RestartStore ==
  /\ shopCounts.trades > 0 /\ shopCounts.crashes < StoreCrashes
  /\ shopCounts' = [shopCounts EXCEPT !.crashes = @ + 1]
  /\ till' = [c \in Tills |-> ClosedTill]
  /\ inventory' = SyncInventoryFromAgent(shopper, Empty)
  /\ receipts' = SyncInventoryFromAgent(shopper, Empty)
  /\ shopperFeed' = <<shopper>>
  /\ UNCHANGED <<shopper, meddler>>

StoreNext ==
  \/ \E c \in Tills :
       \/ \E item \in {"tool", "consumable"} : EnterShop(c, item)
       \/ AskToUse(c) \/ Purchase(c) \/ UseConsumable(c)
       \/ ReadShopper(c) \/ PutPurchase(c) \/ PutUsed(c) \/ LoseTrade(c)
       \/ Announce(c) \/ CallAgain(c)
  \/ MeddlerReads
  \/ MeddlerPuts
  \/ WatchShopper
  \/ RestartStore

StoreSpec == StoreInit /\ [][StoreNext]_asVars

-----------------------------------------------------------------------------
(* Safety: while the store runs, the inventory holds at least what was     *)
(* sold and not used, whatever late or overwritten copies of the entity    *)
(* the watch brings back.                                                  *)
PurchasesStay ==
  /\ inventory.consumables >= receipts.consumables
  /\ inventory.spent >= receipts.spent
  /\ receipts.tool => inventory.tool
=============================================================================
