----------------------------- MODULE OrderStore -----------------------------
(***************************************************************************)
(* The two tables every process of tbot shares: tbot_order (class Order of *)
(* tbot/models.py) and the status of the one bot the orders belong to.     *)
(* Django runs in autocommit mode, so each ORM call is one step on these   *)
(* variables and nothing holds between two calls of the same process.      *)
(*                                                                         *)
(* A row keeps the three columns the program decides on; prices, sizes and *)
(* the callback's parameters are left out.  "fresh" stands for updated_at: *)
(* the only comparison made with it is `updated_at < time_start', so it is *)
(* kept as the rows not written since the time_start of each worker, for   *)
(* as long as the worker's synchronisation has still to look at them.      *)
(***************************************************************************)
EXTENDS Naturals, Sequences, FiniteSets

CONSTANTS
  Orders,       \* primary keys the orders of the bot will get
  None,         \* no order
  Oco,          \* the oco_order column: a leg to its peer, for legs only
  HasCallback,  \* the orders whose callback column is not ''
  Workers       \* the user-data-stream processes of the connection

ASSUME OrdersAssumption == None \notin Orders

ASSUME OcoAssumption ==
  /\ DOMAIN Oco \subseteq Orders
  /\ \A o \in DOMAIN Oco : /\ Oco[o] \in DOMAIN Oco
                           /\ Oco[o] # o
                           /\ Oco[Oco[o]] = o

ASSUME CallbackAssumption == HasCallback \subseteq Orders

VARIABLES
  row,    \* row[o]: the row of order o, NoRow before its INSERT
  bot,    \* Bot.status
  fresh   \* fresh[w]: rows the running synchronisation of worker w has yet
          \* to look at and nobody has written since its time_start

storeVars == <<row, bot, fresh>>

-----------------------------------------------------------------------------
(* Rows *)

Statuses == {"NEW", "ACTIVE", "FILLED", "CANCELED", "EXPIRED", "ERROR"}

CallbackStatuses ==
  {"WAITING", "STARTED", "DONE", "CANCELED", "OCO_CANCELED", "ERROR"}

BotStatuses == {"ON", "OFF", "CANCELED"}

Terminal == {"FILLED", "CANCELED", "EXPIRED"}   \* no execution can follow

Rows == [status : Statuses \cup {"ABSENT"},
         cb     : CallbackStatuses,
         filled : BOOLEAN]         \* result_filled_quantity is not NULL

NoRow == [status |-> "ABSENT", cb |-> "WAITING", filled |-> FALSE]

NewRow == [status |-> "NEW", cb |-> "WAITING", filled |-> FALSE]

HasOco(o) == o \in DOMAIN Oco

ActiveOrders == {o \in Orders : row[o].status = "ACTIVE"}

(* Faulty variant of WithResult: the executed quantities are forgotten.     *)
WithStatusOnly(r, s) == [r EXCEPT !.status = s]

(* What the in-memory row r becomes in _callback_order: the status, and the *)
(* executed quantities when the status is FILLED.                           *)
WithResult(r, s) ==
  [r EXCEPT !.status = s, !.filled = IF s = "FILLED" THEN TRUE ELSE @]

-----------------------------------------------------------------------------
(* Statements *)

(* Any INSERT or UPDATE: updated_at moves with it (auto_now).               *)
Write(o, r) ==
  /\ row' = [row EXCEPT ![o] = r]
  /\ fresh' = [w \in Workers |-> fresh[w] \ {o}]

(* order.save(): every column from the object in memory, however old it is. *)
SaveAll(o, r) == Write(o, r)

(* save(update_fields = status, results): the other columns keep the value   *)
(* they have in the table now.                                               *)
SaveResult(o, s) == Write(o, WithResult(row[o], s))

(* save(update_fields = callback_status).                                    *)
SaveCallback(o, c) == Write(o, [row[o] EXCEPT !.cb = c])

(* INSERT of several rows (the two legs of an OCO, or one order).            *)
InsertRows(S) ==
  /\ \A o \in S : row[o] = NoRow
  /\ row' = [o \in Orders |-> IF o \in S THEN NewRow ELSE row[o]]
  /\ fresh' = [w \in Workers |-> fresh[w] \ S]

(* bot.save(): the callers change nothing but the status.                    *)
SaveBot(s) == bot' = s

StoreInit ==
  /\ row = [o \in Orders |-> NoRow]
  /\ bot = "ON"
  /\ fresh = [w \in Workers |-> {}]

StoreTypeOK ==
  /\ row \in [Orders -> Rows]
  /\ bot \in BotStatuses
  /\ fresh \in [Workers -> SUBSET Orders]
=============================================================================
