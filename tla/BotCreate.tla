----------------------------- MODULE BotCreate -----------------------------
(***************************************************************************)
(* bot_create (tbot/management/commands/bot_create.py) with the percent    *)
(* arithmetic of lib/lib.py: the options are checked against one reading   *)
(* of the price, the operator is asked, and the bot is saved, served and   *)
(* started while the price goes on moving.                                 *)
(*                                                                         *)
(* An option is the text Python has of it, the digits before and after the *)
(* point; Value is its integer at Places + 2 decimals.  What the command   *)
(* multiplies is a float: the exact product and the side of it to which    *)
(* the rounding fell, which decides between numbers that are otherwise the *)
(* same.  Texts with an exponent and the options that are stored unchecked *)
(* (delay, step_down_delta) are left out.                                  *)
(***************************************************************************)
EXTENDS Integers, Sequences

CONSTANTS
  Texts,       \* what str(float(..)) may be of an option
  Places,      \* decimals an option has at most
  Prices,      \* prices of the symbol, counted in units
  Units,       \* units in a price of 1
  MinStep,     \* Profile.min_step, a text
  Rounding(_, _),  \* how many floats off the exact product a product is
  Lots,        \* lots an operator may give
  MinNotional, \* Symbol.min_notional
  None

Digits == 0..9

(* min_step is no percentage, so it may have all the decimals of Value.     *)
ASSUME TextsAssumption ==
  /\ Places \in Nat \ {0}
  /\ \A t \in Texts \cup {MinStep} :
       /\ t.int \in Seq(Digits) /\ t.int # <<>>
       /\ t.frac \in Seq(Digits) /\ Len(t.frac) \in 1..(Places + 2)
  /\ \A t \in Texts : Len(t.frac) <= Places
  /\ Prices \subseteq Nat \ {0} /\ Units \in Nat \ {0}
  /\ Lots \subseteq Nat /\ MinNotional \in Nat

VARIABLES
  pc,      \* where the command is
  opts,    \* its options, None before they are read
  seen,    \* the price it read
  price,   \* the price now
  bot,     \* the row of the bot: its status and its options, or None
  served   \* the status the bot had when START was sent, or None

vars == <<pc, opts, seen, price, bot, served>>

-----------------------------------------------------------------------------
(* Numbers *)

Zeros(n) == [i \in 1..n |-> 0]

(* Reading(s)[i]: the number the first i digits of s write.                 *)
Reading(s) ==
  LET read[i \in 0..Len(s)] == IF i = 0 THEN 0 ELSE 10 * read[i - 1] + s[i]
  IN  read

Value(t) ==
  LET s == t.int \o t.frac \o Zeros(Places + 2 - Len(t.frac))
  IN  Reading(s)[Len(s)]

One == Value([int |-> <<1>>, frac |-> <<0>>])

(* Faulty variant of percent_to_float: no zeros after the point.            *)
PercentNoZeros(t) ==
  LET s == t.int \o t.frac
      i == Len(t.int) - 2
  IN IF i < 0 THEN [int |-> <<>>, frac |-> s]
     ELSE [int |-> SubSeq(s, 1, i), frac |-> SubSeq(s, i + 1, Len(s))]

(* percent_to_float: the point moves two digits to the left.                *)
PercentToFloat(t) ==
  LET s == t.int \o t.frac
      i == Len(t.int) - 2
  IN IF i < 0 THEN [int |-> <<>>, frac |-> Zeros(0 - i) \o s]
     ELSE [int |-> SubSeq(s, 1, i), frac |-> SubSeq(s, i + 1, Len(s))]

(* An option given as "10%" or as "10".                                     *)
Forms == [percent : BOOLEAN, text : Texts]

(* Floats, in the unit of Value times that of the prices.  Two numbers of   *)
(* up to 15 digits that differ do so by more than they are rounded; two     *)
(* that are the same are parsed to the same float, but a product may fall   *)
(* beside it: 0.001 * 9 is 0.009000000000000001.                            *)
Parsed(x) == [exact |-> x * Units, off |-> 0]

Product(x, p) == [exact |-> x * p, off |-> Rounding(x, p)]

ASSUME RoundingAssumption ==
  \A t \in Texts \cup {MinStep}, p \in Prices :
    /\ Rounding(Value(t), p) \in Int
    /\ Rounding(Value(PercentToFloat(t)), p) \in Int

AtLeast(a, b) == a.exact > b.exact \/ (a.exact = b.exact /\ a.off >= b.off)

(* Faulty variant of StepAbs: the % is cut off and nothing divided by 100.  *)
StepAbsUndivided(f, p) ==
  IF f.percent THEN Product(Value(f.text), p) ELSE Parsed(Value(f.text))

(* step_up_abs, step_down_abs: what the form comes to at price p.           *)
StepAbs(f, p) ==
  IF f.percent THEN Product(Value(PercentToFloat(f.text)), p)
  ELSE Parsed(Value(f.text))

-----------------------------------------------------------------------------
(* The checks *)

(* Faulty variant of LimitAccepted: exactly 100% passes.                    *)
LimitAcceptedUpTo(f, p) ==
  IF f.percent THEN Value(PercentToFloat(f.text)) <= One
  ELSE Value(f.text) * Units < p * One

(* A percentage below 100, or a price below the price read.                 *)
LimitAccepted(f, p) ==
  IF f.percent THEN Value(PercentToFloat(f.text)) < One
  ELSE Value(f.text) * Units < p * One

(* min_step_abs is a product too.                                           *)
StepAccepted(f, p) == AtLeast(StepAbs(f, p), Product(Value(MinStep), p))

(* mult: lot_multiplier_down, 0 or not (a negative one passes, although the *)
(* message says greater than 0); targets: profit_target and saver end in %. *)
Options == [limit : Forms, up : Forms, down : Forms,
            lot : Lots, mult : {0, 1}, targets : BOOLEAN]

Accepted(o, p) ==
  /\ LimitAccepted(o.limit, p)
  /\ o.mult # 0
  /\ o.targets
  /\ o.lot >= MinNotional
  /\ StepAccepted(o.up, p) /\ StepAccepted(o.down, p)

-----------------------------------------------------------------------------
(* The command *)

(* The user, the connection and the symbol are found, and the price asked.  *)
ReadPrice ==
  /\ pc = "ready" /\ pc' = "check"
  /\ opts' \in Options
  /\ seen' = price
  /\ UNCHANGED <<price, bot, served>>

Check ==
  /\ pc = "check"
  /\ pc' = IF Accepted(opts, seen) THEN "prompt" ELSE "refused"
  /\ UNCHANGED <<opts, seen, price, bot, served>>

Decline ==
  /\ pc = "prompt" /\ pc' = "done"
  /\ UNCHANGED <<opts, seen, price, bot, served>>

(* bot.save(): Bot.status is OFF by default.                                *)
Save ==
  /\ pc = "prompt" /\ pc' = "send"
  /\ bot' = [status |-> "OFF", opts |-> opts]
  /\ UNCHANGED <<opts, seen, price, served>>

(* Faulty variant of StartStream: an exception does not end the command.    *)
StartStreamOrNot ==
  /\ pc = "send" /\ pc' = "start"
  /\ served' \in {bot.status, None}
  /\ UNCHANGED <<opts, seen, price, bot>>

(* exchange.user_data_stream_start(): START is sent, or the send raises and *)
(* the command ends.                                                        *)
StartStream ==
  /\ pc = "send"
  /\ \/ pc' = "start" /\ served' = bot.status
     \/ pc' = "done" /\ UNCHANGED served
  /\ UNCHANGED <<opts, seen, price, bot>>

(* Algorithm.start: the bot is set ON.                                      *)
StartAlgorithm ==
  /\ pc = "start" /\ pc' = "done"
  /\ bot' = [bot EXCEPT !.status = "ON"]
  /\ UNCHANGED <<opts, seen, price, served>>

(* The market moves whenever it likes.                                      *)
Move ==
  /\ price' \in Prices
  /\ UNCHANGED <<pc, opts, seen, bot, served>>

Init ==
  /\ pc = "ready" /\ opts = None /\ seen = 0
  /\ price \in Prices
  /\ bot = None /\ served = None

Next ==
  ReadPrice \/ Check \/ Decline \/ Save \/ StartStream \/ StartAlgorithm \/ Move

Spec == Init /\ [][Next]_vars

-----------------------------------------------------------------------------
(* Properties *)

(* percent_to_float is a hundredth of the number before the %: for every    *)
(* text whose hundredth has at most Places + 2 decimals.                    *)
PercentIsHundredth ==
  opts # None =>
    \A f \in {opts.limit, opts.up, opts.down} :
      100 * Value(PercentToFloat(f.text)) = Value(f.text)

(* What a form means, apart from how the command computes it: a price, in   *)
(* the unit of the products, times 100.                                     *)
Means(f, p) ==
  IF f.percent THEN Value(f.text) * p ELSE Value(f.text) * 100 * Units

LeastStep(p) == 100 * Value(MinStep) * p

(* The two ways to write a limit or a step are two branches of the command; *)
(* forms that mean the same price are accepted or refused together, but for *)
(* a step that means exactly min_step: in percent it passes, as a price it  *)
(* is refused where the product min_step * price was rounded up.            *)
FormsAgree ==
  pc = "check" =>
    \A f \in {opts.limit, opts.up} : \A g \in Forms :
      Means(f, seen) = Means(g, seen)
      => /\ LimitAccepted(f, seen) <=> LimitAccepted(g, seen)
         /\ Means(f, seen) # LeastStep(seen) =>
              (StepAccepted(f, seen) <=> StepAccepted(g, seen))

(* The price is read before the prompt and the bot starts after it.  What   *)
(* was given in percent still satisfies its bound at the price of the start *)
(* (no rounding has let a smaller one pass); what was given as a price need *)
(* not.                                                                     *)
PercentsNeverGoStale ==
  bot # None /\ bot.status = "ON" =>
    /\ bot.opts.limit.percent => Means(bot.opts.limit, price) < 100 * One * price
    /\ \A f \in {bot.opts.up, bot.opts.down} :
         f.percent => Means(f, price) >= LeastStep(price)

(* A bot is ON only when START was sent for it, while it was in the table   *)
(* and still OFF: its stream never has to be there for orders of a bot that *)
(* was not asked for, and a failed send leaves no bot trading unserved.     *)
ServedBeforeOn == bot # None /\ bot.status = "ON" => served = "OFF"

-----------------------------------------------------------------------------
(* The inductive invariant: the options saved are those that were accepted  *)
(* at the price read, and the bot stays OFF until START is sent.            *)

CreateInv ==
  /\ price \in Prices
  /\ pc = "ready" => opts = None
  /\ pc # "ready" => opts \in Options /\ seen \in Prices
  /\ pc \in {"ready", "check", "prompt"} => bot = None
  /\ pc \in {"prompt", "send", "start"} \/ bot # None => Accepted(opts, seen)
  /\ bot # None => bot \in [status : {"OFF", "ON"}, opts : {opts}]
  /\ pc \in {"send", "start"} => bot = [status |-> "OFF", opts |-> opts]
  /\ pc = "start" \/ (bot # None /\ bot.status = "ON") => served = "OFF"
=============================================================================
