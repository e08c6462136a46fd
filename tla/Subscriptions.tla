--------------------------- MODULE Subscriptions ---------------------------
(***************************************************************************)
(* marketdata/client.go as its callers see it: one connection to the       *)
(* exchange, the client's own list of symbols for the next connection, and *)
(* the error messages by which the exchange rejects symbols.  Calls are    *)
(* atomic here.                                                            *)
(***************************************************************************)
EXTENDS Integers, Sequences

CONSTANTS
  Symbols,       \* every symbol that can be asked for
  Invalid,       \* the symbols the exchange rejects
  Index,         \* NSE:NIFTY50-INDEX, subscribed by main at boot
  MaxRejections  \* BOUND: messages still unread when a reconnect happens

ASSUME SubscriptionsAssumption ==
  /\ Invalid \subseteq Symbols
  /\ Index \in Symbols \ Invalid
  /\ MaxRejections \in Nat

VARIABLES
  connected,     \* the websocket is up
  symbols,       \* c.symbols: what onConnect subscribes again
  feed,          \* the symbols the exchange streams on this connection
  rejections     \* invalid_symbols messages on their way to the handler, in order

clientVars == <<connected, symbols, feed, rejections>>

(* The exchange streams the symbols it knows and reports the others in one *)
(* error message.                                                          *)
Granted(syms)  == syms \ Invalid
Reported(syms) == IF syms \cap Invalid = {} THEN <<>> ELSE <<syms \cap Invalid>>

(* Connect, onConnect with nothing to repeat, and main's first Subscribe. *)
ClientBoot ==
  /\ connected' = TRUE
  /\ symbols' = {Index}
  /\ feed' = {Index}
  /\ rejections' = <<>>

ClientDown ==
  /\ connected' = FALSE
  /\ symbols' = {}
  /\ feed' = {}
  /\ rejections' = <<>>

(* Subscribe, called when the messages in msgs are still unread: remember  *)
(* the symbols, then ask for them; without a connection the request goes   *)
(* nowhere and onConnect repeats it.                                       *)
SubscribeUnread(syms, msgs) ==
  /\ symbols' = symbols \cup syms
  /\ feed' = IF connected THEN feed \cup Granted(syms) ELSE feed
  /\ rejections' = IF connected THEN msgs \o Reported(syms) ELSE msgs
  /\ UNCHANGED connected

Subscribe(syms) == SubscribeUnread(syms, rejections)

(* Unsubscribe: only the exchange is told; the list keeps the symbols. *)
Unsubscribe(syms) ==
  /\ feed' = feed \ syms
  /\ UNCHANGED <<connected, symbols, rejections>>

(* The connection drops, and with it any message not yet received. *)
Disconnect ==
  /\ connected
  /\ connected' = FALSE
  /\ feed' = {}
  /\ \E n \in 0..Len(rejections) : rejections' = SubSeq(rejections, 1, n)
  /\ UNCHANGED symbols

(* The SDK reconnects and calls onConnect. *)
Reconnect ==
  /\ ~connected
  /\ Len(rejections) < MaxRejections
  /\ connected' = TRUE
  /\ feed' = Granted(symbols)
  /\ rejections' = rejections \o Reported(symbols)
  /\ UNCHANGED symbols
=============================================================================
