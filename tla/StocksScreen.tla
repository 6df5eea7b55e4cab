------------------------------ MODULE StocksScreen ------------------------------
(***************************************************************************)
(* The screen of the Stocks application (Stocks/Controllers/               *)
(* ViewController.swift with IextraClient/StocksClient.swift): a search    *)
(* field, a picker of stocks, and the labels and the logo of the selected  *)
(* one.                                                                    *)
(*                                                                         *)
(* Two threads run its code: the main thread, one UI event or one block of *)
(* the main queue after another, and URLSession's delegate queue, one      *)
(* completion handler after another.  Both write the controller's          *)
(* properties, whose observers (didSet) read them again, so a handler is   *)
(* cut where the other thread may come between an access and the next.     *)
(* Each single access is taken to be atomic.  Answers come in any order    *)
(* and may be failures.  A stock is its symbol; Nil is Swift's nil.        *)
(***************************************************************************)
EXTENDS Integers, Sequences

CONSTANTS Nil,
          Listed,     \* the stocks the service lists, or the default ones if it
                      \* fails: a sequence of symbols
          MaxAction,  \* bound: selections and searches of the user
          MaxPending  \* bound: requests under way when the user acts

ASSUME ListedAssumption == /\ Listed \in Seq({Listed[i] : i \in DOMAIN Listed})
                           /\ \A i \in DOMAIN Listed : Listed[i] # Nil
ASSUME BoundAssumption == MaxAction \in Nat /\ MaxPending \in Nat

VARIABLES allStocks, suitableStocks, selectedStock,  \* of the controller
          symbol,       \* StocksClient.symbol, from which all addresses are built
          picker,       \* rows it was last loaded with, and the selected row
          spinning, labels, picture, alert,          \* what is on screen
          main,         \* where the main thread is in a handler
          mainQ,        \* blocks of the main queue
          background,   \* where the delegate queue is in a completion handler
          pending,      \* requests under way, in the order they were made
          alive,        \* no force unwrap or index has failed
          acted,        \* number of user actions
          history       \* what has happened to requests

model == <<allStocks, suitableStocks, selectedStock>>
shown == <<spinning, labels, picture, alert>>
threads == <<main, background>>
vars == <<model, symbol, picker, shown, threads, mainQ, pending, alive, acted, history>>

-----------------------------------------------------------------------------
Idle == [step |-> "idle"]
Start == [do |-> "start"]
Stop == [do |-> "stop"]
Reload == [do |-> "reload"]
Request == [do |-> "request"]
Alert == [do |-> "alert"]
Labels(s) == [do |-> "labels", stock |-> s]
Picture(s) == [do |-> "picture", of |-> s]
Remove(s, i) == SubSeq(s, 1, i - 1) \o SubSeq(s, i + 1, Len(s))

Init ==
  /\ allStocks = Nil /\ suitableStocks = Nil /\ selectedStock = Nil /\ symbol = Nil
  /\ picker = [rows |-> 0, row |-> 0]
  /\ spinning = FALSE /\ labels = Nil /\ picture = Nil /\ alert = FALSE
  /\ main = Idle /\ background = Idle
  /\ mainQ = <<Start>>
  /\ pending = <<[kind |-> "list", of |-> Nil]>>
  /\ alive = TRUE /\ acted = 0
  /\ history = [overtaken |-> FALSE, noPicture |-> FALSE]

-----------------------------------------------------------------------------
(* Code that either thread runs.                                           *)

\* updateStockInfo() after it found stock in selectedStock.  The logo's address
\* is built from symbol, whatever the stock is.
UpdateStockInfo(stock, after) ==
  /\ mainQ' = Append(mainQ, Labels(stock)) \o after
  /\ pending' = IF stock = Nil THEN pending
                ELSE Append(pending, [kind |-> "logo", of |-> symbol])

-----------------------------------------------------------------------------
(* The main thread.                                                        *)

MainIdle == alive /\ main = Idle
Block(do) == MainIdle /\ mainQ # << >> /\ Head(mainQ).do = do

\* loadSelectedStock() up to the observer of selectedStock; queue is what is in
\* the main queue at its call.
BeginLoadSelected(queue) ==
  /\ mainQ' = Append(queue, Start)
  /\ selectedStock' = Nil
  /\ main' = [step |-> "read"]

ReadSelected ==
  /\ alive /\ main.step = "read"
  /\ main' = [step |-> "update", stock |-> selectedStock]
  /\ UNCHANGED <<model, symbol, picker, shown, background, mainQ, pending, alive, acted, history>>

EndLoadSelected ==
  /\ alive /\ main.step = "update"
  /\ UpdateStockInfo(main.stock, <<Request>>)
  /\ main' = Idle
  /\ UNCHANGED <<model, symbol, picker, shown, background, alive, acted, history>>

\* Faulty variant: the selected stock is not loaded again.
ReloadPickerOnly ==
  /\ Block("reload")
  /\ picker' = [rows |-> IF suitableStocks = Nil THEN 0 ELSE Len(suitableStocks), row |-> 0]
  /\ mainQ' = Tail(mainQ)
  /\ UNCHANGED <<model, symbol, shown, threads, pending, alive, acted, history>>

\* updatePickerView(): an empty picker has row 0 or none selected.
ReloadPicker ==
  /\ Block("reload")
  /\ LET rows == IF suitableStocks = Nil THEN 0 ELSE Len(suitableStocks)
     IN  \E row \in IF rows = 0 THEN {-1, 0}
                    ELSE IF picker.row < 0 THEN {0}
                    ELSE IF picker.row < rows THEN {picker.row} ELSE {rows - 1} :
           picker' = [rows |-> rows, row |-> row]
  /\ BeginLoadSelected(Tail(mainQ))
  /\ UNCHANGED <<allStocks, suitableStocks, symbol, shown, background, pending, alive, acted, history>>

Found == suitableStocks # Nil /\ picker.row <= Len(suitableStocks) /\ suitableStocks # << >>
InRange == picker.row \in 0 .. Len(suitableStocks) - 1

\* Faulty variant: the client does not store the symbol it is called with.
SendRequestNoSymbol ==
  /\ Block("request")
  /\ Found /\ InRange
  /\ pending' = Append(pending, [kind |-> "stock", of |-> suitableStocks[picker.row + 1]])
  /\ mainQ' = Tail(mainQ)
  /\ UNCHANGED <<model, symbol, picker, shown, threads, alive, acted, history>>

\* The second block of loadSelectedStock(): it asks for the selected stock ...
SendRequest ==
  /\ Block("request")
  /\ Found /\ InRange
  /\ symbol' = suitableStocks[picker.row + 1]
  /\ pending' = Append(pending, [kind |-> "stock", of |-> symbol'])
  /\ mainQ' = Tail(mainQ)
  /\ UNCHANGED <<model, picker, shown, threads, alive, acted, history>>

\* ... or returns at once ...
NothingToRequest ==
  /\ Block("request")
  /\ suitableStocks # Nil /\ ~Found
  /\ mainQ' = Tail(mainQ)
  /\ UNCHANGED <<model, symbol, picker, shown, threads, pending, alive, acted, history>>

\* ... or the process dies of a nil or of an index out of range.
Trap ==
  /\ Block("request")
  /\ suitableStocks = Nil \/ (Found /\ ~InRange)
  /\ alive' = FALSE
  /\ UNCHANGED <<model, symbol, picker, shown, threads, mainQ, pending, acted, history>>

Spin(do, on) ==
  /\ Block(do)
  /\ spinning' = on /\ mainQ' = Tail(mainQ)
  /\ UNCHANGED <<model, symbol, picker, labels, picture, alert, threads, pending, alive, acted, history>>

ShowLabels ==
  /\ Block("labels")
  /\ labels' = Head(mainQ).stock
  /\ picture' = IF labels' = Nil THEN Nil ELSE picture
  /\ mainQ' = Tail(mainQ)
  /\ UNCHANGED <<model, symbol, picker, spinning, alert, threads, pending, alive, acted, history>>

ShowPicture ==
  /\ Block("picture")
  /\ picture' = Head(mainQ).of /\ mainQ' = Tail(mainQ)
  /\ UNCHANGED <<model, symbol, picker, spinning, labels, alert, threads, pending, alive, acted, history>>

ShowAlert ==
  /\ Block("alert")
  /\ alert' = TRUE /\ mainQ' = Tail(mainQ)
  /\ UNCHANGED <<model, symbol, picker, spinning, labels, picture, threads, pending, alive, acted, history>>

-----------------------------------------------------------------------------
(* The user, who can do nothing while an alert is up.                      *)

Act == /\ MainIdle /\ ~alert
       /\ Len(pending) <= MaxPending
       /\ acted < MaxAction /\ acted' = acted + 1

SelectRow(r) ==
  /\ Act
  /\ r \in 0 .. picker.rows - 1
  /\ picker' = [picker EXCEPT !.row = r]
  /\ BeginLoadSelected(mainQ)
  /\ UNCHANGED <<allStocks, suitableStocks, symbol, shown, background, pending, alive, history>>

\* The indices of some of n stocks, in order.
Filters(n) == {r \in UNION {[1 .. k -> 1 .. n] : k \in 0 .. n} :
                 \A i, j \in DOMAIN r : i < j => r[i] < r[j]}

\* searchDidEnd: the stocks whose names start with the text are some of them.
SearchDidEnd ==
  /\ Act
  /\ allStocks # Nil
  /\ \E r \in Filters(Len(allStocks)) :
       suitableStocks' = [k \in DOMAIN r |-> allStocks[r[k]]]
  /\ mainQ' = Append(mainQ, Reload)
  /\ UNCHANGED <<allStocks, selectedStock, symbol, picker, shown, threads, pending, alive, history>>

\* onChanging, the text having become empty: allStocks is read, then assigned.
TextCleared ==
  /\ Act
  /\ main' = [step |-> "assign", stocks |-> allStocks]
  /\ UNCHANGED <<model, symbol, picker, shown, background, mainQ, pending, alive, history>>

AssignSuitable ==
  /\ alive /\ main.step = "assign"
  /\ suitableStocks' = main.stocks
  /\ mainQ' = Append(mainQ, Reload)
  /\ main' = Idle
  /\ UNCHANGED <<allStocks, selectedStock, symbol, picker, shown, background, pending, alive, acted, history>>

DismissAlert ==
  /\ MainIdle /\ alert
  /\ alert' = FALSE
  /\ UNCHANGED <<model, symbol, picker, spinning, labels, picture, threads, mainQ, pending, alive, acted, history>>

-----------------------------------------------------------------------------
(* URLSession's delegate queue.                                            *)

\* The answer to the i-th request arrives; overtaking counts among requests for
\* stocks, and among those for logos and their images.
Picturing(r) == r.kind \in {"logo", "image"}
Arrives(i, kind) ==
  /\ alive /\ background = Idle
  /\ pending[i].kind = kind
  /\ history' = [history EXCEPT !.overtaken = @ \/ \E j \in 1 .. i - 1 :
                    \/ pending[j].kind = kind
                    \/ Picturing(pending[i]) /\ Picturing(pending[j])]

ListArrives(i) ==
  /\ Arrives(i, "list")
  /\ pending' = Remove(pending, i)
  /\ allStocks' = Listed
  /\ background' = [step |-> "suitable"]
  /\ UNCHANGED <<suitableStocks, selectedStock, symbol, picker, shown, main, mainQ, alive, acted>>

SetSuitable ==
  /\ alive /\ background.step = "suitable"
  /\ suitableStocks' = Listed
  /\ mainQ' = Append(mainQ, Reload)
  /\ background' = [step |-> "stop"]
  /\ UNCHANGED <<allStocks, selectedStock, symbol, picker, shown, main, pending, alive, acted, history>>

StockArrives(i) ==
  /\ Arrives(i, "stock")
  /\ pending' = Remove(pending, i)
  /\ \/ selectedStock' = pending[i].of /\ mainQ' = mainQ
     \/ selectedStock' = Nil /\ mainQ' = Append(mainQ, Alert)
  /\ background' = [step |-> "read"]
  /\ UNCHANGED <<allStocks, suitableStocks, symbol, picker, shown, main, alive, acted>>

ReadArrived ==
  /\ alive /\ background.step = "read"
  /\ background' = [step |-> "update", stock |-> selectedStock]
  /\ UNCHANGED <<model, symbol, picker, shown, main, mainQ, pending, alive, acted, history>>

UpdateArrived ==
  /\ alive /\ background.step = "update"
  /\ UpdateStockInfo(background.stock, << >>)
  /\ background' = [step |-> "stop"]
  /\ UNCHANGED <<model, symbol, picker, shown, main, alive, acted, history>>

\* Faulty variant: only a stock that arrived stops the activity indicator.
StopSpinningIfFound ==
  /\ alive /\ background.step = "stop"
  /\ mainQ' = IF selectedStock = Nil THEN mainQ ELSE Append(mainQ, Stop)
  /\ background' = Idle
  /\ UNCHANGED <<model, symbol, picker, shown, main, pending, alive, acted, history>>

StopSpinning ==
  /\ alive /\ background.step = "stop"
  /\ mainQ' = Append(mainQ, Stop)
  /\ background' = Idle
  /\ UNCHANGED <<model, symbol, picker, shown, main, pending, alive, acted, history>>

\* The logo's address arrived: its image is asked for.
LogoArrives(i) ==
  /\ Arrives(i, "logo")
  /\ pending' = [pending EXCEPT ![i].kind = "image"]
  /\ UNCHANGED <<model, symbol, picker, shown, threads, mainQ, alive, acted>>

ImageArrives(i) ==
  /\ Arrives(i, "image")
  /\ pending' = Remove(pending, i)
  /\ mainQ' = Append(mainQ, Picture(pending[i].of))
  /\ UNCHANGED <<model, symbol, picker, shown, threads, alive, acted>>

NoPicture(i) ==
  /\ alive /\ background = Idle
  /\ Picturing(pending[i])
  /\ pending' = Remove(pending, i)
  /\ mainQ' = Append(mainQ, Alert)
  /\ history' = [history EXCEPT !.noPicture = TRUE]
  /\ UNCHANGED <<model, symbol, picker, shown, threads, alive, acted>>

-----------------------------------------------------------------------------
User ==
  \/ \E r \in 0 .. picker.rows - 1 : SelectRow(r)
  \/ SearchDidEnd \/ TextCleared \/ DismissAlert

Main ==
  \/ ReadSelected \/ EndLoadSelected \/ AssignSuitable
  \/ Spin("start", TRUE) \/ Spin("stop", FALSE)
  \/ ReloadPicker \/ SendRequest \/ NothingToRequest \/ Trap
  \/ ShowLabels \/ ShowPicture \/ ShowAlert

Delegate ==
  \/ SetSuitable \/ ReadArrived \/ UpdateArrived \/ StopSpinning
  \/ \E i \in DOMAIN pending : ListArrives(i) \/ StockArrives(i)
                              \/ LogoArrives(i) \/ ImageArrives(i) \/ NoPicture(i)

Next == User \/ Main \/ Delegate

Spec == Init /\ [][Next]_vars

\* The threads keep running, and URLSession answers every request or reports
\* that it timed out: the process does not stop while there is something to do.
\* The user need not do anything, and what the user does is bounded.
Quiet == alive /\ main = Idle /\ background = Idle /\ mainQ = << >> /\ pending = << >>

FairSpec == Spec /\ ([]<>(Quiet \/ ~alive) \/ []<><<TRUE>>_vars)

-----------------------------------------------------------------------------
(* Properties.                                                             *)

OrNil(S) == S \cup {Nil}
Symbols == {Listed[i] : i \in DOMAIN Listed}
StockLists == OrNil(Seq(Symbols))
BlockOK(b) == \/ b \in {Start, Stop, Reload, Request, Alert}
              \/ b \in [do : {"labels"}, stock : OrNil(Symbols)]
              \/ b \in [do : {"picture"}, of : Symbols]

\* Lists, symbols and queues have the shape the handlers expect; in particular
\* no logo is asked for before a stock was, when symbol is still empty.
TypeOK ==
  /\ {allStocks, suitableStocks} \subseteq StockLists
  /\ {selectedStock, symbol, labels, picture} \subseteq OrNil(Symbols)
  /\ picker \in [rows : Nat, row : Nat \cup {-1}]
  /\ {spinning, alert, alive} \subseteq BOOLEAN
  /\ history \in [overtaken : BOOLEAN, noPicture : BOOLEAN]
  /\ acted \in Nat
  /\ \/ main \in [step : {"idle", "read"}]
     \/ main \in [step : {"update"}, stock : OrNil(Symbols)]
     \/ main.step = "assign" /\ main.stocks \in StockLists
  /\ \/ background \in [step : {"idle", "suitable", "read", "stop"}]
     \/ background \in [step : {"update"}, stock : OrNil(Symbols)]
  /\ \A i \in DOMAIN mainQ : BlockOK(mainQ[i])
  /\ \A i \in DOMAIN pending :
       \/ pending[i] = [kind |-> "list", of |-> Nil]
       \/ pending[i] \in [kind : {"stock", "logo", "image"}, of : Symbols]

\* When everything has come to rest the activity indicator runs only if the
\* search found no stock: however starts and stops interleave, no answered
\* request leaves it running.
SpinnerSettles == Quiet /\ spinning => suitableStocks = << >>

\* When everything has come to rest, and no answer overtook an earlier one, the
\* labels show what selectedStock holds, which is the stock of the selected row
\* or nothing: neither the race of the two threads on selectedStock nor the
\* order of the blocks leaves the screen with another stock.
LabelsFitRow ==
  Quiet /\ ~history.overtaken /\ suitableStocks # << >> =>
    labels = selectedStock /\ labels \in {Nil, suitableStocks[picker.row + 1]}

\* Likewise for the logo, if none failed to load: although its address is built
\* from the symbol last asked for and not from the stock that arrived, in the
\* end it is the logo of the stock on the labels.
PictureFitsLabels ==
  Quiet /\ ~history.overtaken /\ ~history.noPicture /\ suitableStocks # << >> /\ labels # Nil
    => picture = labels

\* The screen does come to rest: the observers and blocks that call each other
\* do not go on for ever, and the activity indicator stops unless the search
\* found nothing, or the process died.
SpinnerStops == spinning ~> (~spinning \/ suitableStocks = << >> \/ ~alive)

\* loadSelectedStock force-unwraps suitableStocks, and so asserts that stocks
\* were loaded before a selection is looked at.
StocksAreLoaded == Block("request") => suitableStocks # Nil
=============================================================================
