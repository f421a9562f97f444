------------------------------ MODULE Display ------------------------------
(***************************************************************************)
(* The display compartment.  Each of its entry points is a page: clean the *)
(* screen, draw the title bar, draw lines of text, in so many calls of the *)
(* LCD library.  There is one screen and no lock: a thread that preempts   *)
(* another draws on what is there.  A call is not one step either: it      *)
(* colours the area it covers bit by bit, in an order that is the          *)
(* library's own, and may be interrupted after every bit.                  *)
(*                                                                         *)
(* A text stands for its label, without the numbers in it, and fill_rect   *)
(* and the name of the node on it are one call.  Boxes may overlap, as     *)
(* those of rows 46 and 48 do.  The library is not in the repository:      *)
(* that what an interrupted call has left still goes where it belongs,     *)
(* though another thread has used the SPI bus meanwhile, is assumed.       *)
(***************************************************************************)
EXTENDS Integers, Sequences, SequencesExt

CONSTANTS
  Areas,     \* what a call colours without a break: pixels, say
  TitleBar,  \* the areas of fill_rect
  Box        \* the areas of a text, by its row and its label

\* The threads that draw.
Threads == {"irrigation", "telemetry"}

Rows   == {30, 46, 48, 62, 64}
Colors == {"Black", "Blue", "Red", "Green"}
Labels == {"Connecting to", "network...", "Connected to", "network !",
           "No sensor data", "Temp", "Hum", "Moist",
           "Currently", "watering...", "Watering", "finished!"}

ASSUME DisplayAssumption ==
  TitleBar \subseteq Areas /\ Box \in [Rows \X Labels -> SUBSET Areas]

VARIABLES
  screen,    \* what was last drawn on each area
  todo       \* the LCD calls each thread has yet to make, and to finish

displayVars == <<screen, todo>>

Inks        == Colors \cup Labels
LcdCall     == [areas : SUBSET Areas, ink : Inks]
Screens     == [Areas -> Inks]
BlankScreen == [x \in Areas |-> "Black"]

Clean      == [areas |-> Areas, ink |-> "Black"]
Bar(c)     == [areas |-> TitleBar, ink |-> c]
Text(y, s) == [areas |-> Box[y, s], ink |-> s]

\* Mutant: the old screen is left under the new page.
Page_Over(color, texts) == <<Bar(color), Bar(color)>> \o texts

Page(color, texts) == <<Clean, Bar(color)>> \o texts

display_connecting_network ==
  Page("Blue", <<Text(30, "Connecting to"), Text(46, "network...")>>)

display_connected_network ==
  Page("Blue", <<Text(30, "Connected to"), Text(46, "network !")>>)

display_sensor_readings(valid) ==
  Page("Blue", IF valid THEN <<Text(30, "Temp"), Text(46, "Hum"), Text(62, "Moist")>>
                        ELSE <<Text(30, "No sensor data")>>)

\* Mutant: the two notices are swapped.
display_pump_activation_Swapped(activating) ==
  IF activating
  THEN Page("Green", <<Text(48, "Watering"), Text(64, "finished!")>>)
  ELSE Page("Red", <<Text(48, "Currently"), Text(64, "watering...")>>)

display_pump_activation(activating) ==
  IF activating
  THEN Page("Red", <<Text(48, "Currently"), Text(64, "watering...")>>)
  ELSE Page("Green", <<Text(48, "Watering"), Text(64, "finished!")>>)

Pages == {display_connecting_network, display_connected_network}
           \cup {display_sensor_readings(v) : v \in BOOLEAN}
           \cup {display_pump_activation(a) : a \in BOOLEAN}

\* One call of the library, to its end.
Paint(s, c) == [x \in Areas |-> IF x \in c.areas THEN c.ink ELSE s[x]]

\* What a page looks like when nobody interferes.
Shown(page) == FoldLeft(Paint, BlankScreen, page)

DisplayInit == screen = BlankScreen /\ todo = [t \in Threads |-> <<>>]

Show(t, page) ==
  /\ todo' = [todo EXCEPT ![t] = page]
  /\ UNCHANGED screen

\* One area more, of those that the call has left.
DrawArea(t, x) ==
  /\ todo[t] # <<>>
  /\ x \in Head(todo[t]).areas
  /\ screen' = [screen EXCEPT ![x] = Head(todo[t]).ink]
  /\ todo' = [todo EXCEPT ![t][1].areas = @ \ {x}]

\* No area is left, and the call returns.
CallReturns(t) ==
  /\ todo[t] # <<>>
  /\ Head(todo[t]).areas = {}
  /\ todo' = [todo EXCEPT ![t] = Tail(@)]
  /\ UNCHANGED screen

Draw(t) == CallReturns(t) \/ \E x \in Areas : DrawArea(t, x)

=============================================================================
