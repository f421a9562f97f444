---------------------------- MODULE ScreenProofs ----------------------------
(***************************************************************************)
(* What two threads leave on one screen that nobody locks.  The argument   *)
(* looks ahead: a thread that is in the middle of a page is as good as     *)
(* done, if what is on the screen and what it has yet to draw together     *)
(* make the page.                                                          *)
(***************************************************************************)
EXTENDS ReadingsProofs

-----------------------------------------------------------------------------
(* A page, call by call *)

\* The function by which FoldLeft is defined, for the first n calls of q.
Folds(g, s, q, n) ==
  g = [D \in SUBSET (1 .. n) |->
         IF D = {} THEN s ELSE Paint(g[D \ {Max(D)}], q[Max(D)])]

LEMMA LargestIs ==
  ASSUME NEW n \in Nat, NEW D \in SUBSET (1 .. n), n \in D
  PROVE  Max(D) = n
  <1>1. \A y \in D : n >= y
    OBVIOUS
  <1>2. \A x \in D : (\A y \in D : x >= y) => x = n
    OBVIOUS
  <1>3. QED BY <1>1, <1>2 DEF Max

\* There is one.
LEMMA FoldExists ==
  ASSUME NEW s, NEW q
  PROVE  \A n \in Nat : \E g : Folds(g, s, q, n)
  <1> DEFINE T == {n \in Nat : \E g : Folds(g, s, q, n)}
  <1>1. 0 \in T
    <2>1. 1 .. 0 = {}
      OBVIOUS
    <2>2. Folds([D \in {{}} |-> s], s, q, 0)
      BY <2>1 DEF Folds
    <2>3. QED BY <2>2
  <1>2. ASSUME NEW n \in Nat, n \in T PROVE n + 1 \in T
    <2> DEFINE m == n + 1
    <2>1. PICK g : Folds(g, s, q, n)
      BY <1>2
    <2>2. m \in Nat /\ m \in 1 .. m /\ 1 .. n = (1 .. m) \ {m}
      OBVIOUS
    <2> HIDE DEF m
    <2> DEFINE h == [D \in SUBSET (1 .. m) |->
                       IF m \in D THEN Paint(g[D \ {m}], q[m]) ELSE g[D]]
    <2>3. ASSUME NEW D \in SUBSET (1 .. m)
          PROVE  h[D] = IF D = {} THEN s ELSE Paint(h[D \ {Max(D)}], q[Max(D)])
      <3>1. CASE m \in D
        <4>1. Max(D) = m
          BY <2>2, <3>1, LargestIs
        <4>2. h[D \ {m}] = g[D \ {m}]
          OBVIOUS
        <4>3. QED BY <3>1, <4>1, <4>2
      <3>2. CASE m \notin D
        <4>1. D \in SUBSET (1 .. n) /\ D \ {Max(D)} \in SUBSET (1 .. n)
          BY <2>2, <3>2
        <4>2. g[D] = IF D = {} THEN s ELSE Paint(g[D \ {Max(D)}], q[Max(D)])
          BY <2>1, <4>1 DEF Folds
        <4>3. h[D \ {Max(D)}] = g[D \ {Max(D)}] /\ h[D] = g[D]
          BY <3>2
        <4>4. QED BY <4>2, <4>3
      <3>3. QED BY <3>1, <3>2
    <2>4. Folds(h, s, q, m)
      BY <2>3 DEF Folds
    <2>5. QED BY <2>2, <2>4 DEF m
  <1>3. Nat \subseteq T
    <2> HIDE DEF T
    <2> QED BY <1>1, <1>2, AllNumbers
  <1>4. QED BY <1>3

\* It takes one call after the other.
Steps(g, s, q, n) ==
  /\ g[1 .. 0] = s
  /\ \A k \in Nat : k + 1 <= n => g[1 .. k + 1] = Paint(g[1 .. k], q[k + 1])

LEMMA FoldSteps ==
  ASSUME NEW s, NEW q, NEW n \in Nat, NEW g, Folds(g, s, q, n)
  PROVE  Steps(g, s, q, n)
  <1>1. g[1 .. 0] = s
    <2>1. 1 .. 0 = {}
      OBVIOUS
    <2>2. QED BY <2>1 DEF Folds
  <1>2. ASSUME NEW k \in Nat, k + 1 <= n
        PROVE  g[1 .. k + 1] = Paint(g[1 .. k], q[k + 1])
    <2> DEFINE D == 1 .. k + 1
    <2>1. /\ D \in SUBSET (1 .. n) /\ D # {} /\ k + 1 \in Nat
          /\ D \in SUBSET (1 .. k + 1) /\ k + 1 \in D /\ D \ {k + 1} = 1 .. k
      BY <1>2
    <2>2. Max(D) = k + 1
      BY <2>1, LargestIs
    <2>3. g[D] = Paint(g[D \ {Max(D)}], q[Max(D)])
      BY <2>1 DEF Folds
    <2>4. QED BY <2>1, <2>2, <2>3
  <1>3. QED BY <1>1, <1>2 DEF Steps

LEMMA FoldIs ==
  ASSUME NEW S, NEW s, NEW q \in Seq(S)
  PROVE  \E g : Steps(g, s, q, Len(q)) /\ FoldLeft(Paint, s, q) = g[1 .. Len(q)]
  <1> DEFINE h == CHOOSE g : Folds(g, s, q, Len(q))
  <1>1. DOMAIN q = 1 .. Len(q) /\ Len(q) \in Nat
    OBVIOUS
  <1>2. FoldLeft(Paint, s, q) = h[1 .. Len(q)]
    BY <1>1, Zenon DEF FoldLeft, MapThenFoldSet, Folds
  <1>3. \E g : Folds(g, s, q, Len(q))
    BY <1>1, FoldExists
  <1>4. Folds(h, s, q, Len(q))
    BY <1>3, Zenon
  <1>5. Steps(h, s, q, Len(q))
    BY <1>1, <1>4, FoldSteps
  <1>6. QED BY <1>2, <1>5

\* What the calls of q make of s.
Drawn(s, q) == FoldLeft(Paint, s, q)

\* Nothing left to draw; and the first call drawn, the rest left.
LEMMA NothingLeft == \A s : Drawn(s, <<>>) = s
  <1> TAKE s
  <1>1. <<>> \in Seq(LcdCall) /\ Len(<<>>) = 0
    OBVIOUS
  <1>2. PICK g : Steps(g, s, <<>>, 0) /\ Drawn(s, <<>>) = g[1 .. 0]
    BY <1>1, FoldIs DEF Drawn
  <1>3. QED BY <1>2 DEF Steps

LEMMA FirstDrawn ==
  ASSUME NEW S, NEW s, NEW q \in Seq(S), q # <<>>
  PROVE  Drawn(s, q) = Drawn(Paint(s, Head(q)), Tail(q))
  <1> SUFFICES ASSUME NEW r, r = Paint(s, Head(q)), NEW t, t = Tail(q)
               PROVE  Drawn(s, q) = Drawn(r, t)
    OBVIOUS
  <1>1. /\ t \in Seq(S) /\ Len(t) \in Nat /\ Len(t) + 1 = Len(q)
        /\ r = Paint(s, q[1]) /\ \A i \in 1 .. Len(t) : t[i] = q[i + 1]
    OBVIOUS
  <1>2. PICK g : Steps(g, s, q, Len(q)) /\ Drawn(s, q) = g[1 .. Len(q)]
    BY FoldIs, Zenon DEF Drawn
  <1>3. PICK h : Steps(h, r, t, Len(t)) /\ Drawn(r, t) = h[1 .. Len(t)]
    <2>1. t \in Seq(S)
      BY <1>1
    <2>2. QED BY <2>1, FoldIs, Zenon DEF Drawn
  <1> DEFINE T == {k \in Nat : k <= Len(t) => g[1 .. k + 1] = h[1 .. k]}
  <1>4. 0 \in T
    <2>1. g[1 .. 0] = s /\ h[1 .. 0] = r
      BY <1>2, <1>3, Zenon DEF Steps
    <2>2. 0 \in Nat /\ 0 + 1 <= Len(q)
      BY <1>1
    <2>3. g[1 .. 0 + 1] = Paint(g[1 .. 0], q[0 + 1])
      BY <1>2, <2>2, Zenon DEF Steps
    <2>4. g[1 .. 0 + 1] = Paint(s, q[1])
      BY <2>1, <2>3
    <2>5. QED BY <1>1, <2>1, <2>4
  <1>5. ASSUME NEW k \in Nat, k \in T PROVE k + 1 \in T
    <2> SUFFICES ASSUME k + 1 <= Len(t) PROVE g[1 .. (k + 1) + 1] = h[1 .. k + 1]
      OBVIOUS
    <2>1. k + 1 \in Nat /\ (k + 1) + 1 <= Len(q) /\ k <= Len(t)
      BY <1>1
    <2>2. g[1 .. (k + 1) + 1] = Paint(g[1 .. k + 1], q[(k + 1) + 1])
      BY <1>2, <2>1, Zenon DEF Steps
    <2>3. h[1 .. k + 1] = Paint(h[1 .. k], t[k + 1])
      BY <1>3, <2>1, Zenon DEF Steps
    <2>4. t[k + 1] = q[(k + 1) + 1]
      BY <1>1, <2>1
    <2>5. g[1 .. k + 1] = h[1 .. k]
      BY <1>5, <2>1
    <2>6. QED BY <2>2, <2>3, <2>4, <2>5, Zenon
  <1>6. Nat \subseteq T
    <2> HIDE DEF T
    <2> QED BY <1>4, <1>5, AllNumbers
  <1>7. g[1 .. Len(t) + 1] = h[1 .. Len(t)]
    BY <1>1, <1>6
  <1>8. QED BY <1>1, <1>2, <1>3, <1>7

\* Four calls, which is a page with two lines.
LEMMA FourDrawn ==
  ASSUME NEW s, NEW a \in LcdCall, NEW b \in LcdCall, NEW c \in LcdCall, NEW d \in LcdCall
  PROVE  Drawn(s, <<a, b, c, d>>) = Paint(Paint(Paint(Paint(s, a), b), c), d)
  <1>1. /\ <<a, b, c, d>> \in Seq(LcdCall) /\ <<b, c, d>> \in Seq(LcdCall)
        /\ <<c, d>> \in Seq(LcdCall) /\ <<d>> \in Seq(LcdCall)
    OBVIOUS
  <1>2. /\ <<a, b, c, d>> # <<>> /\ Head(<<a, b, c, d>>) = a
        /\ Tail(<<a, b, c, d>>) = <<b, c, d>>
        /\ <<b, c, d>> # <<>> /\ Head(<<b, c, d>>) = b /\ Tail(<<b, c, d>>) = <<c, d>>
        /\ <<c, d>> # <<>> /\ Head(<<c, d>>) = c /\ Tail(<<c, d>>) = <<d>>
        /\ <<d>> # <<>> /\ Head(<<d>>) = d /\ Tail(<<d>>) = <<>>
    OBVIOUS
  <1>3. \A r : Drawn(r, <<a, b, c, d>>) = Drawn(Paint(r, a), <<b, c, d>>)
    BY <1>1, <1>2, FirstDrawn, Zenon
  <1>4. \A r : Drawn(r, <<b, c, d>>) = Drawn(Paint(r, b), <<c, d>>)
    BY <1>1, <1>2, FirstDrawn, Zenon
  <1>5. \A r : Drawn(r, <<c, d>>) = Drawn(Paint(r, c), <<d>>)
    BY <1>1, <1>2, FirstDrawn, Zenon
  <1>6. \A r : Drawn(r, <<d>>) = Paint(r, d)
    BY <1>1, <1>2, FirstDrawn, NothingLeft, Zenon
  <1>7. QED BY <1>3, <1>4, <1>5, <1>6, Zenon

\* What each call does.
LEMMA Cleaned == \A s : Paint(s, Clean) = BlankScreen
  BY DEF Paint, Clean, BlankScreen

LEMMA Coloured ==
  ASSUME NEW s, NEW c, NEW x \in Areas
  PROVE  Paint(s, c)[x] = IF x \in c.areas THEN c.ink ELSE s[x]
  BY DEF Paint

\* q with other areas left of its first call.
With(q, A) == [q EXCEPT ![1].areas = A]

LEMMA FirstChanged ==
  ASSUME NEW q \in Seq(LcdCall), q # <<>>, NEW A \in SUBSET Areas
  PROVE  /\ With(q, A) \in Seq(LcdCall) /\ With(q, A) # <<>> /\ Tail(With(q, A)) = Tail(q)
         /\ Head(With(q, A)).areas = A /\ Head(With(q, A)).ink = Head(q).ink
         /\ A = Head(q).areas => With(q, A) = q
         /\ \A B : With(With(q, A), B) = With(q, B)
  <1>0. PICK r : r = With(q, A)
    OBVIOUS
  <1>1. /\ Len(q) \in Nat /\ 1 \in 1 .. Len(q) /\ q[1] \in LcdCall /\ Head(q) = q[1]
        /\ q \in [1 .. Len(q) -> LcdCall]
    OBVIOUS
  <1>2. PICK c : c = [q[1] EXCEPT !.areas = A]
    OBVIOUS
  <1>3. c \in LcdCall /\ c.areas = A /\ c.ink = q[1].ink
    BY <1>1, <1>2 DEF LcdCall
  <1>4. r = [q EXCEPT ![1] = c]
    BY <1>0, <1>2 DEF With
  <1>5. r \in Seq(LcdCall) /\ Len(r) = Len(q) /\ r # <<>> /\ r[1] = c /\ Head(r) = c
    BY <1>1, <1>3, <1>4
  <1>6. Tail(r) = Tail(q)
    <2>1. /\ Tail(r) \in Seq(LcdCall) /\ Tail(q) \in Seq(LcdCall)
          /\ Len(Tail(r)) = Len(q) - 1 /\ Len(Tail(q)) = Len(q) - 1
          /\ \A i \in 1 .. Len(q) - 1 : Tail(r)[i] = r[i + 1] /\ Tail(q)[i] = q[i + 1]
      BY <1>1, <1>5, HeadTailProperties
    <2>2. \A i \in 1 .. Len(q) - 1 : r[i + 1] = q[i + 1]
      BY <1>1, <1>4
    <2>3. QED BY <2>1, <2>2, SeqEqual
  <1>7. A = Head(q).areas => r = q
    <2> SUFFICES ASSUME A = q[1].areas PROVE r = q
      BY <1>1
    <2>1. c = q[1]
      BY <1>1, <1>2 DEF LcdCall
    <2>2. QED BY <1>1, <1>4, <2>1
  <1>8. ASSUME NEW B
        PROVE  With(r, B) = With(q, B)
    <2>1. [r[1] EXCEPT !.areas = B] = [q[1] EXCEPT !.areas = B]
      BY <1>1, <1>2, <1>5 DEF LcdCall
    <2>2. QED BY <1>1, <1>4, <2>1 DEF With
  <1>9. QED BY <1>0, <1>1, <1>3, <1>5, <1>6, <1>7, <1>8

\* A thread that draws comes no nearer to another screen.
LEMMA DrawKeeps ==
  ASSUME ScreenType, NEW t \in Threads, Draw(t)
  PROVE  Drawn(screen', todo'[t]) = Drawn(screen, todo[t])
  <1>1. PICK q : q = todo[t]
    OBVIOUS
  <1>2. /\ q \in Seq(LcdCall) /\ q # <<>> /\ screen \in [Areas -> Inks]
        /\ todo \in [Threads -> Seq(LcdCall)]
    BY <1>1 DEF ScreenType, Screens, Draw, CallReturns, DrawArea
  <1>3. Drawn(screen, q) = Drawn(Paint(screen, Head(q)), Tail(q))
    BY <1>2, FirstDrawn
  <1>4. CASE CallReturns(t)
    <2>1. screen' = screen /\ todo'[t] = Tail(q) /\ Head(q).areas = {}
      BY <1>1, <1>2, <1>4 DEF CallReturns
    <2>2. Paint(screen, Head(q)) = screen
      BY <1>2, <2>1 DEF Paint
    <2>3. QED BY <1>1, <1>3, <2>1, <2>2
  <1>5. ASSUME NEW x \in Areas, DrawArea(t, x)
        PROVE  Drawn(screen', todo'[t]) = Drawn(screen, todo[t])
    <2>0. Head(q) = q[1] /\ q[1] \in LcdCall
      BY <1>2
    <2>1. PICK A : A = q[1].areas \ {x}
      OBVIOUS
    <2>2. PICK r : r = With(q, A)
      OBVIOUS
    <2>3. A \in SUBSET Areas
      BY <2>0, <2>1 DEF LcdCall
    <2>4. /\ r \in Seq(LcdCall) /\ r # <<>> /\ Tail(r) = Tail(q)
          /\ Head(r).areas = A /\ Head(r).ink = Head(q).ink
      BY <1>2, <2>2, <2>3, FirstChanged
    <2>5. /\ todo'[t] = r /\ x \in Head(q).areas
          /\ screen' = [screen EXCEPT ![x] = Head(q).ink]
      BY <1>1, <1>2, <1>5, <2>1, <2>2 DEF DrawArea, With
    <2>6. Drawn(screen', r) = Drawn(Paint(screen', Head(r)), Tail(r))
      BY <2>4, FirstDrawn
    <2>7. Paint(screen', Head(r)) = Paint(screen, Head(q))
      <3> SUFFICES ASSUME NEW y \in Areas
                   PROVE  (IF y \in Head(r).areas THEN Head(r).ink ELSE screen'[y])
                            = (IF y \in Head(q).areas THEN Head(q).ink ELSE screen[y])
        BY DEF Paint
      <3>1. CASE y = x
        BY <1>2, <2>0, <2>1, <2>4, <2>5, <3>1
      <3>2. CASE y # x
        BY <1>2, <2>0, <2>1, <2>4, <2>5, <3>2
      <3>3. QED BY <3>1, <3>2
    <2>8. QED BY <1>1, <1>3, <2>4, <2>5, <2>6, <2>7
  <1>6. QED BY <1>4, <1>5 DEF Draw

-----------------------------------------------------------------------------
(* The pages *)

TelemetryPages ==
  {display_connecting_network, display_connected_network, display_sensor_readings(TRUE)}

Notice(a) == Shown(display_pump_activation(a))

\* A page whose first call cleans the screen looks the same on any.
LEMMA CleanFirst ==
  ASSUME NEW s \in Screens, NEW p \in CleanPages
  PROVE  Drawn(s, p) = Shown(p)
  <1>1. p \in Seq(LcdCall) /\ p # <<>> /\ Head(p) = Clean
    BY DEF CleanPages
  <1>2. Drawn(s, p) = Drawn(Paint(s, Head(p)), Tail(p))
    BY <1>1, FirstDrawn
  <1>3. Drawn(BlankScreen, p) = Drawn(Paint(BlankScreen, Head(p)), Tail(p))
    BY <1>1, FirstDrawn
  <1>4. QED BY <1>1, <1>2, <1>3, Cleaned DEF Shown, Drawn

LEMMA PageOfTwo ==
  ASSUME NEW c \in Colors, NEW x \in LcdCall, NEW y \in LcdCall
  PROVE  Page(c, <<x, y>>) = <<Clean, Bar(c), x, y>>
  <1> SUFFICES ASSUME NEW a \in LcdCall, NEW b \in LcdCall
               PROVE  <<a, b>> \o <<x, y>> = <<a, b, x, y>>
    BY CallsTyped DEF Page
  <1>1. /\ <<a, b>> \o <<x, y>> \in Seq(LcdCall) /\ <<a, b, x, y>> \in Seq(LcdCall)
        /\ Len(<<a, b>> \o <<x, y>>) = 4 /\ Len(<<a, b, x, y>>) = 4
        /\ \A i \in 1 .. 4 : (<<a, b>> \o <<x, y>>)[i] = <<a, b, x, y>>[i]
    OBVIOUS
  <1>2. QED BY <1>1, SeqEqual

\* A page of two lines on the screen.
LEMMA TwoLinesShown ==
  ASSUME NEW c \in Colors, NEW j \in Rows, NEW k \in Rows, NEW l \in Labels, NEW m \in Labels,
         NEW x \in Areas
  PROVE  Shown(Page(c, <<Text(j, l), Text(k, m)>>))[x] \in {"Black", c, l, m}
  <1>1. PICK a \in LcdCall, b \in LcdCall, u \in LcdCall, v \in LcdCall :
          a = Clean /\ b = Bar(c) /\ u = Text(j, l) /\ v = Text(k, m)
    BY CallsTyped
  <1>0. a \in LcdCall /\ b \in LcdCall /\ u \in LcdCall /\ v \in LcdCall
    OBVIOUS
  <1>2. Page(c, <<u, v>>) = <<a, b, u, v>>
    BY <1>1, PageOfTwo
  <1>3. PICK s0, s1, s2, s3 :
          /\ s0 = Paint(BlankScreen, a) /\ s1 = Paint(s0, b)
          /\ s2 = Paint(s1, u) /\ s3 = Paint(s2, v)
    OBVIOUS
  <1>4. Shown(<<a, b, u, v>>) = s3
    <2>1. Drawn(BlankScreen, <<a, b, u, v>>)
            = Paint(Paint(Paint(Paint(BlankScreen, a), b), u), v)
      BY <1>0, FourDrawn
    <2>2. QED BY <1>3, <2>1 DEF Shown, Drawn
  <1>5. s0[x] = "Black"
    BY <1>1, <1>3, Cleaned DEF BlankScreen
  <1>6. b.ink = c /\ u.ink = l /\ v.ink = m
    BY <1>1 DEF Bar, Text
  <1>7. s1[x] \in {c, s0[x]} /\ s2[x] \in {l, s1[x]} /\ s3[x] \in {m, s2[x]}
    BY <1>3, <1>6, Coloured
  <1>8. s3[x] \in {"Black", c, l, m}
    BY <1>5, <1>7
  <1>9. QED BY <1>1, <1>2, <1>4, <1>8

\* The two notices on the screen: neither has a mark of the other.
LEMMA NoticesShown ==
  ASSUME NEW x \in Areas
  PROVE  /\ Notice(TRUE)[x] \notin {"Green", "finished!"}
         /\ Notice(FALSE)[x] \notin {"Red", "watering..."}
  <1>1. /\ "Red" \in Colors /\ "Green" \in Colors /\ 48 \in Rows /\ 64 \in Rows
        /\ "Currently" \in Labels /\ "watering..." \in Labels
        /\ "Watering" \in Labels /\ "finished!" \in Labels
    BY DEF Colors, Labels, Rows
  <1>2. Notice(TRUE)[x] \in {"Black", "Red", "Currently", "watering..."}
    BY <1>1, TwoLinesShown DEF Notice, display_pump_activation
  <1>3. Notice(FALSE)[x] \in {"Black", "Green", "Watering", "finished!"}
    BY <1>1, TwoLinesShown DEF Notice, display_pump_activation
  <1>4. QED BY <1>2, <1>3

-----------------------------------------------------------------------------
(* The invariant *)

\* Where irrigation is; it draws only between its waits.
Turns ==
  /\ pc["irrigation"] \in {"sleep", "evaluate", "switch", "pulse", "mailbox"}
  /\ todo["irrigation"] # <<>> => pc["irrigation"] \in {"switch", "mailbox"}
  /\ sPumpState <=> pc["irrigation"] = "pulse"

\* The ends of a page, which may begin in the middle of a call.
EndAt(q, p, k, left) == k \in 1 .. Len(p) /\ left \in SUBSET p[k].areas /\ q = Rest(p, k, left)
IsEnd(q, p) == \E k, left : EndAt(q, p, k, left)

\* What telemetry has yet to draw is the end of one of its pages.
PageLeft == todo["telemetry"] # <<>> => \E p \in TelemetryPages : IsEnd(todo["telemetry"], p)

\* Irrigation's page, once drawn to its end, will be the whole screen.
NoticeAhead ==
  /\ pc["irrigation"] = "switch"  => Drawn(screen, todo["irrigation"]) = Notice(TRUE)
  /\ pc["irrigation"] = "mailbox" => Drawn(screen, todo["irrigation"]) = Notice(FALSE)

Mixed(s) ==
  \/ s = BlankScreen
  \/ \E p \in Pages : s = Shown(p)
  \/ \E a \in BOOLEAN, p \in Pages : \E q : IsEnd(q, p) /\ s = Drawn(Notice(a), q)

\* So will telemetry's, or the end of it will be over a notice.
MixedAhead == todo["irrigation"] = <<>> => Mixed(Drawn(screen, todo["telemetry"]))

ScreenInv == Turns /\ PageLeft /\ NoticeAhead /\ NoticeTrue /\ MixedAhead

-----------------------------------------------------------------------------
(* The steps that draw *)

\* Telemetry runs only while irrigation is blocked, and then irrigation has no page.
LEMMA TelemetryRuns ==
  ASSUME Turns, MayRun("telemetry")
  PROVE  pc["irrigation"] \in {"sleep", "pulse"} /\ todo["irrigation"] = <<>>
  <1>1. ~Runnable("irrigation")
    BY DEF MayRun, Priority, Threads
  <1>2. QED BY <1>1 DEF Runnable, Turns

\* The end of a page.
LEMMA PageEnds ==
  ASSUME NEW p \in Seq(LcdCall), NEW k \in 1 .. Len(p), NEW q, q = SubSeq(p, k, Len(p))
  PROVE  /\ q \in Seq(LcdCall) /\ q # <<>> /\ Head(q) = p[k]
         /\ k = 1 => q = p
         /\ k = Len(p) => Tail(q) = <<>>
         /\ k # Len(p) => k + 1 \in 1 .. Len(p) /\ Tail(q) = SubSeq(p, k + 1, Len(p))
  <1>1. q \in Seq(LcdCall) /\ Len(q) = Len(p) - k + 1 /\ \A i \in 1 .. Len(q) : q[i] = p[k + i - 1]
    OBVIOUS
  <1>2. q # <<>> /\ Head(q) = p[k]
    <2>1. Len(q) \in Nat \ {0} /\ k + 1 - 1 = k
      BY <1>1
    <2>2. q # <<>> /\ 1 \in 1 .. Len(q)
      <3>1. 1 \in 1 .. Len(q)
        BY <2>1
      <3>2. q # <<>>
        BY <1>1, <2>1, EmptySeq
      <3>3. QED BY <3>1, <3>2
    <2>3. Head(q) = q[1]
      BY <1>1, <2>2
    <2>4. q[1] = p[k]
      <3>1. q[1] = p[k + 1 - 1]
        BY <1>1, <2>2
      <3>2. QED BY <2>1, <3>1, Zenon
    <2>5. QED BY <2>2, <2>3, <2>4
  <1>3. k = 1 => q = p
    BY <1>1, SeqEqual
  <1>4. Tail(q) \in Seq(LcdCall) /\ Len(Tail(q)) = Len(p) - k
        /\ \A i \in 1 .. Len(Tail(q)) : Tail(q)[i] = p[k + i]
    <2>1. Tail(q) \in Seq(LcdCall) /\ Len(Tail(q)) = Len(q) - 1
          /\ \A i \in 1 .. Len(Tail(q)) : Tail(q)[i] = q[i + 1]
      BY <1>1, <1>2, HeadTailProperties
    <2>2. Len(Tail(q)) = Len(p) - k
      BY <1>1, <2>1
    <2>3. ASSUME NEW i \in 1 .. Len(Tail(q)) PROVE Tail(q)[i] = p[k + i]
      <3>1. i + 1 \in 1 .. Len(q) /\ k + (i + 1) - 1 = k + i
        BY <1>1, <2>2
      <3>2. q[i + 1] = p[k + i]
        BY <1>1, <3>1
      <3>3. QED BY <2>1, <3>2
    <2>4. QED BY <2>1, <2>2, <2>3
  <1>5. k = Len(p) => Tail(q) = <<>>
    BY <1>4
  <1>6. ASSUME k # Len(p)
        PROVE  k + 1 \in 1 .. Len(p) /\ Tail(q) = SubSeq(p, k + 1, Len(p))
    <2>1. k + 1 \in 1 .. Len(p)
      BY <1>6
    <2>2. /\ SubSeq(p, k + 1, Len(p)) \in Seq(LcdCall)
          /\ Len(SubSeq(p, k + 1, Len(p))) = Len(p) - k
          /\ \A i \in 1 .. Len(p) - k : SubSeq(p, k + 1, Len(p))[i] = p[k + i]
      BY <2>1
    <2>3. QED BY <1>4, <2>1, <2>2, SeqEqual
  <1>7. QED BY <1>1, <1>2, <1>3, <1>5, <1>6

\* With a call broken off: what it is, and what a step makes of it.
LEMMA EndIs ==
  ASSUME NEW p \in Seq(LcdCall), NEW k, NEW left, NEW q, EndAt(q, p, k, left)
  PROVE  /\ q \in Seq(LcdCall) /\ q # <<>>
         /\ Head(q).areas = left /\ Head(q).ink = p[k].ink
         /\ \A A : With(q, A) = Rest(p, k, A)
         /\ Tail(q) # <<>> => IsEnd(Tail(q), p)
         /\ k = 1 /\ left = p[k].areas => q = p
  <1>0. k \in 1 .. Len(p) /\ left \in SUBSET p[k].areas /\ q = Rest(p, k, left)
    BY DEF EndAt
  <1>1. PICK r : r = SubSeq(p, k, Len(p))
    OBVIOUS
  <1>2. p[k] \in LcdCall /\ left \in SUBSET Areas
    <2>1. p[k] \in LcdCall
      BY <1>0
    <2>2. p[k].areas \in SUBSET Areas
      BY <2>1 DEF LcdCall
    <2>3. QED BY <1>0, <2>1, <2>2
  <1>3. /\ r \in Seq(LcdCall) /\ r # <<>> /\ Head(r) = p[k]
        /\ k = Len(p) => Tail(r) = <<>>
        /\ k # Len(p) => k + 1 \in 1 .. Len(p) /\ Tail(r) = SubSeq(p, k + 1, Len(p))
    BY <1>0, <1>1, PageEnds, Zenon
  <1>4. q = With(r, left)
    BY <1>0, <1>1 DEF Rest, With
  <1>5. /\ q \in Seq(LcdCall) /\ q # <<>> /\ Tail(q) = Tail(r)
        /\ Head(q).areas = left /\ Head(q).ink = Head(r).ink
        /\ left = Head(r).areas => q = r
        /\ \A B : With(q, B) = With(r, B)
    BY <1>2, <1>3, <1>4, FirstChanged
  <1>6. \A A : With(q, A) = Rest(p, k, A)
    <2>1. \A B : With(r, B) = Rest(p, k, B)
      BY <1>1 DEF Rest, With
    <2>2. QED BY <1>5, <2>1
  <1>7. k = 1 /\ left = p[k].areas => q = p
    <2>1. k = 1 => r = p
      BY <1>0, <1>1, PageEnds, Zenon
    <2>2. QED BY <1>3, <1>5, <2>1
  <1>8. ASSUME Tail(q) # <<>> PROVE IsEnd(Tail(q), p)
    <2>1. k # Len(p)
      BY <1>3, <1>5, <1>8, Zenon
    <2>2. PICK m \in 1 .. Len(p) : m = k + 1
      BY <1>3, <2>1
    <2>3. PICK u : u = SubSeq(p, m, Len(p))
      OBVIOUS
    <2>4. u = Tail(q)
      BY <1>3, <1>5, <2>1, <2>2, <2>3
    <2>5. u \in Seq(LcdCall) /\ u # <<>> /\ Head(u) = p[m]
      BY <2>3, PageEnds, Zenon
    <2>6. p[m].areas \in SUBSET Areas
      <3>1. p[m] \in LcdCall
        BY <2>3
      <3>2. QED BY <3>1 DEF LcdCall
    <2>7. With(u, p[m].areas) = u
      BY <2>5, <2>6, FirstChanged
    <2>8. u = Rest(p, m, p[m].areas)
      BY <2>3, <2>4, <2>7 DEF Rest, With
    <2>9. EndAt(u, p, m, p[m].areas)
      BY <2>8 DEF EndAt
    <2>10. QED BY <2>4, <2>9 DEF IsEnd
  <1>9. QED BY <1>3, <1>5, <1>6, <1>7, <1>8

\* What one step of drawing leaves of the end of a page, and with which ink it draws.
LEMMA EndDrawn ==
  ASSUME ScreenType, NEW t \in Threads, NEW p \in Seq(LcdCall), IsEnd(todo[t], p), Draw(t)
  PROVE  /\ todo'[t] # <<>> => IsEnd(todo'[t], p)
         /\ \/ screen' = screen
            \/ \E k \in 1 .. Len(p), x \in Areas : screen' = [screen EXCEPT ![x] = p[k].ink]
  <1>1. PICK q : q = todo[t]
    OBVIOUS
  <1>2. PICK k, left : EndAt(q, p, k, left)
    BY <1>1 DEF IsEnd
  <1>3. k \in 1 .. Len(p) /\ left \in SUBSET p[k].areas
    BY <1>2 DEF EndAt
  <1>4. /\ q \in Seq(LcdCall) /\ q # <<>>
        /\ Head(q).areas = left /\ Head(q).ink = p[k].ink
        /\ \A A : With(q, A) = Rest(p, k, A)
        /\ Tail(q) # <<>> => IsEnd(Tail(q), p)
    BY <1>2, EndIs
  <1>5. todo \in [Threads -> Seq(LcdCall)]
    BY DEF ScreenType
  <1>6. CASE CallReturns(t)
    BY <1>1, <1>4, <1>5, <1>6 DEF CallReturns
  <1>7. ASSUME NEW x \in Areas, DrawArea(t, x)
        PROVE  IsEnd(todo'[t], p) /\ screen' = [screen EXCEPT ![x] = p[k].ink]
    <2>1. todo'[t] = [q EXCEPT ![1].areas = q[1].areas \ {x}]
      BY <1>1, <1>4, <1>5, <1>7 DEF DrawArea
    <2>2. q[1].areas = left
      BY <1>4
    <2>3. todo'[t] = Rest(p, k, left \ {x})
      BY <1>4, <2>1, <2>2 DEF With
    <2>4. EndAt(todo'[t], p, k, left \ {x})
      BY <1>3, <2>3 DEF EndAt
    <2>5. IsEnd(todo'[t], p)
      BY <2>4 DEF IsEnd
    <2>6. QED BY <1>1, <1>4, <1>7, <2>5 DEF DrawArea
  <1>8. QED BY <1>3, <1>6, <1>7 DEF Draw

\* Telemetry's pages leave the marks of a notice alone.
Calm(c) == c.ink \notin {"Red", "Green", "watering...", "finished!"}

LEMMA CalmPage ==
  ASSUME NEW texts \in Seq(LcdCall), \A i \in 1 .. Len(texts) : Calm(texts[i]),
         NEW p, p = Page("Blue", texts)
  PROVE  \A i \in 1 .. Len(p) : Calm(p[i])
  <1>1. PICK a \in LcdCall, b \in LcdCall : a = Clean /\ b = Bar("Blue")
    BY CallsTyped DEF Colors
  <1>2. p = <<a, b>> \o texts
    BY <1>1 DEF Page
  <1>3. /\ Len(p) = Len(texts) + 2 /\ p[1] = a /\ p[2] = b
        /\ \A i \in 1 .. Len(p) : i # 1 /\ i # 2 => i - 2 \in 1 .. Len(texts) /\ p[i] = texts[i - 2]
    <2>1. /\ <<a, b>> \in Seq(LcdCall) /\ Len(<<a, b>>) = 2
          /\ <<a, b>>[1] = a /\ <<a, b>>[2] = b
      BY <1>1
    <2>2. /\ Len(p) = 2 + Len(texts)
          /\ \A i \in 1 .. 2 + Len(texts) :
               p[i] = IF i <= 2 THEN <<a, b>>[i] ELSE texts[i - 2]
      BY <1>2, <2>1, ConcatProperties
    <2>3. QED BY <2>1, <2>2
  <1>4. Calm(a) /\ Calm(b)
    BY <1>1 DEF Calm, Clean, Bar
  <1>5. QED BY <1>3, <1>4

LEMMA PagesCalm ==
  ASSUME NEW p \in TelemetryPages
  PROVE  \A i \in 1 .. Len(p) : Calm(p[i])
  <1>1. ASSUME NEW y \in Rows, NEW l \in Labels, l \notin {"watering...", "finished!"}
        PROVE  Text(y, l) \in LcdCall /\ Calm(Text(y, l))
    <2>1. Text(y, l).ink = l
      BY DEF Text
    <2>2. QED BY <1>1, <2>1, CallsTyped DEF Calm, Labels
  <1> DEFINE Line(c) == c \in LcdCall /\ Calm(c)
  <1>2. /\ Line(Text(30, "Connecting to")) /\ Line(Text(46, "network..."))
        /\ Line(Text(30, "Connected to")) /\ Line(Text(46, "network !"))
        /\ Line(Text(30, "Temp")) /\ Line(Text(46, "Hum")) /\ Line(Text(62, "Moist"))
    BY <1>1 DEF Labels, Rows
  <1>3. ASSUME NEW x, NEW y, Line(x), Line(y), p = Page("Blue", <<x, y>>)
        PROVE  \A i \in 1 .. Len(p) : Calm(p[i])
    <2>1. <<x, y>> \in Seq(LcdCall) /\ \A i \in 1 .. Len(<<x, y>>) : Calm(<<x, y>>[i])
      BY <1>3
    <2>2. QED BY <1>3, <2>1, CalmPage
  <1>4. ASSUME NEW x, NEW y, NEW z, Line(x), Line(y), Line(z), p = Page("Blue", <<x, y, z>>)
        PROVE  \A i \in 1 .. Len(p) : Calm(p[i])
    <2>1. /\ <<x, y, z>> \in Seq(LcdCall)
          /\ \A i \in 1 .. Len(<<x, y, z>>) : Calm(<<x, y, z>>[i])
      BY <1>4
    <2>2. QED BY <1>4, <2>1, CalmPage
  <1>5. CASE p = display_connecting_network
    BY <1>2, <1>3, <1>5 DEF display_connecting_network
  <1>6. CASE p = display_connected_network
    BY <1>2, <1>3, <1>6 DEF display_connected_network
  <1>7. CASE p = display_sensor_readings(TRUE)
    <2>1. p = Page("Blue", <<Text(30, "Temp"), Text(46, "Hum"), Text(62, "Moist")>>)
      BY <1>7 DEF display_sensor_readings
    <2>2. PICK x, y, z : x = Text(30, "Temp") /\ y = Text(46, "Hum") /\ z = Text(62, "Moist")
      OBVIOUS
    <2>3. Line(x) /\ Line(y) /\ Line(z) /\ p = Page("Blue", <<x, y, z>>)
      BY <1>2, <2>1, <2>2
    <2>4. QED BY <1>4, <2>3
  <1>8. QED BY <1>5, <1>6, <1>7 DEF TelemetryPages

LEMMA CalmDraws ==
  ASSUME screen \in Screens, NEW c, Calm(c), NEW x \in Areas,
         screen' = [screen EXCEPT ![x] = c.ink],
         NEW i \in {"Red", "Green", "watering...", "finished!"}, OnScreen(i)'
  PROVE  OnScreen(i)
  <1>1. PICK y \in Areas : screen'[y] = i
    BY DEF OnScreen
  <1>2. c.ink # i
    BY DEF Calm
  <1>3. y # x /\ screen[y] = i
    BY <1>1, <1>2 DEF Screens
  <1>4. QED BY <1>3 DEF OnScreen

-----------------------------------------------------------------------------
(* The invariant is inductive *)

\* What it says of, and nothing else.
LEMMA ScreenDepends ==
  ASSUME ScreenInv, UNCHANGED <<displayVars, pc, sPumpState>>
  PROVE  ScreenInv'
  BY DEF ScreenInv, Turns, PageLeft, NoticeAhead, NoticeTrue, OnScreen, MixedAhead, displayVars

LEMMA ScreenInit == Init => ScreenInv
  <1> SUFFICES ASSUME Init PROVE ScreenInv
    OBVIOUS
  <1>1. /\ screen = BlankScreen /\ todo["irrigation"] = <<>> /\ todo["telemetry"] = <<>>
        /\ pc["irrigation"] = "sleep" /\ sPumpState = FALSE
    BY DEF Init, DisplayInit, Threads
  <1>2. Turns /\ PageLeft /\ NoticeAhead
    BY <1>1 DEF Turns, PageLeft, NoticeAhead
  <1>3. NoticeTrue
    <2>1. \A x \in Areas : screen[x] = "Black"
      BY <1>1 DEF BlankScreen
    <2>2. QED BY <2>1 DEF NoticeTrue, OnScreen
  <1>4. MixedAhead
    BY <1>1, NothingLeft DEF MixedAhead, Mixed
  <1>5. QED BY <1>2, <1>3, <1>4 DEF ScreenInv

\* A page of telemetry may follow any screen.
LEMMA TelemetryShows ==
  ASSUME Inv, ScreenInv, NEW p \in TelemetryPages, NEW from, NEW to,
         Goes("telemetry", from, to), Show("telemetry", p), UNCHANGED sPumpState
  PROVE  ScreenInv'
  <1>1. /\ pc["irrigation"] \in {"sleep", "pulse"} /\ todo["irrigation"] = <<>>
    BY TelemetryRuns DEF Goes, ScreenInv
  <1>2. /\ pc \in [Threads -> {"sleep", "evaluate", "switch", "pulse", "mailbox",
                              "boot", "network", "idle", "sensor", "publish"}]
        /\ todo \in [Threads -> Seq(LcdCall)] /\ screen \in Screens
    BY DEF Inv, TypeOK
  <1>3. /\ pc'["irrigation"] = pc["irrigation"] /\ todo'["irrigation"] = todo["irrigation"]
        /\ todo'["telemetry"] = p /\ screen' = screen
    BY <1>2 DEF Goes, Show, Threads
  <1>4. p \in CleanPages /\ p \in Pages
    BY PagesTyped DEF TelemetryPages, Pages
  <1>5. Turns'
    BY <1>1, <1>3 DEF ScreenInv, Turns
  <1>6. PageLeft'
    <2>1. p \in Seq(LcdCall) /\ p # <<>>
      BY <1>4 DEF CleanPages
    <2>2. 1 \in 1 .. Len(p)
      BY <2>1
    <2>3. PICK q : q = Rest(p, 1, p[1].areas)
      OBVIOUS
    <2>4. EndAt(q, p, 1, p[1].areas)
      BY <2>2, <2>3 DEF EndAt
    <2>5. q = p /\ IsEnd(q, p)
      BY <2>1, <2>4, EndIs DEF IsEnd
    <2>6. QED BY <1>3, <2>5 DEF PageLeft
  <1>7. NoticeAhead'
    BY <1>1, <1>3 DEF NoticeAhead
  <1>8. NoticeTrue'
    BY <1>3 DEF ScreenInv, NoticeTrue, OnScreen
  <1>9. MixedAhead'
    <2>1. Drawn(screen, p) = Shown(p)
      BY <1>2, <1>4, CleanFirst
    <2>2. Mixed(Drawn(screen, p))
      BY <1>4, <2>1, Zenon DEF Mixed
    <2>3. QED BY <1>3, <2>2 DEF MixedAhead
  <1>10. QED BY <1>5, <1>6, <1>7, <1>8, <1>9 DEF ScreenInv

\* What telemetry does besides.
LEMMA TelemetryGoes ==
  ASSUME Inv, ScreenInv, NEW from, NEW to,
         Goes("telemetry", from, to), UNCHANGED <<displayVars, sPumpState>>
  PROVE  ScreenInv'
  <1>1. pc'["irrigation"] = pc["irrigation"]
    BY DEF Goes, Inv, TypeOK, Threads
  <1>2. QED
    BY <1>1 DEF ScreenInv, Turns, PageLeft, NoticeAhead, NoticeTrue, OnScreen, MixedAhead,
                displayVars

LEMMA TelemetryScreen ==
  ASSUME Inv, ScreenInv,
         \/ Connecting \/ ConnectFails \/ Connected
         \/ StartReading \/ Sense \/ SkipReading \/ Publish
         \/ \E m \in Moistures, now, w \in Times : TakeReading(m, now, w)
  PROVE  ScreenInv'
  <1>1. CASE Connecting
    BY <1>1, TelemetryShows DEF Connecting, TelemetryPages
  <1>2. CASE Connected
    BY <1>2, TelemetryShows DEF Connected, TelemetryPages
  <1>3. CASE Publish
    BY <1>3, TelemetryShows DEF Publish, TelemetryPages
  <1>4. CASE ConnectFails
    BY <1>4, TelemetryGoes DEF ConnectFails
  <1>5. CASE StartReading
    BY <1>5, TelemetryGoes DEF StartReading
  <1>6. CASE Sense
    BY <1>6, TelemetryGoes DEF Sense
  <1>7. CASE SkipReading
    BY <1>7, TelemetryGoes DEF SkipReading
  <1>8. ASSUME NEW m \in Moistures, NEW now \in Times, NEW w \in Times,
               TakeReading(m, now, w)
        PROVE  ScreenInv'
    BY <1>8, TelemetryGoes DEF TakeReading
  <1>9. QED BY <1>1, <1>2, <1>3, <1>4, <1>5, <1>6, <1>7, <1>8

\* Irrigation starts a notice.
LEMMA IrrigationShows ==
  ASSUME Inv, ScreenInv, NEW a \in BOOLEAN, NEW from,
         NEW to, to = IF a THEN "switch" ELSE "mailbox",
         Goes("irrigation", from, to), Show("irrigation", display_pump_activation(a)),
         ~sPumpState'
  PROVE  ScreenInv'
  <1>1. PICK p : p = display_pump_activation(a)
    OBVIOUS
  <1>2. /\ pc \in [Threads -> {"sleep", "evaluate", "switch", "pulse", "mailbox",
                              "boot", "network", "idle", "sensor", "publish"}]
        /\ todo \in [Threads -> Seq(LcdCall)] /\ screen \in Screens
    BY DEF Inv, TypeOK
  <1>3. /\ pc'["irrigation"] = to /\ todo'["irrigation"] = p
        /\ todo'["telemetry"] = todo["telemetry"] /\ screen' = screen
    BY <1>1, <1>2 DEF Goes, Show, Threads
  <1>4. p \in CleanPages /\ p # <<>>
    BY <1>1, PagesTyped DEF CleanPages
  <1>5. Turns'
    BY <1>3 DEF Turns
  <1>6. PageLeft'
    BY <1>3 DEF ScreenInv, PageLeft
  <1>7. Drawn(screen, p) = Notice(a)
    BY <1>1, <1>2, <1>4, CleanFirst DEF Notice
  <1>8. NoticeAhead'
    <2>1. to = "switch" => Notice(a) = Notice(TRUE)
      BY Zenon
    <2>2. to = "mailbox" => Notice(a) = Notice(FALSE)
      BY Zenon
    <2>3. QED BY <1>3, <1>7, <2>1, <2>2 DEF NoticeAhead
  <1>9. NoticeTrue'
    BY <1>3 DEF NoticeTrue
  <1>10. MixedAhead'
    BY <1>3, <1>4 DEF MixedAhead
  <1>11. QED BY <1>5, <1>6, <1>8, <1>9, <1>10 DEF ScreenInv

\* Its notice is all there is on the screen when it goes on.
LEMMA NoticeDrawn ==
  ASSUME ScreenInv, todo["irrigation"] = <<>>
  PROVE  /\ pc["irrigation"] = "switch"  => screen = Notice(TRUE)
         /\ pc["irrigation"] = "mailbox" => screen = Notice(FALSE)
  BY NothingLeft DEF ScreenInv, NoticeAhead

LEMMA IrrigationGoes ==
  ASSUME Inv, ScreenInv, NEW from, NEW to, Goes("irrigation", from, to),
         UNCHANGED displayVars,
         \/ from = "sleep" /\ to = "evaluate" /\ UNCHANGED sPumpState
         \/ from = "evaluate" /\ to = "sleep" /\ UNCHANGED sPumpState
         \/ from = "switch" /\ to = "pulse" /\ sPumpState'
         \/ from = "mailbox" /\ to = "sleep" /\ UNCHANGED sPumpState
  PROVE  ScreenInv'
  <1>1. /\ pc["irrigation"] = from /\ pc'["irrigation"] = to
        /\ todo["irrigation"] = <<>> /\ todo' = todo /\ screen' = screen
    BY DEF Goes, Inv, TypeOK, Threads, displayVars
  <1>2. Turns'
    BY <1>1 DEF ScreenInv, Turns
  <1>3. PageLeft' /\ MixedAhead'
    BY <1>1 DEF ScreenInv, PageLeft, MixedAhead
  <1>4. NoticeAhead'
    BY <1>1 DEF NoticeAhead
  <1>5. NoticeTrue'
    <2>1. CASE from = "sleep" \/ from = "evaluate"
      BY <1>1, <2>1 DEF ScreenInv, NoticeTrue, OnScreen, Turns
    <2>2. CASE from = "switch"
      <3>1. screen' = Notice(TRUE)
        BY <1>1, <2>2, NoticeDrawn
      <3>2. ~OnScreen("Green")' /\ ~OnScreen("finished!")'
        BY <3>1, NoticesShown DEF OnScreen
      <3>3. QED BY <1>1, <2>2, <3>2 DEF NoticeTrue
    <2>3. CASE from = "mailbox"
      <3>1. screen' = Notice(FALSE)
        BY <1>1, <2>3, NoticeDrawn
      <3>2. ~OnScreen("Red")' /\ ~OnScreen("watering...")'
        BY <3>1, NoticesShown DEF OnScreen
      <3>3. ~sPumpState'
        BY <1>1, <2>3 DEF ScreenInv, Turns
      <3>4. QED BY <1>1, <2>3, <3>2, <3>3 DEF NoticeTrue
    <2>4. QED BY <2>1, <2>2, <2>3
  <1>6. QED BY <1>2, <1>3, <1>4, <1>5 DEF ScreenInv

LEMMA IrrigationScreen ==
  ASSUME Inv, ScreenInv, WakeUp \/ EvaluateDry \/ EvaluateWet \/ PumpOn \/ EndPulse \/ Mailbox
  PROVE  ScreenInv'
  <1>1. CASE EvaluateDry
    <2>1. ~sPumpState'
      BY <1>1 DEF EvaluateDry, Goes, ScreenInv, Turns
    <2>2. QED BY <1>1, <2>1, IrrigationShows DEF EvaluateDry
  <1>2. CASE EndPulse
    BY <1>2, IrrigationShows DEF EndPulse
  <1>3. CASE WakeUp
    BY <1>3, IrrigationGoes DEF WakeUp
  <1>4. CASE EvaluateWet
    BY <1>4, IrrigationGoes DEF EvaluateWet
  <1>5. CASE PumpOn
    BY <1>5, IrrigationGoes DEF PumpOn
  <1>6. CASE Mailbox
    BY <1>6, IrrigationGoes DEF Mailbox
  <1>7. QED BY <1>1, <1>2, <1>3, <1>4, <1>5, <1>6

\* Telemetry draws: what is on the screen and what is left of the page together make the
\* same, and no mark of a notice is added.
LEMMA TelemetryDraws ==
  ASSUME Inv, ScreenInv, DrawNext("telemetry")
  PROVE  ScreenInv'
  <1>0. ScreenType /\ "telemetry" \in Threads /\ "irrigation" \in Threads
    BY TypeParts DEF Inv, Threads
  <1>1. pc["irrigation"] \in {"sleep", "pulse"} /\ todo["irrigation"] = <<>>
    BY TelemetryRuns DEF DrawNext, ScreenInv
  <1>2. /\ Draw("telemetry") /\ todo["telemetry"] # <<>>
        /\ todo'["irrigation"] = todo["irrigation"] /\ pc' = pc /\ sPumpState' = sPumpState
    BY <1>0 DEF DrawNext, Draw, CallReturns, DrawArea, ScreenType, Threads
  <1>3. PICK p \in TelemetryPages : IsEnd(todo["telemetry"], p)
    BY <1>2 DEF ScreenInv, PageLeft
  <1>4. p \in Seq(LcdCall)
    BY PagesTyped DEF TelemetryPages, CleanPages
  <1>5. /\ todo'["telemetry"] # <<>> => IsEnd(todo'["telemetry"], p)
        /\ \/ screen' = screen
           \/ \E k \in 1 .. Len(p), x \in Areas : screen' = [screen EXCEPT ![x] = p[k].ink]
    BY <1>0, <1>2, <1>3, <1>4, EndDrawn
  <1>6. Turns'
    BY <1>1, <1>2 DEF ScreenInv, Turns
  <1>7. PageLeft'
    BY <1>3, <1>5 DEF PageLeft
  <1>8. NoticeAhead'
    BY <1>1, <1>2 DEF NoticeAhead
  <1>9. NoticeTrue'
    <2>1. ASSUME NEW i \in {"Red", "Green", "watering...", "finished!"}, OnScreen(i)'
          PROVE  OnScreen(i)
      <3>1. CASE screen' = screen
        BY <2>1, <3>1 DEF OnScreen
      <3>2. ASSUME NEW k \in 1 .. Len(p), NEW x \in Areas,
                   screen' = [screen EXCEPT ![x] = p[k].ink]
            PROVE  OnScreen(i)
        <4>1. Calm(p[k])
          BY PagesCalm
        <4>2. screen \in Screens
          BY <1>0 DEF ScreenType
        <4>3. QED BY <2>1, <3>2, <4>1, <4>2, CalmDraws
      <3>3. QED BY <1>5, <3>1, <3>2
    <2>2. /\ OnScreen("Red")' => OnScreen("Red")
          /\ OnScreen("Green")' => OnScreen("Green")
          /\ OnScreen("watering...")' => OnScreen("watering...")
          /\ OnScreen("finished!")' => OnScreen("finished!")
      BY <2>1
    <2>3. NoticeTrue
      BY DEF ScreenInv
    <2>4. QED BY <1>2, <2>2, <2>3 DEF NoticeTrue
  <1>10. MixedAhead'
    <2>1. Drawn(screen', todo'["telemetry"]) = Drawn(screen, todo["telemetry"])
      BY <1>0, <1>2, DrawKeeps
    <2>2. Mixed(Drawn(screen, todo["telemetry"]))
      BY <1>1 DEF ScreenInv, MixedAhead
    <2>3. Mixed(Drawn(screen', todo'["telemetry"]))
      BY <2>1, <2>2
    <2>4. QED BY <2>3 DEF MixedAhead
  <1>11. QED BY <1>6, <1>7, <1>8, <1>9, <1>10 DEF ScreenInv

\* The end of a page over a notice is one of the mixtures.
LEMMA OverNotice ==
  ASSUME PageLeft, NEW a \in BOOLEAN
  PROVE  Mixed(Drawn(Notice(a), todo["telemetry"]))
  <1>1. PICK q : q = todo["telemetry"]
    OBVIOUS
  <1>2. CASE q = <<>>
    <2>1. PICK n : n = display_pump_activation(a)
      OBVIOUS
    <2>2. n \in Pages
      BY <2>1 DEF Pages
    <2>3. Drawn(Notice(a), q) = Shown(n)
      BY <1>2, <2>1, NothingLeft DEF Notice
    <2>4. QED BY <1>1, <2>2, <2>3, Zenon DEF Mixed
  <1>3. CASE q # <<>>
    <2>1. PICK p \in TelemetryPages : IsEnd(q, p)
      BY <1>1, <1>3 DEF PageLeft
    <2>2. p \in Pages
      BY DEF TelemetryPages, Pages
    <2>3. QED BY <1>1, <2>1, <2>2, Zenon DEF Mixed
  <1>4. QED BY <1>2, <1>3

\* Irrigation draws; after the last call the notice is the whole screen.
LEMMA IrrigationDraws ==
  ASSUME Inv, ScreenInv, DrawNext("irrigation")
  PROVE  ScreenInv'
  <1>0. ScreenType /\ "telemetry" \in Threads /\ "irrigation" \in Threads
    BY TypeParts DEF Inv, Threads
  <1>1. /\ Draw("irrigation") /\ todo["irrigation"] # <<>>
        /\ todo'["telemetry"] = todo["telemetry"] /\ pc' = pc /\ sPumpState' = sPumpState
    BY <1>0 DEF DrawNext, Draw, CallReturns, DrawArea, ScreenType, Threads
  <1>2. pc["irrigation"] \in {"switch", "mailbox"} /\ ~sPumpState
    BY <1>1 DEF ScreenInv, Turns
  <1>3. Turns'
    BY <1>1, <1>2 DEF ScreenInv, Turns
  <1>4. PageLeft'
    BY <1>1 DEF ScreenInv, PageLeft
  <1>5. Drawn(screen', todo'["irrigation"]) = Drawn(screen, todo["irrigation"])
    BY <1>0, <1>1, DrawKeeps
  <1>6. NoticeAhead'
    BY <1>1, <1>5 DEF ScreenInv, NoticeAhead
  <1>7. NoticeTrue'
    BY <1>1, <1>2 DEF NoticeTrue
  <1>8. MixedAhead'
    <2> SUFFICES ASSUME todo'["irrigation"] = <<>>
                 PROVE  Mixed(Drawn(screen', todo["telemetry"]))
      BY <1>1 DEF MixedAhead
    <2>1. PICK a \in BOOLEAN : screen' = Notice(a)
      BY <1>2, <1>5, NothingLeft DEF ScreenInv, NoticeAhead
    <2>2. QED BY <2>1, OverNotice DEF ScreenInv
  <1>9. QED BY <1>3, <1>4, <1>6, <1>7, <1>8 DEF ScreenInv

LEMMA ScreenStep == Inv /\ ScreenInv /\ [Next]_vars => ScreenInv'
  <1> SUFFICES ASSUME Inv, ScreenInv, [Next]_vars PROVE ScreenInv'
    OBVIOUS
  <1>1. CASE \/ Connecting \/ ConnectFails \/ Connected
             \/ StartReading \/ Sense \/ SkipReading \/ Publish
             \/ \E m \in Moistures, now, w \in Times : TakeReading(m, now, w)
    BY <1>1, TelemetryScreen
  <1>2. CASE WakeUp \/ EvaluateDry \/ EvaluateWet \/ PumpOn \/ EndPulse \/ Mailbox
    BY <1>2, IrrigationScreen
  <1>3. CASE DrawNext("telemetry")
    BY <1>3, TelemetryDraws
  <1>4. CASE DrawNext("irrigation")
    BY <1>4, IrrigationDraws
  <1>5. CASE Tick
    BY <1>5, ScreenDepends DEF Tick
  <1>6. CASE UNCHANGED vars
    BY <1>6, ScreenDepends DEF vars
  <1>7. QED BY <1>1, <1>2, <1>3, <1>4, <1>5, <1>6 DEF Next, Threads

\* The invariant of the screen holds throughout.
THEOREM ScreenInvariance == Spec => [](Inv /\ ScreenInv)
  <1>1. Inv /\ ScreenInv /\ [Next]_vars => Inv' /\ ScreenInv'
    BY StepInv, ScreenStep
  <1>2. QED BY <1>1, InitInv, ScreenInit, PTL DEF Spec

\* Telemetry may stop anywhere in a page, and inside a call: the notice that irrigation
\* draws then is the whole screen when the display compartment returns to it.
THEOREM WholeNotice == Spec => []NoticeWhole
  <1>1. ScreenInv => NoticeWhole
    BY NoticeDrawn DEF NoticeWhole, Notice
  <1>2. QED BY <1>1, ScreenInvariance, PTL

\* No bit of the screen says "watering" once the pulse is over, nor "finished" while the
\* pump is on, whichever page lies over the notice.
THEOREM TrueNotice == Spec => []NoticeTrue
  <1>1. ScreenInv => NoticeTrue
    BY DEF ScreenInv
  <1>2. QED BY <1>1, ScreenInvariance, PTL

\* Without a lock, and if an interrupted call goes on where it was, the two threads leave
\* on the screen a page, or a notice with the end of a page of telemetry over it.
THEOREM OnlyNoticesMixed == Spec => []MixedOnlyWithNotice
  <1>1. ScreenInv => MixedOnlyWithNotice
    <2> SUFFICES ASSUME ScreenInv, \A t \in Threads : todo[t] = <<>>, Mixed(screen)
                 PROVE  MixedOnlyWithNotice
      <3>1. ASSUME ScreenInv, \A t \in Threads : todo[t] = <<>> PROVE Mixed(screen)
        <4>1. todo["irrigation"] = <<>> /\ todo["telemetry"] = <<>>
          BY <3>1 DEF Threads
        <4>2. QED BY <3>1, <4>1, NothingLeft DEF ScreenInv, MixedAhead
      <3>2. QED BY <3>1, Zenon DEF MixedOnlyWithNotice
    <2>1. ASSUME NEW a \in BOOLEAN, NEW p \in Pages, NEW q, IsEnd(q, p),
                 screen = Drawn(Notice(a), q)
          PROVE  MixedOnlyWithNotice
      <3>1. PICK k, left : EndAt(q, p, k, left)
        BY <2>1 DEF IsEnd
      <3>2. k \in 1 .. Len(p) /\ left \in SUBSET p[k].areas /\ q = Rest(p, k, left)
        BY <3>1 DEF EndAt
      <3>3. screen = FoldLeft(Paint, Shown(display_pump_activation(a)), Rest(p, k, left))
        BY <2>1, <3>2, Zenon DEF Drawn, Notice
      <3>4. QED BY <3>2, <3>3, Zenon DEF MixedOnlyWithNotice
    <2>2. CASE screen = BlankScreen
      BY <2>2, Zenon DEF MixedOnlyWithNotice
    <2>3. CASE \E p \in Pages : screen = Shown(p)
      BY <2>3, Zenon DEF MixedOnlyWithNotice
    <2>4. QED BY <2>1, <2>2, <2>3, Zenon DEF Mixed
  <1>2. QED BY <1>1, ScreenInvariance, PTL

=============================================================================
