------------------------------ MODULE SearchProofs ------------------------------
(***************************************************************************)
(* Proofs about SlotSearch, for every window, granularity, duration and set *)
(* of reservations.                                                        *)
(*                                                                         *)
(* The loop keeps every free start of the grid that lies before it; the    *)
(* invariant says so, and that the loop itself stays on the grid. That the *)
(* steps of the loop skip no start of the grid is arithmetic of remainders. *)
(* The number of steps left is bounded, and every step lowers the bound.   *)
(***************************************************************************)
EXTENDS SlotSearch, TLAPS

-----------------------------------------------------------------------------
(* The grid.                                                               *)

\* Quotient and remainder.
LEMMA Divided ==
    ASSUME NEW g \in Nat \ {0}, NEW x \in Nat
    PROVE  /\ x = g * (x \div g) + (x % g)
           /\ x \div g \in Int
           /\ x % g \in 0 .. (g - 1)
  BY SMT

\* A number on the grid is a multiple of the granularity.
LEMMA OnGrid ==
    ASSUME NEW g \in Nat \ {0}, NEW x \in Nat, x % g = 0
    PROVE  \E q \in Int : x = g * q
<1>1. x = g * (x \div g) + (x % g) /\ x \div g \in Int
  BY Divided
<1>2. g * (x \div g) \in Int
  BY <1>1
<1>3. x = g * (x \div g)
  BY <1>1, <1>2
<1> QED
  BY <1>1, <1>3, Zenon

\* One granularity after a number on the grid is the grid again,
LEMMA GridStep ==
    ASSUME NEW g \in Nat \ {0}, NEW x \in Nat, x % g = 0
    PROVE  (x + g) % g = 0
<1>1. PICK q \in Int : x = g * q
  BY OnGrid
<1>0. PICK y \in Nat : y = x + g
  OBVIOUS
<1> DEFINE p == y \div g
           m == y % g
<1>2. p \in Int /\ m \in 0 .. (g - 1) /\ y = g * p + m
  BY Divided
<1> HIDE DEF p, m
<1>3. g * (q + 1) = g * p + m /\ m \in Int /\ 0 <= m /\ m < g
  BY <1>0, <1>1, <1>2
<1>4. q + 1 - p \in Int /\ g * (q + 1 - p) = m
  BY <1>2, <1>3
<1>5. q + 1 - p = 0
  BY <1>3, <1>4
<1>6. m = 0
  BY <1>4, <1>5
<1> QED
  BY <1>0, <1>6 DEF m

\* and nothing in between.
LEMMA BetweenGrid ==
    ASSUME NEW g \in Nat \ {0}, NEW x \in Nat, x % g = 0, NEW d \in 1 .. (g - 1)
    PROVE  (x + d) % g # 0
<1> SUFFICES ASSUME (x + d) % g = 0 PROVE FALSE
  OBVIOUS
<1>1. PICK q \in Int : x = g * q
  BY OnGrid
<1>2. PICK p \in Int : x + d = g * p
  BY x + d \in Nat, OnGrid
<1>3. g * (p - q) = d /\ p - q \in Int
  BY <1>1, <1>2
<1>4. p - q >= 1
  BY <1>3
<1>5. g * (p - q) >= g
  BY <1>3, <1>4
<1> QED
  BY <1>3, <1>5

-----------------------------------------------------------------------------
(* The window and the slots of one input.                                  *)

WS == WindowStart(Date, in.day)
WE == WindowEnd(Date, in.day)

LEMMA InputTyped ==
    ASSUME in \in Input
    PROVE  /\ in.minutes \in Nat \ {0}
           /\ in.reservations \in Bookings
           /\ IsOpen(in.day.hours) => in.day.hours \in Row
           /\ IsOpen(Shift(in.day)) => Shift(in.day) \in Row
  BY InputAssumption DEF Input, IsOpen, Shift

\* A window lies on its day.
LEMMA WindowTyped ==
    ASSUME in \in Input, IsOpen(in.day.hours), IsOpen(Shift(in.day))
    PROVE  /\ WS \in Nat /\ WE \in Nat
           /\ Date <= WS /\ WS <= Date + DayLen /\ WE <= Date + DayLen
           /\ in.day.hours.start \in Nat /\ in.day.hours.end \in Nat
           /\ Shift(in.day).start \in Nat /\ Shift(in.day).end \in Nat
<1>1. in.day.hours \in Row /\ Shift(in.day) \in Row
  BY InputTyped
<1>2. /\ in.day.hours.start \in 0 .. DayLen /\ in.day.hours.end \in 0 .. DayLen
      /\ Shift(in.day).start \in 0 .. DayLen /\ Shift(in.day).end \in 0 .. DayLen
  BY <1>1 DEF Row
<1> QED
  BY <1>2, InputAssumption, DayLenAssumption
  DEF WS, WE, WindowStart, WindowEnd, Later, Earlier, TimeOfDay

\* The slots before the n-th instant.
Found(n) == {s \in WS .. (WE - in.minutes) :
                /\ s < n
                /\ (s - WS) % Granularity = 0
                /\ ~OverlapsAny(s, s + in.minutes, in.reservations)}

SearchInv ==
    /\ in \in Input
    /\ pc \in {"enter", "loop", "done"}
    /\ pc = "enter" => start = Date /\ slots = {}
    /\ pc = "loop" => /\ HasWindow(Date, in.day)
                      /\ start \in Nat /\ WS <= start /\ start < WE + Granularity
                      /\ (start - WS) % Granularity = 0
                      /\ slots = Found(start)
    /\ pc = "done" => /\ start \in Date .. (Date + DayLen + Granularity - 1)
                      /\ slots = AvailableSlots(Date, in.day, in.minutes, in.reservations)

LEMMA InitSearch == Init => SearchInv
  BY DEF Init, SearchInv

LEMMA WindowOpen ==
    ASSUME in \in Input, HasWindow(Date, in.day)
    PROVE  /\ WS \in Nat /\ WE \in Nat /\ WS < WE
           /\ Date <= WS /\ WE <= Date + DayLen
  BY WindowTyped DEF HasWindow, WS, WE

LEMMA EnterStep == ASSUME SearchInv, Enter PROVE SearchInv'
<1>1. in \in Input /\ in' = in /\ slots' = slots /\ slots = {}
  BY DEF SearchInv, Enter
<1>2. CASE HasWindow(Date, in.day)
  <2>1. pc' = "loop" /\ start' = WS
    BY <1>2 DEF Enter, WS
  <2>2. WS \in Nat /\ WE \in Nat /\ WS < WE
    BY <1>1, <1>2, WindowOpen
  <2>3. (WS - WS) % Granularity = 0
    BY <2>2, GranularityAssumption
  <2>4. Found(WS) = {}
    BY <2>2, InputTyped, <1>1 DEF Found
  <2>5. start' < WE + Granularity
    BY <2>1, <2>2, GranularityAssumption
  <2>6. WS' = WS /\ WE' = WE
    BY <1>1 DEF WS, WE
  <2>7. Found(WS)' = Found(WS)
    BY <1>1, <2>6 DEF Found
  <2> QED
    BY <1>1, <1>2, <2>1, <2>2, <2>3, <2>4, <2>5, <2>6 DEF SearchInv, Found
<1>3. CASE ~HasWindow(Date, in.day)
  <2>1. pc' = "done" /\ start' = Date
    BY <1>3 DEF Enter, SearchInv
  <2>2. Date \in Date .. (Date + DayLen + Granularity - 1)
    BY InputAssumption, DayLenAssumption, GranularityAssumption
  <2> QED
    BY <1>1, <1>3, <2>1, <2>2 DEF SearchInv, AvailableSlots
<1> QED
  BY <1>2, <1>3

\* What one turn of the loop adds.
LEMMA FoundMore ==
    ASSUME in \in Input, HasWindow(Date, in.day), NEW n \in Nat, WS <= n,
           (n - WS) % Granularity = 0, n + in.minutes <= WE
    PROVE  Found(n + Granularity) =
               IF OverlapsAny(n, n + in.minutes, in.reservations)
               THEN Found(n) ELSE Found(n) \cup {n}
<1>1. /\ WS \in Nat /\ WE \in Nat /\ in.minutes \in Nat \ {0} /\ Granularity \in Nat \ {0}
  BY WindowOpen, InputTyped, GranularityAssumption
<1>2. ASSUME NEW s \in WS .. (WE - in.minutes), s < n + Granularity, n < s
      PROVE  (s - WS) % Granularity # 0
  <2>1. n - WS \in Nat /\ s - n \in 1 .. (Granularity - 1)
    BY <1>1, <1>2
  <2>2. ((n - WS) + (s - n)) % Granularity # 0
    BY <1>1, <2>1, BetweenGrid
  <2>3. (n - WS) + (s - n) = s - WS
    BY <1>1, <1>2
  <2> QED
    BY <2>2, <2>3
<1>3. n \in WS .. (WE - in.minutes)
  BY <1>1
<1>4. \A s \in WS .. (WE - in.minutes) :
          s < n + Granularity <=> s < n \/ s = n \/ (n < s /\ s < n + Granularity)
  BY <1>1
<1>5. \A s : s \in Found(n + Granularity) <=>
                 s \in Found(n) \/ (s = n /\ ~OverlapsAny(n, n + in.minutes, in.reservations))
  BY <1>2, <1>3, <1>4 DEF Found
<1> QED
  BY <1>5

LEMMA IterateStep == ASSUME SearchInv, Iterate PROVE SearchInv'
<1>1. /\ in \in Input /\ in' = in /\ pc' = "loop" /\ HasWindow(Date, in.day)
      /\ start \in Nat /\ WS <= start /\ (start - WS) % Granularity = 0
      /\ slots = Found(start) /\ start + in.minutes <= WE
      /\ start' = start + Granularity
      /\ slots' = IF OverlapsAny(start, start + in.minutes, in.reservations)
                  THEN slots ELSE slots \cup {start}
  BY DEF SearchInv, Iterate, WE
<1>2. /\ WS \in Nat /\ WE \in Nat /\ in.minutes \in Nat \ {0} /\ Granularity \in Nat \ {0}
  BY <1>1, WindowOpen, InputTyped, GranularityAssumption
<1>3. start' \in Nat /\ WS <= start' /\ start' < WE + Granularity
  BY <1>1, <1>2
<1>4. (start' - WS) % Granularity = 0
  <2>1. start - WS \in Nat
    BY <1>1, <1>2
  <2>2. ((start - WS) + Granularity) % Granularity = 0
    BY <1>1, <1>2, <2>1, GridStep
  <2>3. start' - WS = (start - WS) + Granularity
    BY <1>1, <1>2
  <2> QED
    BY <2>2, <2>3
<1>5. slots' = Found(start + Granularity)
  BY <1>1, FoundMore
<1>6. WS' = WS /\ WE' = WE
  BY <1>1 DEF WS, WE
<1>7. slots' = Found(start)'
  BY <1>1, <1>5, <1>6 DEF Found
<1> QED
  BY <1>1, <1>3, <1>4, <1>6, <1>7 DEF SearchInv

LEMMA ExitStep == ASSUME SearchInv, Exit PROVE SearchInv'
<1>1. /\ in \in Input /\ in' = in /\ pc' = "done" /\ HasWindow(Date, in.day)
      /\ start \in Nat /\ WS <= start /\ start < WE + Granularity
      /\ slots = Found(start) /\ start + in.minutes > WE
      /\ start' = start /\ slots' = slots
  BY DEF SearchInv, Exit, WE
<1>2. /\ WS \in Nat /\ WE \in Nat /\ in.minutes \in Nat \ {0} /\ Granularity \in Nat \ {0}
      /\ Date <= WS /\ WE <= Date + DayLen /\ Date \in Nat
  BY <1>1, WindowOpen, InputTyped, GranularityAssumption, InputAssumption
<1>3. \A s \in WS .. (WE - in.minutes) : s < start
  BY <1>1, <1>2
<1>4. Found(start) = AvailableSlots(Date, in.day, in.minutes, in.reservations)
  BY <1>1, <1>3 DEF Found, AvailableSlots, WS, WE
<1>5. start \in Date .. (Date + DayLen + Granularity - 1)
  BY <1>1, <1>2, DayLenAssumption
<1> QED
  BY <1>1, <1>4, <1>5 DEF SearchInv

LEMMA SearchHolds == Spec => []SearchInv
<1>1. SearchInv /\ [Next]_vars => SearchInv'
  <2>1. ASSUME SearchInv, UNCHANGED vars PROVE SearchInv'
    BY <2>1 DEF SearchInv, vars, Found, WS, WE
  <2> QED
    BY <2>1, EnterStep, IterateStep, ExitStep DEF Next
<1> QED
  BY <1>1, InitSearch, PTL DEF Spec

-----------------------------------------------------------------------------

\* The walk stays on its day, for every window, granularity and duration.
THEOREM SearchStaysOnTheDay == Spec => []TypeOK
<1>1. SearchInv => TypeOK
  <2> SUFFICES ASSUME SearchInv PROVE TypeOK
    OBVIOUS
  <2>0. /\ Date \in Nat /\ DayLen \in Nat \ {0} /\ Granularity \in Nat \ {0} /\ in \in Input
        /\ in.minutes \in Nat \ {0}
    BY InputAssumption, DayLenAssumption, GranularityAssumption, InputTyped DEF SearchInv
  <2>1. CASE pc = "enter"
    BY <2>0, <2>1 DEF SearchInv, TypeOK
  <2>2. CASE pc = "loop"
    <3>1. /\ WS \in Nat /\ WE \in Nat /\ Date <= WS /\ WE <= Date + DayLen
          /\ start \in Nat /\ WS <= start /\ start < WE + Granularity /\ slots = Found(start)
      BY <2>0, <2>2, WindowOpen DEF SearchInv
    <3>2. start \in Date .. (Date + DayLen + Granularity - 1)
      BY <2>0, <3>1
    <3>3. slots \subseteq Date .. (Date + DayLen - 1)
      BY <2>0, <3>1 DEF Found
    <3> QED
      BY <2>0, <2>2, <3>2, <3>3 DEF TypeOK
  <2>3. CASE pc = "done"
    <3>1. CASE HasWindow(Date, in.day)
      <4>1. /\ WS \in Nat /\ WE \in Nat /\ Date <= WS /\ WE <= Date + DayLen
            /\ slots \subseteq WS .. (WE - in.minutes)
        BY <2>0, <2>3, <3>1, WindowOpen DEF SearchInv, AvailableSlots, WS, WE
      <4>2. slots \subseteq Date .. (Date + DayLen - 1)
        BY <2>0, <4>1
      <4> QED
        BY <2>0, <2>3, <4>2 DEF SearchInv, TypeOK
    <3>2. CASE ~HasWindow(Date, in.day)
      BY <2>0, <2>3, <3>2 DEF SearchInv, TypeOK, AvailableSlots
    <3> QED
      BY <3>1, <3>2
  <2> QED
    BY <2>1, <2>2, <2>3 DEF SearchInv
<1> QED
  BY <1>1, SearchHolds, PTL

\* The loop computes the set by which the models of booking know the offer.
THEOREM SearchIsAvailableSlots == Spec => []SearchComputesAvailableSlots
<1>1. SearchInv => SearchComputesAvailableSlots
  BY DEF SearchInv, SearchComputesAvailableSlots
<1> QED
  BY <1>1, SearchHolds, PTL

-----------------------------------------------------------------------------
(* Intervals and instants.                                                 *)

\* An interval meets no reservation exactly if none of its instants is reserved.
LEMMA FreeIsUnreserved ==
    ASSUME in \in Input, NEW s \in Nat
    PROVE  ~OverlapsAny(s, s + in.minutes, in.reservations) <=>
               \A t \in s .. (s + in.minutes - 1) : ~Reserved(t)
<1>1. /\ in.minutes \in Nat \ {0}
      /\ \A r \in in.reservations : r.start \in Nat /\ r.end \in Nat /\ r.start < r.end
  BY InputTyped, InputAssumption
<1>2. ASSUME NEW r \in in.reservations, Overlaps(s, s + in.minutes, r.start, r.end)
      PROVE  \E t \in s .. (s + in.minutes - 1) : r.start <= t /\ t < r.end
  <2>1. CASE r.start <= s
    BY <1>1, <1>2, <2>1 DEF Overlaps
  <2>2. CASE s < r.start
    BY <1>1, <1>2, <2>2 DEF Overlaps
  <2> QED
    BY <1>1, <2>1, <2>2
<1>3. ASSUME NEW r \in in.reservations, NEW t \in s .. (s + in.minutes - 1),
             r.start <= t, t < r.end
      PROVE  Overlaps(s, s + in.minutes, r.start, r.end)
  BY <1>1, <1>3 DEF Overlaps
<1> QED
  BY <1>2, <1>3 DEF OverlapsAny, Reserved

\* The instants at which the barber works are those of the window.
LEMMA WorkableIsWindow ==
    ASSUME in \in Input, NEW t \in Int
    PROVE  Workable(t) <=> HasWindow(Date, in.day) /\ WS <= t /\ t < WE
<1>1. CASE IsOpen(in.day.hours) /\ IsOpen(Shift(in.day))
  <2>1. /\ in.day.hours.start \in Nat /\ in.day.hours.end \in Nat /\ Date \in Nat
        /\ Shift(in.day).start \in Nat /\ Shift(in.day).end \in Nat
    BY <1>1, WindowTyped, InputAssumption
  <2>2. Workable(t) <=> WS <= t /\ t < WE
    BY <1>1, <2>1
    DEF Workable, WS, WE, WindowStart, WindowEnd, Later, Earlier, TimeOfDay
  <2>3. WS <= t /\ t < WE => WS < WE
    BY <1>1, WindowTyped
  <2> QED
    BY <1>1, <2>2, <2>3 DEF HasWindow, WS, WE
<1>2. CASE ~(IsOpen(in.day.hours) /\ IsOpen(Shift(in.day)))
  BY <1>2 DEF Workable, HasWindow
<1> QED
  BY <1>1, <1>2

\* The offer, read instant by instant: what SlotsAreExactlyTheFreeOnes says of
\* one start.
Exact(s) ==
    /\ \A t \in s .. (s + in.minutes - 1) : Workable(t) /\ ~Reserved(t)
    /\ \E first \in Date .. s :
        /\ Workable(first)
        /\ \A t \in Date .. (first - 1) : ~Workable(t)
        /\ (s - first) % Granularity = 0

LEMMA OfferedIsExact ==
    ASSUME in \in Input, NEW s \in Date .. (Date + DayLen)
    PROVE  s \in AvailableSlots(Date, in.day, in.minutes, in.reservations) <=> Exact(s)
<1>0. Date \in Nat /\ DayLen \in Nat /\ s \in Nat /\ in.minutes \in Nat \ {0}
  BY InputAssumption, DayLenAssumption, InputTyped
<1>1. CASE HasWindow(Date, in.day)
  <2>1. WS \in Nat /\ WE \in Nat /\ WS < WE /\ Date <= WS /\ WE <= Date + DayLen
    BY <1>1, WindowOpen
  <2>2. \A t \in Int : Workable(t) <=> WS <= t /\ t < WE
    BY <1>1, WorkableIsWindow
  <2>3. (\A t \in s .. (s + in.minutes - 1) : Workable(t)) <=> s \in WS .. (WE - in.minutes)
    <3>1. s \in s .. (s + in.minutes - 1) /\ s + in.minutes - 1 \in s .. (s + in.minutes - 1)
      BY <1>0
    <3>2. \A t \in s .. (s + in.minutes - 1) : t \in Int
      BY <1>0
    <3> QED
      BY <1>0, <2>1, <2>2, <3>1, <3>2
  <2>4. \A first \in Date .. s :
            Workable(first) /\ (\A t \in Date .. (first - 1) : ~Workable(t)) <=> first = WS
    <3> SUFFICES ASSUME NEW first \in Date .. s
                 PROVE  Workable(first) /\ (\A t \in Date .. (first - 1) : ~Workable(t))
                            <=> first = WS
      OBVIOUS
    <3>1. CASE first = WS
      BY <1>0, <2>1, <2>2, <3>1
    <3>2. CASE first < WS
      BY <1>0, <2>1, <2>2, <3>2
    <3>3. CASE first > WS
      <4>1. WS \in Date .. (first - 1) /\ Workable(WS)
        BY <1>0, <2>1, <2>2, <3>3
      <4> QED
        BY <2>1, <3>3, <4>1
    <3> QED
      BY <1>0, <2>1, <3>1, <3>2, <3>3
  <2>5. s \in WS .. (WE - in.minutes) => WS \in Date .. s
    BY <1>0, <2>1
  <2>6. ~OverlapsAny(s, s + in.minutes, in.reservations) <=>
            \A t \in s .. (s + in.minutes - 1) : ~Reserved(t)
    BY <1>0, FreeIsUnreserved
  <2>7. s \in AvailableSlots(Date, in.day, in.minutes, in.reservations) <=>
            /\ s \in WS .. (WE - in.minutes)
            /\ (s - WS) % Granularity = 0
            /\ ~OverlapsAny(s, s + in.minutes, in.reservations)
    BY <1>1 DEF AvailableSlots, WS, WE
  <2>8. s \in WS .. (WE - in.minutes) =>
            ((s - WS) % Granularity = 0 <=>
                 \E first \in Date .. s : /\ Workable(first)
                                          /\ \A t \in Date .. (first - 1) : ~Workable(t)
                                          /\ (s - first) % Granularity = 0)
    BY <2>4, <2>5
  <2> QED
    BY <2>3, <2>6, <2>7, <2>8 DEF Exact
<1>2. CASE ~HasWindow(Date, in.day)
  <2>1. s \in s .. (s + in.minutes - 1) /\ ~Workable(s)
    BY <1>0, <1>2, WorkableIsWindow
  <2> QED
    BY <1>2, <2>1 DEF Exact, AvailableSlots
<1> QED
  BY <1>1, <1>2

\* The search offers the starts at which every instant of the service is open,
\* worked and unreserved, on the grid from the first workable instant, and no
\* other: for every window, granularity, duration and set of reservations.
THEOREM SearchIsExact == Spec => []SlotsAreExactlyTheFreeOnes
<1>1. SearchInv => SlotsAreExactlyTheFreeOnes
  <2> SUFFICES ASSUME SearchInv, pc = "done" PROVE slots = {s \in Date .. (Date + DayLen) : Exact(s)}
    BY DEF SlotsAreExactlyTheFreeOnes, Exact
  <2>1. /\ in \in Input
        /\ slots = AvailableSlots(Date, in.day, in.minutes, in.reservations)
    BY DEF SearchInv
  <2>2. slots \subseteq Date .. (Date + DayLen)
    <3>0. Date \in Nat /\ DayLen \in Nat /\ in.minutes \in Nat \ {0}
      BY <2>1, InputAssumption, DayLenAssumption, InputTyped
    <3>1. CASE HasWindow(Date, in.day)
      <4>1. /\ WS \in Nat /\ WE \in Nat /\ Date <= WS /\ WE <= Date + DayLen
            /\ slots \subseteq WS .. (WE - in.minutes)
        BY <2>1, <3>1, WindowOpen DEF AvailableSlots, WS, WE
      <4> QED
        BY <3>0, <4>1
    <3>2. CASE ~HasWindow(Date, in.day)
      BY <2>1, <3>2 DEF AvailableSlots
    <3> QED
      BY <3>1, <3>2
  <2> QED
    BY <2>1, <2>2, OfferedIsExact
<1> QED
  BY <1>1, SearchHolds, PTL

-----------------------------------------------------------------------------
(* Progress.                                                               *)

\* A bound on the steps that the search has still to take.
StepsLeft ==
    CASE pc = "enter" -> DayLen + Granularity + 2
      [] pc = "loop"  -> Date + DayLen + Granularity + 1 - start
      [] pc = "done"  -> 0

\* Every step of the search lowers the bound.
Advances == StepsLeft' \in Nat /\ StepsLeft' < StepsLeft

SearchAdvances == [][Advances]_vars

\* What the bound is in each place, where it is a number.
Bounded ==
    /\ pc \in {"enter", "loop", "done"}
    /\ pc = "enter" => StepsLeft = DayLen + Granularity + 2
    /\ pc = "loop" => /\ StepsLeft = Date + DayLen + Granularity + 1 - start
                      /\ start \in Nat /\ StepsLeft \in 2 .. (DayLen + Granularity + 1)
    /\ pc = "done" => StepsLeft = 0

LEMMA SearchIsBounded == SearchInv => Bounded
<1> SUFFICES ASSUME SearchInv PROVE Bounded
  OBVIOUS
<1>1. Date \in Nat /\ DayLen \in Nat \ {0} /\ Granularity \in Nat \ {0}
  BY InputAssumption, DayLenAssumption, GranularityAssumption
<1>2. ASSUME pc = "loop"
      PROVE  start \in Nat /\ Date <= start /\ start < Date + DayLen + Granularity
  <2>1. /\ WS \in Nat /\ WE \in Nat /\ Date <= WS /\ WE <= Date + DayLen
        /\ start \in Nat /\ WS <= start /\ start < WE + Granularity
    BY <1>2, WindowOpen DEF SearchInv
  <2> QED
    BY <1>1, <2>1
<1>3. pc = "loop" => StepsLeft = Date + DayLen + Granularity + 1 - start
  BY DEF StepsLeft
<1> QED
  BY <1>1, <1>2, <1>3 DEF StepsLeft, Bounded, SearchInv

\* The bound is a number, no step leaves it as it is, so there are no more steps
\* than it says: the search ends for every window, granularity and duration. That
\* the loop goes on while it can is the fairness of Spec.
THEOREM SearchAlwaysAdvances == Spec => SearchAdvances
<1>1. ASSUME Bounded, Bounded', Next PROVE Advances
  <2>0. Date \in Nat /\ DayLen \in Nat \ {0} /\ Granularity \in Nat \ {0}
    BY InputAssumption, DayLenAssumption, GranularityAssumption
  <2>1. CASE Enter
    BY <1>1, <2>0, <2>1 DEF Enter, Bounded, Advances
  <2>2. CASE Iterate
    BY <1>1, <2>0, <2>2 DEF Iterate, Bounded, Advances
  <2>3. CASE Exit
    BY <1>1, <2>0, <2>3 DEF Exit, Bounded, Advances
  <2> QED
    BY <1>1, <2>1, <2>2, <2>3 DEF Next
<1> QED
  BY <1>1, SearchIsBounded, SearchHolds, PTL DEF Spec, SearchAdvances
=============================================================================
