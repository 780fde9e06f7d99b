----------------------------- MODULE GpioButton -----------------------------
(***************************************************************************)
(* The debounce of one GPIO button (ButtonImpl of gpio_button.cpp).  The   *)
(* level of the pin is read at each pass of loop(); a push is reported when*)
(* the level goes off and was seen on for longer than the bounce of the    *)
(* contact.  Times are kept in integers of 2 * Half values: millis() is    *)
(* unsigned and wraps, last_on_time_ is a signed int in which -1 stands for*)
(* "off", and time_t is wider than an int or not, depending on the C       *)
(* library.                                                                *)
(* Bound: MaxUptime, above 2 * Half, and MaxGap between two passes of      *)
(* loop().                                                                 *)
(***************************************************************************)
EXTENDS Integers

CONSTANTS
  Half,                \* an int holds -Half .. Half - 1; 2^31 in the code
  IgnoreDuration,      \* kButtonPushIgnoreDurationMs
  MaxUptime, MaxGap

GpioAssumption ==
  /\ Half \in Nat \ {0} /\ IgnoreDuration \in Nat
  /\ MaxUptime \in Nat /\ MaxGap \in Nat \ {0}

VARIABLES
  wideTime,      \* time_t is wider than an int
  uptime,        \* what millis() would be if it did not wrap
  wasSwitchOn,   \* was_switch_on_
  lastOnTime,    \* last_on_time_
  pushed,        \* PopButtonPushEvent reports an event
  onSince        \* history: the uptime when the level was first seen on

vars == <<wideTime, uptime, wasSwitchOn, lastOnTime, pushed, onSince>>

\* The constructor, at Register; the uptime is any.
Init ==
  /\ wideTime \in BOOLEAN /\ uptime \in 0 .. MaxUptime
  /\ wasSwitchOn = FALSE /\ lastOnTime = 0 /\ pushed = FALSE
  /\ onSince = uptime

Signed(n) == ((n + Half) % (2 * Half)) - Half
Millis(t) == t % (2 * Half)

\* button_duration_ms, an uint64_t: no negative difference is small.
LongerThanBounce(now, last) ==
  LET difference == IF wideTime THEN now - last ELSE Signed(now - last) IN
  difference < 0 \/ difference > IgnoreDuration

\* Mutant of UpdateButtonState: a press that is seen again starts anew.
UpdateRestarting(on, t) ==
  LET now == IF wideTime THEN Millis(t) ELSE Signed(Millis(t))
      last == IF on THEN Signed(Millis(t)) ELSE lastOnTime IN
  /\ wasSwitchOn' = on
  /\ lastOnTime' = IF on THEN last ELSE -1
  /\ pushed' = (last # -1 /\ wasSwitchOn /\ ~on /\ LongerThanBounce(now, last))

\* The early return for -1 leaves everything but was_switch_on_ alone.
UpdateButtonState(on, t) ==
  LET now == IF wideTime THEN Millis(t) ELSE Signed(Millis(t))
      last == IF on /\ ~wasSwitchOn THEN Signed(Millis(t)) ELSE lastOnTime IN
  /\ wasSwitchOn' = on
  /\ lastOnTime' = IF on THEN last ELSE -1
  /\ pushed' = (last # -1 /\ wasSwitchOn /\ ~on /\ LongerThanBounce(now, last))

\* A pass of HandleEvents, gap later; the event is popped in the same pass.
HandleEvents(on, gap) ==
  /\ uptime + gap <= MaxUptime /\ uptime' = uptime + gap
  /\ UpdateButtonState(on, uptime + gap)
  /\ onSince' = IF on /\ ~wasSwitchOn THEN uptime + gap ELSE onSince
  /\ UNCHANGED wideTime

\* Unregister and Register, when the setting changes: a new ButtonImpl.
Register ==
  /\ wasSwitchOn' = FALSE /\ lastOnTime' = 0 /\ pushed' = FALSE
  /\ UNCHANGED <<wideTime, uptime, onSince>>

Next == (\E on \in BOOLEAN, gap \in 1 .. MaxGap : HandleEvents(on, gap)) \/ Register

Spec == Init /\ [][Next]_vars

-----------------------------------------------------------------------------
(* Properties *)

\* Before millis() reaches the sign bit of an int, a push is reported when, and
\* only when, the level goes off that was seen on for longer than the bounce.
\* With a time_t of 32 bits that stays so but for the one millisecond whose time
\* is -1.
Debounced ==
  [][LET held == uptime' - onSince IN
     (uptime' # uptime /\ \/ uptime' < Half
                          \/ ~wideTime /\ Signed(Millis(onSince)) # -1
                             /\ held < Half) =>
       (pushed' <=> wasSwitchOn /\ ~wasSwitchOn' /\ held > IgnoreDuration)]_vars
=============================================================================
