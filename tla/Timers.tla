-------------------------------- MODULE Timers --------------------------------
(***************************************************************************)
(* The timers: always-on counters, RTC, PWM, watchdog, PIC timer and the   *)
(* timer of the sensor subsystem.  Each driver programs its timer in a few *)
(* steps, which the timer's interrupt may fall between, and each has its   *)
(* interrupt handler, during which the timers go on.                       *)
(*                                                                         *)
(* A function of a driver, and a handler, is the sequence of its steps.  A *)
(* behaviour is one of one kind of timer.  Interrupts are level sensitive; *)
(* that of the PIC timer, which the controller latches, is cleared when it *)
(* is taken.  "pwm" is the PWM whose channels share one interrupt (Quark   *)
(* D2000), "pwms" the one whose channels have their own (Quark SE).        *)
(***************************************************************************)
EXTENDS Naturals, Sequences, SequencesExt

CONSTANTS
  TimerKinds,    \* the kinds considered
  Callbacks,     \* the callbacks of the client, each of which wants its own data
  NoCallback,    \* NULL
  LiveReconfig   \* the kinds that the client programs again while they run

AllTimerKinds == {"aonpt", "rtc", "pwm", "pwms", "wdt", "pic", "ss"}

ASSUME TimersAssumption ==
  /\ TimerKinds \subseteq AllTimerKinds /\ LiveReconfig \subseteq AllTimerKinds
  /\ NoCallback \notin Callbacks

VARIABLES
  timer,     \* the kind of the timer
  on,        \* the channels that count
  masked,    \* the channels whose interrupt is masked or disabled
  pending,   \* the channels whose interrupt is pending
  callback, callback_data,  \* those of the driver, for each channel
  task,      \* the steps the client's call still has to do
  isr,       \* the steps the handler still has to do
  unseen     \* ghost: the channels whose expiry their client has not heard of

timersVars == <<timer, on, masked, pending, callback, callback_data, task, isr, unseen>>

\* Two counters, or two channels of the PWM.
Channels == IF timer \in {"aonpt", "pwm", "pwms"} THEN {0, 1} ELSE {0}

TimersInit ==
  /\ timer \in TimerKinds
  /\ on = {} /\ pending = {} /\ unseen = {}
  /\ masked = IF timer \in {"rtc", "pic", "ss"} THEN Channels ELSE {}
  /\ callback = [c \in Channels |-> NoCallback]
  /\ callback_data = [c \in Channels |-> NoCallback]
  /\ task = <<>> /\ isr = <<>>

-----------------------------------------------------------------------------
(* The drivers, as steps: what is done, to which channel, with what value. *)

Step(what, c) == <<what, c, NoCallback>>
SetCallback(c, f) == <<<<"callback", c, f>>, <<"data", c, f>>>>
MaskUnless(f, c) == <<Step(IF f = NoCallback THEN "mask" ELSE "unmask", c)>>

\* Mutant: the RTC counts on while it is programmed.
RtcKeptOn(c) == <<Step("clear", c)>>

\* The RTC is disabled, and its interrupt cleared, before it is programmed.
RtcFirst(c) == <<Step("off", c), Step("clear", c)>>

\* The set_config of each driver.  The loads of counters, periods and modes are
\* part of the steps around them.
AonptConfig(c, f) ==
  <<Step("clear", c)>>
  \o IF f = NoCallback THEN <<<<"callback", c, f>>>> ELSE SetCallback(c, f)

RtcConfig(c, f) ==
  RtcFirst(c) \o SetCallback(c, f) \o MaskUnless(f, c) \o <<Step("on", c)>>

PwmConfig(c, f) == <<Step("off", c)>> \o MaskUnless(f, c) \o SetCallback(c, f)

\* Without a callback the watchdog is in its mode that resets at once, where it
\* does not interrupt.
WdtConfig(c, f) ==
  <<Step("clear", c)>> \o (IF f = NoCallback THEN <<>> ELSE SetCallback(c, f))
  \o MaskUnless(f, c) \o <<Step("clear", c)>>

PicConfig(c, f) ==
  <<Step("off", c), Step("mask", c)>> \o SetCallback(c, f) \o MaskUnless(f, c)

SsTimerConfig(c, f) == <<Step("clear", c)>> \o MaskUnless(f, c) \o SetCallback(c, f)

ConfigSteps(c, f) ==
  CASE timer = "aonpt" -> AonptConfig(c, f)
    [] timer = "rtc" -> RtcConfig(c, f)
    [] timer \in {"pwm", "pwms"} -> PwmConfig(c, f)
    [] timer = "wdt" -> WdtConfig(c, f)
    [] timer = "pic" -> PicConfig(c, f)
    [] timer = "ss" -> SsTimerConfig(c, f)

\* Mutant: timerseoi, which clears every channel, is read for each.
ClearBoth(c) == <<Step("clear", 0), Step("clear", 1)>>

\* The channel's own eoi is read.
ClearReported(c) == <<Step("clear", c)>>

\* The PWM's shared handler goes by the status it read when it began.
Reported(c) ==
  IF c \in pending /\ callback[c] # NoCallback
  THEN <<Step("call", c)>> \o ClearReported(c) ELSE <<>>

\* The handlers.  That of the counters looks at each in turn.
AonptIsr == <<Step("look", 0), Step("look", 1)>>
RtcIsr(c) == <<Step("mask", c), Step("call", c), Step("clear", c)>>
PwmSharedIsr == Reported(0) \o Reported(1)
PwmIsr(c) == <<Step("call", c), Step("clear", c)>>
WdtIsr(c) == <<Step("call", c), Step("clear", c)>>
PicIsr(c) == <<Step("call", c)>>
SsTimerIsr(c) == <<Step("call", c), Step("clear", c)>>

IsrSteps(c) ==
  CASE timer = "aonpt" -> AonptIsr
    [] timer = "rtc" -> RtcIsr(c)
    [] timer = "pwm" -> PwmSharedIsr
    [] timer = "pwms" -> PwmIsr(c)
    [] timer = "wdt" -> WdtIsr(c)
    [] timer = "pic" -> PicIsr(c)
    [] timer = "ss" -> SsTimerIsr(c)

\* A counter's interrupt is pending when the handler looks.
Found(s) ==
  IF s[1] = "look" /\ s[2] \in pending
  THEN <<Step("call", s[2]), Step("clear", s[2])>> ELSE <<>>

Does(s) ==
  LET c == s[2] IN
  /\ on' = CASE s[1] = "on" -> on \cup {c} [] s[1] = "off" -> on \ {c} [] OTHER -> on
  /\ \/ /\ masked' = CASE s[1] = "mask" -> masked \cup {c}
                       [] s[1] = "unmask" -> masked \ {c} [] OTHER -> masked
     \/ \* The RTC's callback calls qm_rtc_set_alarm.
        /\ s[1] = "call" /\ timer = "rtc" /\ callback[c] # NoCallback
        /\ masked' = masked \ {c}
  /\ pending' = IF s[1] = "clear" THEN pending \ {c} ELSE pending
  /\ callback' = IF s[1] = "callback" THEN [callback EXCEPT ![c] = s[3]] ELSE callback
  /\ callback_data' =
       IF s[1] = "data" THEN [callback_data EXCEPT ![c] = s[3]] ELSE callback_data

-----------------------------------------------------------------------------
(* The client.                                                             *)

Calls(steps) == task = <<>> /\ isr = <<>> /\ task' = steps

\* qm_aonpt_set_config, qm_rtc_set_config, ...
SetConfig(c, f) ==
  /\ c \in on \cup pending => timer \in LiveReconfig
  /\ Calls(ConfigSteps(c, f))
  /\ UNCHANGED <<timer, on, masked, pending, callback, callback_data, isr, unseen>>

\* qm_aonc_enable, qm_pwm_start, qm_wdt_start, qm_pic_timer_set, qm_ss_timer_set.
Start(c) ==
  /\ timer # "rtc"
  /\ Calls(<<Step("on", c)>> \o IF timer = "wdt" THEN <<Step("clear", c)>> ELSE <<>>)
  /\ UNCHANGED <<timer, on, masked, pending, callback, callback_data, isr, unseen>>

\* qm_aonc_disable, qm_pwm_stop, qm_pic_timer_set of zero.
Stop(c) ==
  /\ timer \in {"aonpt", "pwm", "pwms", "pic"} /\ c \in on
  /\ Calls(<<Step("off", c)>>)
  /\ UNCHANGED <<timer, on, masked, pending, callback, callback_data, isr, unseen>>

\* qm_aonpt_clear, qm_wdt_reload
Clear(c) ==
  /\ timer \in {"aonpt", "wdt"} /\ Calls(<<Step("clear", c)>>)
  /\ UNCHANGED <<timer, on, masked, pending, callback, callback_data, isr, unseen>>

\* qm_rtc_set_alarm
SetAlarm(c) ==
  /\ timer = "rtc" /\ Calls(<<Step("unmask", c)>>)
  /\ UNCHANGED <<timer, on, masked, pending, callback, callback_data, isr, unseen>>

\* What expired before its client programs a channel anew is past.
TaskStep ==
  /\ isr = <<>> /\ task # <<>> /\ task' = Tail(task)
  /\ Does(Head(task))
  /\ unseen' = IF Head(task)[1] = "clear" THEN unseen \ {Head(task)[2]} ELSE unseen
  /\ UNCHANGED <<timer, isr>>

-----------------------------------------------------------------------------
(* The interrupt and the timers.                                           *)

\* The PIC timer's interrupt, once latched, is taken whatever the mask.
Isr(c) ==
  /\ isr = <<>> /\ c \in pending /\ (c \notin masked \/ timer = "pic")
  /\ isr' = IsrSteps(c)
  /\ pending' = IF timer = "pic" THEN pending \ {c} ELSE pending
  /\ UNCHANGED <<timer, on, masked, callback, callback_data, task, unseen>>

IsrStep ==
  LET s == Head(isr)
  IN  /\ isr # <<>> /\ isr' = Found(s) \o Tail(isr)
      /\ Does(s)
      /\ unseen' = IF s[1] = "call" THEN unseen \ {s[2]} ELSE unseen
      /\ UNCHANGED <<timer, task>>

\* A channel does not expire again in its own handler.
Served(c) == isr # <<>> /\ Head(isr) = Step("clear", c)

Expire(c) ==
  /\ c \in on \ (masked \cup pending) /\ ~Served(c)
  /\ pending' = pending \cup {c}
  /\ unseen' = IF callback[c] # NoCallback THEN unseen \cup {c} ELSE unseen
  /\ UNCHANGED <<timer, on, masked, callback, callback_data, task, isr>>

TimersNext ==
  \/ TaskStep \/ IsrStep
  \/ \E c \in Channels :
       \/ Start(c) \/ Stop(c) \/ Clear(c) \/ SetAlarm(c)
       \/ Isr(c) \/ Expire(c)
       \/ \E f \in Callbacks \cup {NoCallback} : SetConfig(c, f)

TimersSpec == TimersInit /\ [][TimersNext]_timersVars

-----------------------------------------------------------------------------
(* Properties.                                                             *)

TimersTypeOK ==
  /\ timer \in TimerKinds /\ on \cup masked \cup pending \cup unseen \subseteq Channels
  /\ callback \in [Channels -> Callbacks \cup {NoCallback}]
  /\ callback_data \in [Channels -> Callbacks \cup {NoCallback}]

\* Until the client's callback has been called for an expiry, its interrupt stays
\* pending, or the handler is about to call it: nothing another channel, or a call
\* of the client, does loses it.
NoExpiryLost ==
  \A c \in unseen : c \in pending \/ Contains(isr, Step("call", c))

\* A callback is called with its own data, although the driver changes the two one
\* after the other.
CallbackGetsItsData ==
  isr # <<>> /\ Head(isr)[1] = "call" =>
    LET c == Head(isr)[2]
    IN  callback[c] # NoCallback => callback_data[c] = callback[c]
-----------------------------------------------------------------------------
(* The inductive invariant behind the two.                                 *)

IsrActs == {Step(what, c) : what \in {"look", "call", "clear", "mask"}, c \in Channels}

TaskActs ==
  {<<what, c, f>> :
     what \in {"on", "off", "mask", "unmask", "clear", "callback", "data"},
     c \in Channels, f \in Callbacks \cup {NoCallback}}

TimersSteps ==
  /\ timer \in TimerKinds /\ task \in Seq(TaskActs) /\ isr \in Seq(IsrActs)
  /\ callback \in [Channels -> Callbacks \cup {NoCallback}]
  /\ callback_data \in [Channels -> Callbacks \cup {NoCallback}]

\* A handler clears an interrupt right after the call of its channel's callback.
CalledThenCleared ==
  \A i \in 1 .. Len(isr) :
    isr[i][1] = "clear" =>
      IF i = 1 THEN isr[i][2] \notin unseen
      ELSE isr[i - 1] = Step("call", isr[i][2])

\* Nothing calls back, nor is going to.
Quiet(c) == c \notin on \cup pending /\ ~Contains(isr, Step("call", c))

\* By the i-th step of the client's call the channel is quiet: it is already, or
\* it is turned off and cleared before.
QuietBy(i, c) ==
  \/ Quiet(c)
  \/ \E j \in 1 .. i - 1 :
       /\ task[j] = Step("clear", c)
       /\ c \notin on \/ \E k \in 1 .. j - 1 : task[k] = Step("off", c)

\* A callback and its data are changed while the channel is quiet.
ChangedQuiet ==
  \A i \in 1 .. Len(task) :
    task[i][1] \in {"callback", "data"} =>
      /\ QuietBy(i, task[i][2])
      /\ \A j \in 1 .. i - 1 : task[j][1] # "on"

\* Each callback is changed with its data.
ChangedTogether ==
  \A i \in 1 .. Len(task) :
    LET c == task[i][2]
        f == task[i][3]
    IN  /\ task[i][1] = "callback" =>
             \/ f = NoCallback
             \/ i < Len(task) /\ task[i + 1] = <<"data", c, f>>
        /\ task[i][1] = "data" =>
             IF i = 1 THEN f = callback[c] ELSE task[i - 1] = <<"callback", c, f>>

\* The two differ only from the one step to the other.
DataFollows ==
  \A c \in Channels :
    callback[c] # NoCallback /\ callback_data[c] # callback[c] =>
      task # <<>> /\ task[1] = <<"data", c, callback[c]>>

ExpiryInv == TimersSteps /\ CalledThenCleared /\ NoExpiryLost

TimersInv == ExpiryInv /\ ChangedQuiet /\ ChangedTogether /\ DataFollows
=============================================================================
