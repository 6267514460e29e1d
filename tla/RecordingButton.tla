---------------------------- MODULE RecordingButton ----------------------------
(***************************************************************************)
(* recording_button.py and recording_indicator.py: a process beside the    *)
(* daemon that samples a push button and asks the Device API for a start   *)
(* or a stop, and a thread of it that shows the capture state on an LED.   *)
(* The two threads share the stop event and read the same device, which    *)
(* other clients change at any time, so each is checked by itself.  Time   *)
(* is counted in polls of the button.                                      *)
(***************************************************************************)
EXTENDS Integers, Sequences

CONSTANTS
    Debounce, Cooldown,    \* in polls
    PriorTriggers,         \* the LED's trigger before the process
    Inverted,              \* status_led_inverted
    MaxPolls,              \* bounds for TLC
    MaxLedFaults

ASSUME ButtonConfig ==
    /\ Debounce \in Nat \ {0} /\ Cooldown \in Nat /\ Debounce <= Cooldown
    /\ PriorTriggers \subseteq {"none", "timer", "heartbeat"} /\ Inverted \in BOOLEAN
    /\ MaxPolls \in Nat /\ MaxLedFaults \in Nat

VARIABLES
    polls,                 \* time.monotonic
    button,                \* DebouncedButton
    press,                 \* handle_press: where it is and when it was pressed
    runs,                  \* runs of equal samples since the last press was handled: those
                           \* that lasted the debounce time, and the one that goes on
    commanded,             \* when each press that led to a command was recognised
    daemon,                \* the daemon: state, retained failure, calibrated date
    wire,                  \* the commands the daemon has not executed yet
    led, priorLed,         \* the files of the LED, now and before
    indicator,             \* run_indicator and its StatusLed
    stopping               \* the stop event

buttonVars == <<polls, button, press, runs, commanded, wire>>
indicatorVars == <<led, priorLed, indicator>>
panelVars == <<buttonVars, indicatorVars, daemon, stopping>>

CaptureStates == {"idle", "recording", "finalizing", "error"}
Never == -1000
NotPressed == [step |-> "poll", at |-> 0]

Found(trigger) ==
    [trigger |-> trigger, brightness |-> IF trigger = "timer" THEN "max" ELSE "dim",
     on |-> IF trigger = "timer" THEN "own" ELSE "none",
     off |-> IF trigger = "timer" THEN "own" ELSE "none"]

PanelInit ==
    /\ polls = 0 /\ stopping = FALSE
    /\ button = [candidate |-> "unknown", since |-> 0, armed |-> FALSE, last |-> Never]
    /\ press = NotPressed /\ runs = <<>> /\ commanded = <<>> /\ wire = {}
    /\ daemon = [state |-> "idle", retained |-> FALSE, dated |-> TRUE]
    /\ priorLed \in {Found(trigger) : trigger \in PriorTriggers} /\ led = priorLed
    /\ indicator = [step |-> "open", answer |-> "none", pattern |-> "none", owned |-> FALSE,
                    writes |-> <<>>, faults |-> 0, failed |-> FALSE]

(***************************************************************************)
(* The debounced button.                                                   *)
(***************************************************************************)
(* Mutant: a repeated sample is taken for a held one.                      *)
Stable_Repeated(level, now) == button.candidate = level

Stable(level, now) == button.candidate = level /\ now - button.since >= Debounce

(* DebouncedButton.update: the button afterwards. *)
Update(level, now) ==
    IF button.candidate # level
    THEN [button EXCEPT !.candidate = level, !.since = now]
    ELSE IF ~Stable(level, now) THEN button
    ELSE IF level = "released" THEN [button EXCEPT !.armed = TRUE]
    ELSE [button EXCEPT !.armed = FALSE,
              !.last = IF button.armed /\ now - @ >= Cooldown THEN now ELSE @]

(* The runs after a sample: the current run becomes held, or a new one     *)
(* begins and the one before is forgotten unless it was held.              *)
Sampled(level, now) ==
    LET n == Len(runs)
    IN  IF n > 0 /\ runs[n].level = level
        THEN [runs EXCEPT ![n].held =
                 IF @ = 0 /\ now - runs[n].from >= Debounce THEN now ELSE @]
        ELSE Append(SelectSeq(runs, LAMBDA run : run.held # 0),
                    [level |-> level, from |-> now, held |-> 0])

(* One turn of run_button's loop; a turn may come late. *)
SampleButton(level) ==
    /\ press.step = "poll" /\ ~stopping
    /\ \E now \in {polls + 1, polls + 2} :
          /\ now <= MaxPolls /\ polls' = now
          /\ button' = Update(level, now)
          /\ runs' = Sampled(level, now)
          /\ press' = IF button'.last = now THEN [step |-> "status", at |-> now] ELSE press
    /\ UNCHANGED <<commanded, wire, daemon, stopping, indicatorVars>>

\* an invalid level or a failing pin ends the process
GpioFails ==
    /\ press.step = "poll" /\ ~stopping
    /\ stopping' = TRUE
    /\ UNCHANGED <<buttonVars, daemon, indicatorVars>>

(* The press is over, however its requests went: disarm. *)
Handled ==
    /\ press' = NotPressed /\ runs' = <<>>
    /\ button' = [button EXCEPT !.candidate = "unknown", !.since = 0, !.armed = FALSE]
    /\ polls' \in {p \in {polls, polls + 2} : p <= MaxPolls}
    /\ UNCHANGED <<commanded, wire, daemon, stopping, indicatorVars>>

Asks(step) ==
    /\ press' = [press EXCEPT !.step = step]
    /\ UNCHANGED <<polls, button, runs, commanded, wire, daemon, stopping, indicatorVars>>

(* handle_press: the state decides what is asked for. *)
StatusAnswered ==
    /\ press.step = "status"
    /\ \/ daemon.state = "recording" /\ Asks("stop")
       \/ daemon.state = "idle" /\ Asks("clock")
       \/ daemon.state \notin {"recording", "idle"} /\ Handled

ClockAnswered ==
    /\ press.step = "clock"
    /\ \/ daemon.dated /\ Asks("start")
       \/ ~daemon.dated /\ Handled

RequestFails == press.step \in {"status", "clock"} /\ Handled

CommandSent ==
    /\ press.step \in {"start", "stop"}
    /\ wire' = wire \cup {[kind |-> press.step, at |-> press.at]}
    /\ commanded' = Append(commanded, press.at)
    /\ press' = [press EXCEPT !.step = "await"]
    /\ UNCHANGED <<polls, button, runs, daemon, stopping, indicatorVars>>

\* answered, refused or timed out: the command is never sent again
CommandOver == press.step = "await" /\ Handled

\* the daemon comes to a command, perhaps after the button has given up
CommandExecuted ==
    \E c \in wire :
        /\ wire' = wire \ {c}
        /\ daemon' = [daemon EXCEPT !.state =
               IF c.kind = "start" /\ @ = "idle" THEN "recording"
               ELSE IF c.kind = "stop" /\ @ = "recording" THEN "finalizing" ELSE @]
        /\ UNCHANGED <<polls, button, press, runs, commanded, stopping, indicatorVars>>

\* what other clients, the timer, NTP and failures do to the device
CaptureChanges ==
    /\ \/ \E s \in CaptureStates : daemon' = [daemon EXCEPT !.state = s]
       \/ daemon' = [daemon EXCEPT !.dated = ~@]
    /\ UNCHANGED <<buttonVars, stopping, indicatorVars>>

FailureRetained ==
    /\ daemon' = [daemon EXCEPT !.retained = ~@]
    /\ UNCHANGED <<buttonVars, stopping, indicatorVars>>

Terminated ==
    /\ ~stopping /\ stopping' = TRUE
    /\ UNCHANGED <<buttonVars, daemon, indicatorVars>>

(***************************************************************************)
(* The indicator.                                                          *)
(***************************************************************************)
(* The kernel's LED files: leaving a trigger switches the LED off, and the *)
(* timer starts with delays of its own.                                    *)
Wrote(file, value) ==
    CASE file = "trigger" /\ value = led.trigger -> led
      [] file = "trigger" /\ value = "timer" ->
            [led EXCEPT !.trigger = "timer", !.on = "default", !.off = "default"]
      [] file = "trigger" /\ value \notin {"timer", led.trigger} ->
            [trigger |-> value, brightness |-> IF value = "none" THEN "off" ELSE led.brightness,
             on |-> "none", off |-> "none"]
      [] file = "brightness" -> [led EXCEPT !.brightness = value]
      [] file = "delay_on" -> [led EXCEPT !.on = value]
      [] file = "delay_off" -> [led EXCEPT !.off = value]

IndicatorPattern ==
    CASE daemon.state = "recording" -> "recording"
      [] daemon.state = "finalizing" -> "saving"
      [] daemon.state = "idle" /\ ~daemon.retained -> "idle"
      [] OTHER -> "error"

Steady(pattern) == IF (pattern = "recording") # Inverted THEN "max" ELSE "off"

Cadence(pattern) == IF pattern = "saving" THEN "slow" ELSE "fast"

(* StatusLed.show *)
ShowWrites(pattern) ==
    IF pattern \in {"saving", "error"}
    THEN <<<<"trigger", "none">>, <<"brightness", "max">>, <<"trigger", "timer">>,
           <<"delay_on", Cadence(pattern)>>, <<"delay_off", Cadence(pattern)>>>>
    ELSE <<<<"trigger", "none">>, <<"brightness", Steady(pattern)>>>>

(* StatusLed.restore *)
RestoreWrites ==
    <<<<"trigger", "none">>, <<"brightness", priorLed.brightness>>,
      <<"trigger", priorLed.trigger>>>>
    \o IF priorLed.trigger = "timer"
       THEN <<<<"delay_on", priorLed.on>>, <<"delay_off", priorLed.off>>>> ELSE <<>>

IndicatorFrame == UNCHANGED <<buttonVars, daemon, stopping, priorLed>>

Indicates(changes) == indicator' = changes /\ UNCHANGED led /\ IndicatorFrame

\* without a usable LED the thread ends and the button works on
LedOpened ==
    /\ indicator.step = "open"
    /\ \E step \in {"poll", "ended"} : Indicates([indicator EXCEPT !.step = step])

(* No answer, or one that makes no sense, is shown as an error. *)
StatusPolled ==
    /\ indicator.step = "poll" /\ ~stopping
    /\ \E pattern \in {IndicatorPattern, "error"} :
          Indicates([indicator EXCEPT !.step = "show", !.answer = pattern])

ShowBegins ==
    /\ indicator.step = "show" /\ ~stopping
    /\ IF indicator.answer = indicator.pattern
       THEN Indicates([indicator EXCEPT !.step = "wait"])
       ELSE Indicates([indicator EXCEPT !.step = "showing", !.owned = TRUE,
                                        !.writes = ShowWrites(indicator.answer)])

RestoreBegins(i) ==
    IF i.owned THEN [i EXCEPT !.step = "restoring", !.writes = RestoreWrites]
    ELSE [i EXCEPT !.step = "ended", !.writes = <<>>]

WriteLed ==
    /\ indicator.writes # <<>>
    /\ led' = Wrote(Head(indicator.writes)[1], Head(indicator.writes)[2])
    /\ LET left == Tail(indicator.writes)
       IN  indicator' =
             CASE left # <<>> -> [indicator EXCEPT !.writes = left]
               [] left = <<>> /\ indicator.step = "showing" ->
                     [indicator EXCEPT !.writes = left, !.step = "wait",
                                       !.pattern = indicator.answer]
               [] left = <<>> /\ indicator.step = "restoring" ->
                     [indicator EXCEPT !.writes = left, !.step = "ended", !.owned = FALSE]
    /\ IndicatorFrame

\* one write of several fails: the loop ends, and the LED is restored if that can be done
WriteFails ==
    /\ indicator.writes # <<>> /\ indicator.faults < MaxLedFaults
    /\ LET faulty == [indicator EXCEPT !.faults = @ + 1]
       IN  Indicates(IF indicator.step = "showing" THEN RestoreBegins(faulty)
                     ELSE [faulty EXCEPT !.step = "ended", !.writes = <<>>, !.failed = TRUE])

NextTurn ==
    /\ indicator.step = "wait"
    /\ Indicates([indicator EXCEPT !.step = "poll"])

IndicatorStops ==
    /\ stopping /\ indicator.step \in {"poll", "show", "wait"}
    /\ Indicates(RestoreBegins(indicator))

\* main waits three seconds for the thread and then exits without it
JoinTimesOut ==
    /\ stopping /\ indicator.step \notin {"ended", "killed"}
    /\ Indicates([indicator EXCEPT !.step = "killed", !.writes = <<>>])

-----------------------------------------------------------------------------
ButtonNext ==
    \/ \E level \in {"released", "pressed"} : SampleButton(level)
    \/ GpioFails \/ StatusAnswered \/ ClockAnswered \/ RequestFails
    \/ CommandSent \/ CommandOver \/ CommandExecuted
    \/ press.step # "poll" /\ CaptureChanges   \* nobody looks at the device before
IndicatorNext ==
    \/ LedOpened \/ StatusPolled \/ ShowBegins \/ WriteLed \/ WriteFails \/ NextTurn
    \/ IndicatorStops \/ JoinTimesOut \/ CaptureChanges \/ FailureRetained \/ Terminated

PanelNext == ButtonNext \/ IndicatorNext

PanelSpec == PanelInit /\ [][PanelNext]_panelVars

PanelTypeOK ==
    /\ polls \in 0..MaxPolls /\ button.armed \in BOOLEAN
    /\ press.step \in {"poll", "status", "clock", "start", "stop", "await"}
    /\ daemon.state \in CaptureStates /\ stopping \in BOOLEAN
    /\ indicator.step \in {"open", "poll", "show", "showing", "wait", "restoring", "ended",
                           "killed"}

(* DebouncedButton.update and disarm: a press is acted on at the moment it *)
(* has been sampled as pressed for the debounce time, and what was held as *)
(* long before it is the released button, sampled after the last press was *)
(* handled.  A bouncing button, one that is held on through the cooldown,  *)
(* or input from the time of a slow request, is not a press.               *)
PressWasReal ==
    press.step # "poll" =>
        LET n == Len(runs)
        IN  /\ n > 1 /\ runs[n - 1].level = "released" /\ runs[n].level = "pressed"
            /\ runs[n].held = press.at

(* run_button: two commands come from two presses, at least the cooldown   *)
(* apart, whatever became of the first one.                                *)
OneCommandPerPress ==
    \A i \in 1..(Len(commanded) - 1) : commanded[i + 1] - commanded[i] >= Cooldown

(* What the eye sees of the LED. *)
Seen ==
    IF led.trigger = "timer" /\ led.brightness = "max" /\ led.on = led.off THEN led.on
    ELSE IF led.trigger = "none" THEN (led.brightness = "max") # Inverted
    ELSE "other"

(* StatusLed.show skips the writes when the pattern has not changed; what  *)
(* is seen while the thread waits is still the last answer.                *)
LedShowsAnswer ==
    indicator.step = "wait" =>
        Seen = IF indicator.answer \in {"saving", "error"} THEN Cadence(indicator.answer)
               ELSE indicator.answer = "recording"

(* StatusLed.restore: when the thread has ended by itself, the LED is as   *)
(* it was found, a write that failed half-way through a pattern included,  *)
(* unless the restoring itself failed.                                     *)
LedRestored ==
    indicator.step = "ended" /\ ~indicator.failed => led = priorLed

(* The button acts once on each real press and the LED says what the       *)
(* daemon said, and is given back (recording_button.py,                    *)
(* recording_indicator.py).                                                *)
PanelSafe == PressWasReal /\ OneCommandPerPress /\ LedShowsAnswer /\ LedRestored
=============================================================================
