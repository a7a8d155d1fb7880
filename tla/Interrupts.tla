----------------------------- MODULE Interrupts -----------------------------
(***************************************************************************)
(* The clock and the pending interrupts of machine/interrupt.cc, and the   *)
(* hardware timer of machine/timer.cc.  A device has at most one interrupt *)
(* pending, so the sorted list of the code is the time each device is due. *)
(* The devices extend this module: CheckIfDue says which handlers run, a   *)
(* device adds what its handler does.                                      *)
(***************************************************************************)
EXTENDS Integers

CONSTANTS
  Device,       (* the devices that interrupt, "timer" among them          *)
  Ticks,        (* what OneTick adds: UserTick, SystemTick                 *)
  TimerTicks,   (* time between timer interrupts                           *)
  Randomize     (* Timer::randomize, the -rs option                        *)

ASSUME InterruptAssumption ==
  /\ "timer" \in Device
  /\ Ticks \subseteq Nat \ {0}
  /\ TimerTicks \in Nat \ {0}
  /\ Randomize \in BOOLEAN

VARIABLES
  now,          (* Statistics::totalTicks                                  *)
  when          (* PendingInterrupt::when of each device, 0: none pending  *)

clockVars == <<now, when>>

(* Timer::SetInterrupt: the delay, fixed or random                         *)
TimerDelay == IF Randomize THEN 1 .. 2 * TimerTicks ELSE {TimerTicks}

(* Timer::Timer                                                            *)
ClockInit ==
  /\ now = 0
  /\ \E delay \in TimerDelay :
       when = [d \in Device |-> IF d = "timer" THEN delay ELSE 0]

(* Interrupt::Schedule                                                     *)
Schedule(d, fromNow) ==
  /\ when' = [when EXCEPT ![d] = now + fromNow]
  /\ UNCHANGED now

(* The interrupts whose handlers run when the time is n                    *)
Due(n) == {d \in Device : when[d] # 0 /\ when[d] <= n}

(* Interrupt::CheckIfDue at time n: every handler that is due runs, and    *)
(* that of the timer schedules the next timer interrupt.                   *)
CheckIfDue(n, fired) ==
  /\ fired = Due(n)
  /\ now' = n
  /\ \E delay \in TimerDelay :
       when' = [d \in Device |-> IF d \notin fired THEN when[d]
                                 ELSE IF d = "timer" THEN n + delay ELSE 0]

(* The time Interrupt::Idle advances the clock to: that of the next        *)
(* interrupt                                                               *)
IdleUntil(n) ==
  \E d \in Device : /\ when[d] # 0
                    /\ \A e \in Device : when[e] # 0 => when[d] <= when[e]
                    /\ n = when[d]

(* No interrupt is overdue once CheckIfDue returned, also when several     *)
(* fall due in one tick, and the timer is always pending, which is what    *)
(* keeps Idle from halting the machine (interrupt.cc:218, timer.cc:59).    *)
NothingOverdue ==
  /\ \A d \in Device : when[d] # 0 => when[d] > now
  /\ when["timer"] # 0
=============================================================================
