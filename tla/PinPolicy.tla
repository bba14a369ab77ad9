------------------------------ MODULE PinPolicy ------------------------------
(***************************************************************************)
(* PinPolicyMgr: the delay that wrong PINs earn.  A wrong PIN costs an     *)
(* attempt; when the attempts are used up the delay grows by a minute and  *)
(* logins are refused until it is over, and past the longest delay the     *)
(* manager starts again from nothing.  Time is the time stamp counter.     *)
(***************************************************************************)
EXTENDS Integers

CONSTANTS
    MaxAttempts,  \* MAX_ALLOWED_PIN_AUTH_ATTEMPTS
    MaxDelay,     \* MAX_DELAY_FACTOR_IN_MINS
    Minute,       \* ticks of the time stamp counter in a delay increment
    MaxTime       \* bound: the last tick of the clock

ASSUME PolicyAssumption == {MaxAttempts, MaxDelay, Minute} \subseteq Nat \ {0}
ASSUME ClockAssumption == MaxTime \in Nat

VARIABLES
    pin,   \* PinPolicy of the partition
    tsc,   \* the time stamp counter
    tries  \* wrong PINs at this tick since the manager last forgave (history)

pinVars == <<pin, tsc, tries>>

Policy == [state : {"Ready", "Lockout"}, attempts : Nat, delay : Nat, until : Nat]
Default == [state |-> "Ready", attempts |-> 0, delay |-> 0, until |-> 0]

PinInit == pin = Default /\ tsc = 0 /\ tries = 0

(* can_login *)
CanLogin == pin.state = "Ready" \/ tsc >= pin.until

(* reset_context: everything but the state *)
Forgiven(p) == [p EXCEPT !.attempts = 0, !.delay = 0, !.until = 0]

(* increment_delay_factor *)
Delayed(p) == IF p.delay + 1 > MaxDelay THEN Forgiven(p)
                                        ELSE [p EXCEPT !.delay = @ + 1]

(* increment_allowed_attempts *)
Counted(p) == IF p.attempts + 1 = MaxAttempts
                THEN [Delayed(p) EXCEPT !.attempts = 0]
                ELSE [p EXCEPT !.attempts = @ + 1]

(* Mutant: the lockout time is set before the delay grows *)
LockoutEarly(p) == Counted([p EXCEPT !.until = tsc + p.delay * Minute])

(* lockout: the attempt is counted, then the lockout time set *)
Lockout(p) == LET c == Counted(p)
              IN  [c EXCEPT !.until = tsc + c.delay * Minute]

(* The delay that has grown past its maximum is forgotten *)
RollsOver(p) == p.attempts + 1 = MaxAttempts /\ p.delay + 1 > MaxDelay

(* enforce_pin_policy while logins are refused, whatever the PIN is *)
LoginRefused == ~CanLogin /\ UNCHANGED pinVars

(* enforce_pin_policy with the right PIN; the state stays what it was *)
LoginRight ==
    /\ CanLogin
    /\ pin' = IF pin.state = "Lockout" THEN Forgiven(pin) ELSE pin
    /\ tries' = 0
    /\ UNCHANGED tsc

(* enforce_pin_policy with a wrong PIN *)
LoginWrong ==
    /\ CanLogin
    /\ pin' = Lockout([pin EXCEPT !.state = "Lockout"])
    /\ tries' = IF RollsOver(pin) THEN 0 ELSE tries + 1
    /\ UNCHANGED tsc

(* disable and migrate put the default policy back *)
PinForgotten == pin' = Default /\ tries' = 0 /\ UNCHANGED tsc

Clock == tsc < MaxTime /\ tsc' = tsc + 1 /\ tries' = 0 /\ UNCHANGED pin

PinNext == LoginRefused \/ LoginRight \/ LoginWrong \/ PinForgotten \/ Clock

PinSpec == PinInit /\ [][PinNext]_pinVars

-----------------------------------------------------------------------------
(* The policy has the shape of the persistent store's record; the counters   *)
(* stay below the limits they are compared with.                             *)
PinTypeOK ==
    /\ pin \in Policy /\ tsc \in Nat /\ tries \in Nat
    /\ pin.attempts < MaxAttempts /\ pin.delay <= MaxDelay

(* However many logins are in flight, no more than MaxAttempts wrong PINs are *)
(* compared before the clock has to move on (the count starts again with a    *)
(* right PIN, a disabled function or a delay that has rolled over).           *)
GuessesBounded == tries <= MaxAttempts
=============================================================================
