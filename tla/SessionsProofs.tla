--------------------------- MODULE SessionsProofs ---------------------------
(***************************************************************************)
(* Proofs about the sessions of a partition, for any number of commands,   *)
(* session ids and vault entries.  Whether or not the host is orderly: a   *)
(* nonce is accepted once, the PIN policy keeps what it promises whatever  *)
(* the commands around it do, and no session id is lost.  For an orderly   *)
(* host, and only for one: the session table and the vault agree, and the  *)
(* keys of a session die with it.                                          *)
(***************************************************************************)
EXTENDS Sessions, TLAPS, FiniteSetTheorems, WellFoundedInduction

-----------------------------------------------------------------------------
(* The PIN policy on its own, for any number of attempts, any longest delay *)
(* and any length of a minute                                               *)


(* What GuessesBounded needs to be inductive: as long as no delay has been   *)
(* earned the attempts count every wrong PIN of this tick; once one has, a   *)
(* wrong PIN of this tick means that logins are refused until a later tick.  *)
Tracked ==
    /\ pin.state = "Ready" => pin.attempts = 0 /\ pin.delay = 0
    /\ pin.delay = 0 => tries <= pin.attempts
    /\ pin.delay > 0 /\ tries > 0 => pin.until > tsc

PinInv == PinTypeOK /\ GuessesBounded /\ Tracked

(* The lock-out that a positive delay sets ends after this tick. *)
LEMMA DelayIsLater ==
    ASSUME NEW d \in Nat, d > 0, NEW now \in Nat
    PROVE  now + d * Minute \in Nat /\ now + d * Minute > now
<1>1. Minute \in Nat /\ Minute > 0
  BY PolicyAssumption
<1>2. d * Minute \in Nat /\ d * Minute > 0
  BY <1>1
<1> QED
  BY <1>2

(* What the count of an attempt does to the policy: it grows, or it is used   *)
(* up and brings a longer delay, or the delay has reached its end as well.    *)
LEMMA CountedPolicy ==
    ASSUME NEW p \in Policy, p.attempts < MaxAttempts, p.delay <= MaxDelay
    PROVE  /\ Counted(p) \in Policy
           /\ Counted(p).state = p.state
           /\ Counted(p).attempts < MaxAttempts
           /\ Counted(p).delay <= MaxDelay
           /\ RollsOver(p) => Counted(p).delay = 0 /\ Counted(p).attempts = 0
           /\ ~RollsOver(p) =>
                \/ Counted(p).attempts = p.attempts + 1 /\ Counted(p).delay = p.delay
                \/ p.attempts + 1 = MaxAttempts /\ Counted(p).delay > 0
<1>1. MaxAttempts \in Nat /\ MaxAttempts > 0 /\ MaxDelay \in Nat
  BY PolicyAssumption
<1>2. p.attempts \in Nat /\ p.delay \in Nat /\ p.until \in Nat
  BY DEF Policy
<1>3. CASE p.attempts + 1 # MaxAttempts
  <2>1. Counted(p) = [p EXCEPT !.attempts = p.attempts + 1]
    BY <1>3 DEF Counted
  <2>2. ~RollsOver(p)
    BY <1>3 DEF RollsOver
  <2> QED
    BY <1>1, <1>2, <1>3, <2>1, <2>2 DEF Policy
<1>4. CASE p.attempts + 1 = MaxAttempts /\ p.delay + 1 > MaxDelay
  <2>1. Counted(p) = [Forgiven(p) EXCEPT !.attempts = 0]
    BY <1>4 DEF Counted, Delayed
  <2>2. /\ Forgiven(p) \in Policy /\ Forgiven(p).state = p.state
        /\ Forgiven(p).delay = 0
    BY <1>2 DEF Forgiven, Policy
  <2>3. /\ Counted(p) \in Policy /\ Counted(p).state = p.state
        /\ Counted(p).delay = 0 /\ Counted(p).attempts = 0
    BY <2>1, <2>2 DEF Policy
  <2>4. RollsOver(p)
    BY <1>4 DEF RollsOver
  <2> QED
    BY <1>1, <2>3, <2>4
<1>5. CASE p.attempts + 1 = MaxAttempts /\ ~(p.delay + 1 > MaxDelay)
  <2>1. Counted(p) = [[p EXCEPT !.delay = p.delay + 1] EXCEPT !.attempts = 0]
    BY <1>5 DEF Counted, Delayed
  <2> DEFINE d == [p EXCEPT !.delay = p.delay + 1]
  <2>2. d \in Policy /\ d.state = p.state /\ d.delay = p.delay + 1
    BY <1>2 DEF Policy
  <2> HIDE DEF d
  <2>3. Counted(p) = [d EXCEPT !.attempts = 0]
    BY <2>1 DEF d
  <2>4. /\ Counted(p) \in Policy /\ Counted(p).state = p.state
        /\ Counted(p).delay = p.delay + 1 /\ Counted(p).attempts = 0
    BY <2>2, <2>3 DEF Policy
  <2>5. ~RollsOver(p)
    BY <1>5 DEF RollsOver
  <2> QED
    BY <1>1, <1>2, <1>5, <2>4, <2>5
<1> QED
  BY <1>3, <1>4, <1>5

LEMMA InvInit == PinInit => PinInv
  BY PolicyAssumption
  DEF PinInit, Default, PinInv, PinTypeOK, Policy, GuessesBounded, Tracked

(* A right PIN, or the default policy put back, ends the count. *)
LEMMA RightKeepsInv == PinInv /\ (LoginRight \/ PinForgotten) => PinInv'
<1> SUFFICES ASSUME PinInv, LoginRight \/ PinForgotten
             PROVE  PinInv'
  OBVIOUS
<1>1. MaxAttempts \in Nat /\ MaxAttempts > 0 /\ MaxDelay \in Nat
  BY PolicyAssumption
<1>2. tsc' = tsc /\ tries' = 0
  BY DEF LoginRight, PinForgotten
<1>3. /\ pin' \in Policy
      /\ pin'.attempts < MaxAttempts /\ pin'.delay <= MaxDelay
      /\ pin'.state = "Ready" => pin'.attempts = 0 /\ pin'.delay = 0
  <2>1. CASE pin' = pin
    BY <2>1 DEF PinInv, PinTypeOK, Tracked
  <2>2. CASE pin' = Forgiven(pin)
    <3>1. pin \in Policy
      BY DEF PinInv, PinTypeOK
    <3>2. /\ Forgiven(pin) \in Policy
          /\ Forgiven(pin).attempts = 0 /\ Forgiven(pin).delay = 0
      BY <3>1 DEF Forgiven, Policy
    <3> QED
      BY <1>1, <2>2, <3>2
  <2>3. CASE pin' = Default
    <3>1. Default \in Policy /\ Default.attempts = 0 /\ Default.delay = 0
      BY DEF Default, Policy
    <3> QED
      BY <1>1, <2>3, <3>1
  <2> QED
    BY <2>1, <2>2, <2>3 DEF LoginRight, PinForgotten
<1> QED
  BY <1>1, <1>2, <1>3 DEF PinInv, PinTypeOK, GuessesBounded, Tracked, Policy

(* A wrong PIN: the attempts still have room for it, or a delay keeps the     *)
(* next one to a later tick.                                                  *)
LEMMA WrongKeepsInv == PinInv /\ LoginWrong => PinInv'
<1> SUFFICES ASSUME PinInv, LoginWrong
             PROVE  PinInv'
  OBVIOUS
<1> DEFINE p == [pin EXCEPT !.state = "Lockout"]
           c == Counted(p)
<1>1. MaxAttempts \in Nat /\ MaxAttempts > 0 /\ Minute \in Nat
  BY PolicyAssumption
<1>2. /\ pin \in Policy /\ pin.attempts \in Nat /\ pin.delay \in Nat /\ pin.until \in Nat
      /\ tsc \in Nat /\ tries \in Nat /\ tsc' = tsc
  BY DEF PinInv, PinTypeOK, Policy, LoginWrong
<1>3. /\ p \in Policy /\ p.state = "Lockout"
      /\ p.attempts = pin.attempts /\ p.delay = pin.delay
  BY <1>2 DEF Policy
<1>4. p.attempts < MaxAttempts /\ p.delay <= MaxDelay
  BY <1>3 DEF PinInv, PinTypeOK
<1>5. /\ c \in Policy /\ c.state = "Lockout"
      /\ c.attempts < MaxAttempts /\ c.delay <= MaxDelay
      /\ RollsOver(p) => c.delay = 0 /\ c.attempts = 0
      /\ ~RollsOver(p) => \/ c.attempts = p.attempts + 1 /\ c.delay = p.delay
                          \/ p.attempts + 1 = MaxAttempts /\ c.delay > 0
  BY <1>3, <1>4, CountedPolicy
<1>6. RollsOver(p) <=> RollsOver(pin)
  BY <1>3 DEF RollsOver
<1>7. pin' = [c EXCEPT !.until = tsc + c.delay * Minute]
  BY DEF LoginWrong, Lockout
<1>8. c.delay \in Nat /\ c.attempts \in Nat /\ c.delay * Minute \in Nat
  BY <1>1, <1>5 DEF Policy
<1>9. /\ pin' \in Policy /\ pin'.state = "Lockout"
      /\ pin'.attempts = c.attempts /\ pin'.delay = c.delay
      /\ pin'.until = tsc + c.delay * Minute
  BY <1>2, <1>5, <1>7, <1>8 DEF Policy
<1>10. c.delay > 0 => pin'.until > tsc
  BY <1>2, <1>8, <1>9, DelayIsLater
(* Whoever may log in after a delay has no wrong PIN at this tick yet *)
<1>11. pin.delay > 0 => tries = 0
  <2>1. pin.state = "Ready" => pin.delay = 0
    BY DEF PinInv, Tracked
  <2>2. pin.state = "Ready" \/ tsc >= pin.until
    BY DEF LoginWrong, CanLogin
  <2>3. pin.delay > 0 /\ tries > 0 => pin.until > tsc
    BY DEF PinInv, Tracked
  <2> QED
    BY <1>2, <2>1, <2>2, <2>3
<1>12. tries <= pin.attempts
  BY <1>2, <1>11 DEF PinInv, Tracked
<1>13. tries' = IF RollsOver(pin) THEN 0 ELSE tries + 1
  BY DEF LoginWrong
<1>14. tries' \in Nat /\ tries' <= MaxAttempts
  BY <1>1, <1>2, <1>3, <1>4, <1>12, <1>13
<1>15. pin'.delay = 0 => tries' <= pin'.attempts
  <2>1. CASE RollsOver(pin)
    BY <2>1, <1>8, <1>9, <1>13
  <2>2. CASE ~RollsOver(pin)
    BY <2>2, <1>2, <1>3, <1>5, <1>6, <1>8, <1>9, <1>12, <1>13
  <2> QED
    BY <2>1, <2>2
<1>16. PinTypeOK'
  BY <1>2, <1>5, <1>9, <1>14 DEF PinTypeOK
<1>17. Tracked'
  BY <1>2, <1>9, <1>10, <1>15 DEF Tracked
<1> QED
  BY <1>14, <1>16, <1>17 DEF PinInv, GuessesBounded

LEMMA InvStep == PinInv /\ [PinNext]_pinVars => PinInv'
<1> SUFFICES ASSUME PinInv, [PinNext]_pinVars
             PROVE  PinInv'
  OBVIOUS
<1>1. CASE LoginRefused \/ UNCHANGED pinVars
  BY <1>1 DEF LoginRefused, pinVars, PinInv, PinTypeOK, GuessesBounded, Tracked
<1>2. CASE LoginRight \/ PinForgotten
  BY <1>2, RightKeepsInv
<1>3. CASE LoginWrong
  BY <1>3, WrongKeepsInv
<1>4. CASE Clock
  <2>1. MaxAttempts \in Nat
    BY PolicyAssumption
  <2> QED
    BY <1>4, <2>1 DEF Clock, PinInv, PinTypeOK, GuessesBounded, Tracked, Policy
<1> QED
  BY <1>1, <1>2, <1>3, <1>4 DEF PinNext

(* The counters of the policy stay below the limits they are compared with,   *)
(* so the u16 the code keeps them in never wraps.                              *)
THEOREM PolicyTypes == PinSpec => []PinTypeOK
<1>1. PinInv => PinTypeOK
  BY DEF PinInv
<1> QED
  BY InvInit, InvStep, <1>1, PTL DEF PinSpec

(* enforce_pin_policy compares at most MaxAttempts wrong PINs before the      *)
(* clock has to move on, for every value of the three constants.              *)
THEOREM GuessingBounded == PinSpec => []GuessesBounded
<1>1. PinInv => GuessesBounded
  BY DEF PinInv
<1> QED
  BY InvInit, InvStep, <1>1, PTL DEF PinSpec

-----------------------------------------------------------------------------

(* A set of numbers that is not empty has a least element. *)
LEMMA MinIn ==
    ASSUME NEW S, S \subseteq Nat, S # {}
    PROVE  Min(S) \in S
<1> DEFINE R == OpToRel(<, Nat)
<1>1. PICK x \in S : \A y \in S : ~(<<y, x>> \in R)
  BY WFMin, NatLessThanWellFounded
<1>2. \A y \in S : ~(y < x)
  BY <1>1, S \subseteq Nat DEF OpToRel
<1>3. \A y \in S : x <= y
  BY <1>2, S \subseteq Nat
<1> QED
  BY <1>3 DEF Min

-----------------------------------------------------------------------------
(* The nonce *)

(* What NonceOnce needs to be inductive: the nonce of the partition has not   *)
(* been accepted yet.                                                         *)
NonceInv ==
    /\ nonce \in Nonces /\ uses \in [Nonces -> Nat]
    /\ uses[nonce] = 0
    /\ NonceOnce

(* There are more nonces than commands, so one is carried by none of them:    *)
(* the new nonce is another than the old, and no request knows it.            *)
LEMMA FreshIsFresh ==
    ASSUME nonce \in Nonces
    PROVE  /\ FreshNonce \in Nonces \ {nonce}
           /\ \A t \in Tags : ~Carries(t, FreshNonce)
<1> DEFINE f == [t \in Tags |-> cmd[t].nonce]
           C == {cmd[t].nonce : t \in Tags}
           Fresh == {n \in Nonces \ {nonce} : \A t \in Tags : ~Carries(t, n)}
<1>1. IsFiniteSet(C) /\ Cardinality(C) <= Cardinality(Tags)
  <2>1. f \in Surjection(Tags, C)
    BY DEF Surjection
  <2>2. IsFiniteSet(Tags)
    BY CommandsAssumption
  <2> QED
    BY <2>1, <2>2, FS_Surjection
<1>2. /\ IsFiniteSet(C \cup {nonce})
      /\ Cardinality(C \cup {nonce}) <= Cardinality(Tags) + 1
  <2>1. /\ IsFiniteSet(C \cup {nonce})
        /\ Cardinality(C \cup {nonce}) = IF nonce \in C THEN Cardinality(C)
                                                        ELSE Cardinality(C) + 1
    BY <1>1, FS_AddElement
  <2>2. Cardinality(C) \in Nat /\ Cardinality(Tags) \in Nat
    BY <1>1, CommandsAssumption, FS_CardinalityType
  <2> QED
    BY <1>1, <2>1, <2>2
<1>3. ~(Nonces \subseteq C \cup {nonce})
  <2>1. /\ Cardinality(Tags) \in Nat /\ Cardinality(Nonces) \in Nat
        /\ Cardinality(C \cup {nonce}) \in Nat
    BY <1>2, CommandsAssumption, NamesAssumption, FS_CardinalityType
  <2>2. Nonces \subseteq C \cup {nonce} =>
          Cardinality(Nonces) <= Cardinality(C \cup {nonce})
    BY <1>2, FS_Subset
  <2> QED
    BY <1>2, <2>1, <2>2, NamesAssumption
<1>4. PICK n \in Nonces : n \notin C /\ n # nonce
  BY <1>3
<1>5. n \in Fresh
  BY <1>4 DEF Carries
<1>6. Fresh \subseteq Nat
  BY NamesAssumption
<1>7. Min(Fresh) \in Fresh
  BY <1>5, <1>6, MinIn
<1> QED
  BY <1>7 DEF FreshNonce

(* reset_nonce, after the nonce of the partition was accepted or after none *)
LEMMA ResetKeepsNonce ==
    ASSUME NonceInv, NEW a \in {nonce, NoNonce}, ResetNonce(a)
    PROVE  NonceInv'
<1>1. /\ FreshNonce \in Nonces \ {nonce}
      /\ \A t \in Tags : ~Carries(t, FreshNonce)
  BY FreshIsFresh DEF NonceInv
<1>2. nonce' = FreshNonce
  BY DEF ResetNonce
<1>3. /\ uses' \in [Nonces -> Nat]
      /\ \A n \in Nonces : uses'[n] <= 1
  <2>1. \A n \in Nonces : /\ uses[n] \in Nat /\ uses[n] <= 1
                          /\ n = a => uses[n] = 0
    BY NamesAssumption DEF NonceInv, NonceOnce, NoNonce
  <2> QED
    BY <2>1 DEF ResetNonce
<1>4. FreshNonce # a
  BY <1>1, NamesAssumption DEF NoNonce
<1>5. uses'[FreshNonce] = 0
  BY <1>1, <1>4 DEF ResetNonce
<1> QED
  BY <1>1, <1>2, <1>3, <1>5 DEF NonceInv, NonceOnce

(* A step leaves the nonce alone, accepts it, or puts another in its place. *)
LEMMA NonceSteps ==
    ASSUME [Next]_vars
    PROVE  UNCHANGED nonceVars \/ ResetNonce(nonce) \/ ResetNonce(NoNonce)
<1>1. CASE UNCHANGED vars
  BY <1>1 DEF vars
<1>2. ASSUME NEW t \in Tags, EndEstablish(t) \/ EndOpen(t) \/ EndReopen(t) \/ EndOpenFails(t)
      PROVE  ResetNonce(nonce)
  BY <1>2 DEF EndEstablish, EndOpen, EndReopen, EndOpenFails, Ending, AcceptNonce
<1>3. CASE Disable \/ Reset \/ Migrate
  BY <1>3 DEF Disable, Reset, Migrate, Wiped
<1>4. CASE Enable \/ Time
  BY <1>4 DEF Enable, Time
<1>5. ASSUME NEW t \in Tags,
             \/ StartEstablish(t) \/ EcdhFails(t)
             \/ \E kind \in {"Open", "Reopen"}, s \in Ids \cup {NoId} : StartOpen(t, kind, s)
      PROVE  UNCHANGED nonceVars
  BY <1>5 DEF StartEstablish, EcdhFails, StartOpen, Unmoved
<1>6. ASSUME NEW t \in Tags,
             \/ \E kind \in {"Close", "Flush"}, s \in Ids :
                  CloseAtOnce(t, kind, s) \/ StartClose(t, kind, s)
             \/ Resume(t) \/ CloseFails(t) \/ EndClose(t)
      PROVE  UNCHANGED nonceVars
  BY <1>6 DEF CloseAtOnce, StartClose, Resume, CloseFails, EndClose, Unmoved
<1>7. ASSUME NEW t \in Tags,
             \/ \E s \in Ids : StartGen(t, s) \/ \E e \in Entries : StartSign(t, s, e)
             \/ GenDone(t) \/ StartTest(t) \/ TestFails(t) \/ KeyTimesOut(t) \/ KeyDone(t)
             \/ OutFails(t) \/ Done(t)
      PROVE  UNCHANGED nonceVars
  BY <1>7 DEF StartGen, StartSign, GenDone, StartTest, TestFails, KeyTimesOut, KeyDone,
              OutFails, Done, Drop, Unmoved
<1> QED
  BY <1>1, <1>2, <1>3, <1>4, <1>5, <1>6, <1>7 DEF Next

(* NonceInv is never left. *)
LEMMA NonceHolds == Spec => []NonceInv
<1>1. Init => NonceInv
  BY NamesAssumption DEF Init, NonceInv, NonceOnce
<1>2. NonceInv /\ [Next]_vars => NonceInv'
  <2> SUFFICES ASSUME NonceInv, [Next]_vars
               PROVE  NonceInv'
    OBVIOUS
  <2>1. CASE UNCHANGED nonceVars
    BY <2>1 DEF nonceVars, NonceInv, NonceOnce
  <2>2. CASE ResetNonce(nonce)
    BY <2>2, ResetKeepsNonce
  <2>3. CASE ResetNonce(NoNonce)
    BY <2>3, ResetKeepsNonce
  <2> QED
    BY <2>1, <2>2, <2>3, NonceSteps
<1> QED
  BY <1>1, <1>2, PTL DEF Spec

(* Of any number of commands that carry the same nonce, end_open_user_session *)
(* and end_establish_credential accept one.                                   *)
THEOREM NonceAcceptedOnce == Spec => []NonceOnce
<1>1. NonceInv => NonceOnce
  BY DEF NonceInv
<1> QED
  BY <1>1, NonceHolds, PTL

-----------------------------------------------------------------------------
(* The PIN policy *)

(* A step of the partition is a step of the PIN policy or leaves it alone. *)
LEMMA PinSteps ==
    ASSUME [Next]_vars
    PROVE  [PinNext]_pinVars
<1>1. CASE UNCHANGED vars
  BY <1>1 DEF vars
<1>2. ASSUME NEW t \in Tags, EndOpen(t) \/ EndReopen(t) \/ EndOpenFails(t)
      PROVE  [PinNext]_pinVars
  BY <1>2 DEF EndOpen, EndReopen, EndOpenFails, PinNext
<1>3. CASE Disable \/ Reset \/ Migrate
  BY <1>3 DEF Disable, Reset, Migrate, Wiped, PinNext
<1>4. CASE Enable \/ Time
  BY <1>4 DEF Enable, Time, PinNext
<1>5. ASSUME NEW t \in Tags,
             \/ StartEstablish(t) \/ EndEstablish(t) \/ EcdhFails(t)
             \/ \E kind \in {"Open", "Reopen"}, s \in Ids \cup {NoId} : StartOpen(t, kind, s)
      PROVE  UNCHANGED pinVars
  BY <1>5 DEF StartEstablish, EndEstablish, EcdhFails, StartOpen, Unmoved
<1>6. ASSUME NEW t \in Tags,
             \/ \E kind \in {"Close", "Flush"}, s \in Ids :
                  CloseAtOnce(t, kind, s) \/ StartClose(t, kind, s)
             \/ Resume(t) \/ CloseFails(t) \/ EndClose(t)
      PROVE  UNCHANGED pinVars
  BY <1>6 DEF CloseAtOnce, StartClose, Resume, CloseFails, EndClose, Unmoved
<1>7. ASSUME NEW t \in Tags,
             \/ \E s \in Ids : StartGen(t, s) \/ \E e \in Entries : StartSign(t, s, e)
             \/ GenDone(t) \/ StartTest(t) \/ TestFails(t) \/ KeyTimesOut(t) \/ KeyDone(t)
             \/ OutFails(t) \/ Done(t)
      PROVE  UNCHANGED pinVars
  BY <1>7 DEF StartGen, StartSign, GenDone, StartTest, TestFails, KeyTimesOut, KeyDone,
              OutFails, Done, Drop, Unmoved
<1> QED
  BY <1>1, <1>2, <1>3, <1>4, <1>5, <1>6, <1>7 DEF Next

(* However many opens are in flight, the partition compares no more than      *)
(* MaxAttempts wrong PINs before the clock has to move on: the partition      *)
(* implements the policy on its own, which GuessingBounded is about.          *)
THEOREM PartitionGuessesBounded == Spec => []GuessesBounded
<1>1. Init => PinInit
  BY DEF Init
<1>2. [Next]_vars => [PinNext]_pinVars
  BY PinSteps
<1>3. Spec => PinSpec
  BY <1>1, <1>2, PTL DEF Spec, PinSpec
<1> QED
  BY <1>3, GuessingBounded, PTL
-----------------------------------------------------------------------------
(* Sessions, the vault and the keys of sessions *)

ShapeOK ==
    /\ enabled \in BOOLEAN /\ cred \in BOOLEAN
    /\ alloc \subseteq Ids /\ reneg \subseteq alloc
    /\ table \in [Ids -> Entries \cup {0}]
    /\ vault \in [Entries -> Key]
    /\ cmd \in [Tags -> Cmd]
    /\ leaked \subseteq Entries

(* What the state of a command says about the rest of it *)
FormOK(c) ==
    /\ c.st = "None" => c = Idle
    /\ c.ok => c.st = "Out"
    /\ c.st = "Ecdh" => c.kind \in {"Establish", "Open", "Reopen"}
    /\ c.st \in {"Wait", "Fp"} => c.kind \in {"Close", "Flush"}
    /\ c.st \in {"Gen", "Pct", "Test"} => c.kind = "Gen"
    /\ c.st = "Sign" => c.kind = "Sign"
    /\ c.kind \notin {"Gen", "Sign"} => c.entry = 0
    /\ c.kind \in {"Reopen", "Close", "Flush", "Gen", "Sign"} => c.id \in Ids
    /\ c.kind = "Open" /\ c.ok => c.id \in Ids
    /\ c.st = "Gen" => c.entry = 0
    /\ c.st \in {"Pct", "Test", "Sign"} => c.entry \in Entries
FormsOK == \A t \in Tags : FormOK(cmd[t])

(* A partition that is disabled has nothing, and nothing can come back *)
OffEmpty ==
    ~enabled => /\ \A e \in Entries : vault[e] = NoKey
                /\ alloc = reneg /\ leaked = {} /\ ~cred
                /\ \A t \in Tags : cmd[t].kind # "Gen" /\ ~Carries(t, nonce)

(* The parts a command can play in what follows *)
Granted(c) == c.kind \in {"Open", "Reopen"} /\ c.ok
Closes(c) == c.st \in {"Wait", "Fp"}
Makes(c) == c.kind = "Gen"
Works(c) == c.st \in {"Sign", "Test"} \/ (c.st = "Out" /\ ~c.ok)
Keeps(c) == c.entry # 0 /\ (Makes(c) \/ Works(c))

(* The key a command made, or an engine works with, is where it was *)
HeldIn(v, c) == Keeps(c) => v[c.entry].kind = "own" /\ v[c.entry].id = c.id
KeysHeld == enabled => \A t \in Tags : HeldIn(vault, cmd[t])
MakersApart ==
    \A t, x \in Tags : t # x /\ Makes(cmd[t]) /\ Makes(cmd[x]) /\ cmd[t].entry = cmd[x].entry
                         => cmd[t].entry = 0

(* A key is made for a session that is there, and is that session's *)
MakersLive ==
    \A t \in Tags : Makes(cmd[t]) => /\ Valid(cmd[t].id)
                                     /\ cmd[t].st = "Gen" =>
                                          cmd[t].inst = vault[table[cmd[t].id]].inst

(* An open that may still be rolled back has the session for itself *)
GrantedAlone ==
    enabled => \A t \in Tags : Granted(cmd[t]) =>
        /\ Valid(cmd[t].id) /\ Owned(cmd[t].id) = {}
        /\ \A x \in Tags \ {t} : cmd[x].id = cmd[t].id =>
              ~Granted(cmd[x]) /\ ~Closes(cmd[x]) /\ ~Makes(cmd[x])

(* A session that is being closed is there, invalidated, and nobody makes  *)
(* keys for it or closes it too                                            *)
ClosingAlone ==
    enabled => \A t \in Tags : Closes(cmd[t]) =>
        /\ Valid(cmd[t].id) /\ ~vault[table[cmd[t].id]].on
        /\ \A x \in Tags \ {t} : cmd[x].id = cmd[t].id => ~Closes(cmd[x]) /\ ~Makes(cmd[x])

SessionsInv ==
    /\ ShapeOK /\ FormsOK /\ OffEmpty /\ KeysHeld /\ MakersApart /\ MakersLive
    /\ GrantedAlone /\ ClosingAlone /\ TableVaultAgree /\ KeysOfOwnSession

(* An id that the host does not know is that of an answer still to come *)
AccountedInv == alloc \subseteq told \cup {cmd[t].id : t \in {x \in Tags : cmd[x].kind = "Open"
                                                                      /\ cmd[x].ok}}

LEMMA UsesWorks == \A t \in Tags : Uses(t) <=> Works(cmd[t])
  BY DEF Uses, Works

(* Keys that are disabled or go, and no session key among them, leave the  *)
(* table and the vault as they agreed                                      *)
LEMMA AgreeKept ==
    ASSUME ShapeOK, TableVaultAgree, UNCHANGED tableVars, leaked' \in {leaked, StillLeaked},
           \A e \in Entries : vault'[e].kind = "session" <=> vault[e].kind = "session"
    PROVE  TableVaultAgree' /\ leaked' = leaked
<1>1. SessionEntries' = SessionEntries
  BY DEF SessionEntries
<1>2. leaked \subseteq SessionEntries
  BY DEF TableVaultAgree
<1>3. leaked' = leaked
  BY <1>2 DEF StillLeaked, SessionEntries
<1> QED BY <1>1, <1>3 DEF TableVaultAgree, tableVars

Moved(t, c) == /\ cmd' \in [Tags -> Cmd] /\ cmd'[t] = c
               /\ \A x \in Tags \ {t} : cmd'[x] = cmd[x]

(* The valid ids, and the entries they name, are the same *)
TableKept ==
    /\ alloc' \subseteq Ids /\ reneg' \subseteq alloc'
    /\ alloc' \ reneg' = alloc \ reneg
    /\ table' \in [Ids -> Entries \cup {0}]
    /\ \A s \in alloc \ reneg : table'[s] = table[s]

LEMMA TableStays ==
    ASSUME ShapeOK, UNCHANGED tableVars
    PROVE  TableKept
  BY DEF ShapeOK, tableVars, TableKept

(* A command moves on; the sessions stay, and no key of a session is new *)
LEMMA StepKeeps ==
    ASSUME SessionsInv, NEW t \in Tags, NEW c, FormOK(c), Moved(t, c),
           UNCHANGED enabled, TableKept, TableVaultAgree', cred' \in BOOLEAN,
           leaked' \subseteq Entries, vault' \in [Entries -> Key],
           \A e \in Entries : vault'[e].kind = "own" =>
               /\ vault[e].kind = "own" /\ vault'[e].id = vault[e].id
               /\ vault'[e].inst = vault[e].inst,
           \A x \in Tags \ {t} : HeldIn(vault, cmd[x]) => HeldIn(vault', cmd[x]),
           \A s \in alloc \ reneg : /\ vault'[table[s]].inst = vault[table[s]].inst
                                    /\ vault'[table[s]].on => vault[table[s]].on,
           \/ enabled
           \/ /\ cred' = FALSE /\ nonce' = nonce /\ c.kind # "Gen" /\ c.st # "Ecdh"
              /\ leaked' = {} /\ \A e \in Entries : vault'[e] = vault[e],
           enabled => HeldIn(vault', c),
           Makes(c) => \/ /\ Makes(cmd[t]) /\ c.id = cmd[t].id /\ c.st # "Gen"
                          /\ c.entry \in {cmd[t].entry, 0}
                       \/ /\ enabled /\ Valid(c.id) /\ c.entry = 0
                          /\ c.inst = vault[table[c.id]].inst
                          /\ \A x \in Tags : cmd[x].id = c.id => ~Granted(cmd[x]) /\ ~Closes(cmd[x]),
           Granted(c) => Granted(cmd[t]) /\ c.id = cmd[t].id,
           Closes(c) => \/ Closes(cmd[t]) /\ c.id = cmd[t].id
                        \/ /\ Valid(c.id) /\ ~vault'[table[c.id]].on
                           /\ \A x \in Tags \ {t} : cmd[x].id = c.id =>
                                ~Granted(cmd[x]) /\ ~Closes(cmd[x]) /\ ~Makes(cmd[x])
    PROVE  SessionsInv'
<1>0. /\ ShapeOK /\ FormsOK /\ OffEmpty /\ KeysHeld /\ MakersApart /\ MakersLive
      /\ GrantedAlone /\ ClosingAlone /\ TableVaultAgree /\ KeysOfOwnSession
  BY DEF SessionsInv
<1>1. cmd'[t] = c /\ (\A x \in Tags \ {t} : cmd'[x] = cmd[x]) /\ cmd' \in [Tags -> Cmd]
  BY DEF Moved
<1>5. ShapeOK'
  BY <1>0, <1>1 DEF ShapeOK, TableKept
<1>6. FormsOK'
  BY <1>0, <1>1 DEF FormsOK
<1>7. OffEmpty'
  <2> SUFFICES ASSUME ~enabled
               PROVE  /\ \A e \in Entries : vault'[e] = NoKey
                      /\ alloc' = reneg' /\ leaked' = {} /\ ~cred'
                      /\ \A x \in Tags : cmd'[x].kind # "Gen" /\ ~Carries(x, nonce)'
    BY DEF OffEmpty
  <2>1. /\ \A e \in Entries : vault'[e] = NoKey
        /\ leaked' = {} /\ ~cred'
    BY <1>0 DEF OffEmpty
  <2>2. alloc' = reneg'
    BY <1>0 DEF OffEmpty, TableKept
  <2>3. \A x \in Tags : cmd'[x].kind # "Gen" /\ ~Carries(x, nonce)'
    BY <1>0, <1>1 DEF OffEmpty, Carries
  <2> QED BY <2>1, <2>2, <2>3
<1>8. \A s \in Ids : s \in alloc' \ reneg' <=> Valid(s)
  BY DEF Valid, TableKept
<1>9. \A s \in Ids : Valid(s) => /\ table[s] \in Entries /\ table'[s] = table[s]
                                 /\ vault'[table[s]].inst = vault[table[s]].inst
                                 /\ vault'[table[s]].on => vault[table[s]].on
  BY <1>0 DEF TableVaultAgree, SessionEntries, Valid, TableKept
<1>10. \A x \in Tags : Makes(cmd[x]) => Valid(cmd[x].id) /\ cmd[x].id \in Ids
  BY <1>0 DEF MakersLive, FormsOK, FormOK, Makes
<1>11. KeysHeld'
  <2> SUFFICES ASSUME enabled, NEW x \in Tags PROVE HeldIn(vault', cmd'[x])
    BY DEF KeysHeld
  <2>1. CASE x = t
    BY <1>1, <2>1
  <2>2. CASE x # t
    BY <1>0, <1>1, <2>2 DEF KeysHeld
  <2> QED BY <2>1, <2>2
<1>12. MakersApart'
  BY <1>0, <1>1 DEF MakersApart
<1>13. MakersLive'
  <2> SUFFICES ASSUME NEW x \in Tags, Makes(cmd'[x])
               PROVE  /\ cmd'[x].id \in alloc' \ reneg'
                      /\ cmd'[x].st = "Gen" => cmd'[x].inst = vault'[table'[cmd'[x].id]].inst
    BY DEF MakersLive, Valid
  <2>1. cmd'[x].id \in Ids
    BY <1>6 DEF FormsOK, FormOK, Makes
  <2>2. /\ Valid(cmd'[x].id)
        /\ cmd'[x].st = "Gen" => cmd'[x].inst = vault[table[cmd'[x].id]].inst
    BY <1>0, <1>1 DEF MakersLive
  <2> QED BY <1>8, <1>9, <2>1, <2>2
<1>15. GrantedAlone'
  <2> SUFFICES ASSUME enabled, NEW x \in Tags, Granted(cmd'[x])
               PROVE  /\ cmd'[x].id \in alloc' \ reneg' /\ Owned(cmd[x].id)' = {}
                      /\ \A y \in Tags \ {x} : cmd'[y].id = cmd'[x].id =>
                           ~Granted(cmd'[y]) /\ ~Closes(cmd'[y]) /\ ~Makes(cmd'[y])
    BY DEF GrantedAlone, Valid
  <2>1. Granted(cmd[x]) /\ cmd'[x].id = cmd[x].id
    BY <1>1
  <2>2. /\ Valid(cmd[x].id) /\ Owned(cmd[x].id) = {} /\ cmd[x].id \in Ids
        /\ \A y \in Tags \ {x} : cmd[y].id = cmd[x].id =>
             ~Granted(cmd[y]) /\ ~Closes(cmd[y]) /\ ~Makes(cmd[y])
    BY <1>0, <2>1 DEF GrantedAlone, FormsOK, FormOK, Granted
  <2>3. cmd'[x].id \in alloc' \ reneg' /\ Owned(cmd[x].id)' = {}
    BY <1>8, <2>1, <2>2 DEF Owned
  <2>4. ASSUME NEW y \in Tags \ {x}, cmd'[y].id = cmd'[x].id
        PROVE  ~Granted(cmd'[y]) /\ ~Closes(cmd'[y]) /\ ~Makes(cmd'[y])
    BY <1>1, <2>1, <2>2, <2>4
  <2> QED BY <2>3, <2>4
<1>16. ClosingAlone'
  <2> SUFFICES ASSUME enabled, NEW x \in Tags, Closes(cmd'[x])
               PROVE  /\ cmd'[x].id \in alloc' \ reneg' /\ ~vault'[table'[cmd'[x].id]].on
                      /\ \A y \in Tags \ {x} : cmd'[y].id = cmd'[x].id =>
                           ~Closes(cmd'[y]) /\ ~Makes(cmd'[y])
    BY DEF ClosingAlone, Valid
  <2>1. CASE Closes(cmd[x]) /\ cmd'[x].id = cmd[x].id
    <3>1. /\ Valid(cmd[x].id) /\ ~vault[table[cmd[x].id]].on
          /\ \A y \in Tags \ {x} : cmd[y].id = cmd[x].id => ~Closes(cmd[y]) /\ ~Makes(cmd[y])
      BY <1>0, <2>1 DEF ClosingAlone
    <3>2. cmd[x].id \in Ids
      BY <1>0, <3>1 DEF Valid, ShapeOK
    <3>3. cmd'[x].id \in alloc' \ reneg' /\ ~vault'[table'[cmd'[x].id]].on
      BY <1>8, <1>9, <2>1, <3>1, <3>2
    <3>4. ASSUME NEW y \in Tags \ {x}, cmd'[y].id = cmd'[x].id
          PROVE  ~Closes(cmd'[y]) /\ ~Makes(cmd'[y])
      BY <1>1, <2>1, <3>1, <3>4
    <3> QED BY <3>3, <3>4
  <2>2. CASE x = t /\ ~(Closes(cmd[x]) /\ cmd'[x].id = cmd[x].id)
    <3>1. /\ Valid(c.id) /\ ~vault'[table[c.id]].on
          /\ \A y \in Tags \ {t} : cmd[y].id = c.id => ~Closes(cmd[y]) /\ ~Makes(cmd[y])
      BY <1>1, <2>2
    <3>2. c.id \in Ids
      BY <1>0, <3>1 DEF Valid, ShapeOK
    <3> QED BY <1>1, <1>8, <1>9, <2>2, <3>1, <3>2
  <2>3. x = t \/ cmd'[x] = cmd[x]
    BY <1>1
  <2> QED BY <2>1, <2>2, <2>3
<1>17. KeysOfOwnSession'
  <2> SUFFICES ASSUME NEW e \in Entries, vault'[e].kind = "own"
               PROVE  /\ vault'[e].id \in alloc' \ reneg'
                      /\ vault'[table'[vault'[e].id]].inst = vault'[e].inst
    BY DEF KeysOfOwnSession, Valid
  <2>1. Valid(vault[e].id) /\ vault[table[vault[e].id]].inst = vault[e].inst
    BY <1>0 DEF KeysOfOwnSession
  <2>2. vault[e].id \in Ids
    BY <1>0, <2>1 DEF Valid, ShapeOK
  <2> QED BY <1>8, <1>9, <2>1, <2>2
<1> QED BY <1>5, <1>6, <1>7, <1>11, <1>12, <1>13, <1>15, <1>16, <1>17 DEF SessionsInv

(* A command moves on and takes up no new part, but that of a maker; keys  *)
(* of sessions may be disabled, and go when no other command holds them    *)
LEMMA MoveKeeps ==
    ASSUME SessionsInv, NEW t \in Tags, NEW c, FormOK(c), Moved(t, c),
           UNCHANGED <<enabled, tableVars>>, cred' \in BOOLEAN, leaked' \in {leaked, StillLeaked},
           vault' \in [Entries -> Key],
           \A e \in Entries :
               \/ vault'[e] = vault[e]
               \/ /\ vault[e].kind = "own"
                  /\ \/ vault'[e] = [vault[e] EXCEPT !.on = FALSE]
                     \/ /\ vault'[e] = NoKey
                        /\ \A x \in Tags \ {t} : Keeps(cmd[x]) => cmd[x].entry # e,
           enabled \/ (cred' = FALSE /\ nonce' = nonce /\ c.kind # "Gen" /\ c.st # "Ecdh"),
           enabled => HeldIn(vault', c),
           Makes(c) => \/ /\ Makes(cmd[t]) /\ c.id = cmd[t].id /\ c.st # "Gen"
                          /\ c.entry \in {cmd[t].entry, 0}
                       \/ /\ enabled /\ Valid(c.id) /\ c.entry = 0
                          /\ c.inst = vault[table[c.id]].inst
                          /\ \A x \in Tags : cmd[x].id = c.id => ~Granted(cmd[x]) /\ ~Closes(cmd[x]),
           Granted(c) => Granted(cmd[t]) /\ c.id = cmd[t].id,
           Closes(c) => Closes(cmd[t]) /\ c.id = cmd[t].id
    PROVE  SessionsInv'
<1>0. ShapeOK /\ OffEmpty /\ TableVaultAgree
  BY DEF SessionsInv
<1>1. \A e \in Entries :
        /\ vault[e].kind # "own" => vault'[e] = vault[e]
        /\ vault'[e].kind = "session" <=> vault[e].kind = "session"
        /\ vault'[e].kind = "own" => /\ vault[e].kind = "own" /\ vault'[e].id = vault[e].id
                                     /\ vault'[e].inst = vault[e].inst
  BY <1>0 DEF ShapeOK, Key, NoKey
<1>2. TableVaultAgree' /\ leaked' = leaked
  BY <1>0, <1>1, AgreeKept
<1>3. TableKept
  BY <1>0, TableStays
<1>4. \A s \in alloc \ reneg : vault'[table[s]] = vault[table[s]]
  BY <1>0, <1>1 DEF TableVaultAgree, SessionEntries
<1>5. leaked' \subseteq Entries /\ (~enabled => leaked' = {} /\ \A e \in Entries : vault'[e] = vault[e])
  BY <1>0, <1>1, <1>2 DEF ShapeOK, OffEmpty, NoKey
<1>6. ASSUME NEW x \in Tags \ {t}, HeldIn(vault, cmd[x]), Keeps(cmd[x])
      PROVE  vault'[cmd[x].entry].kind = "own" /\ vault'[cmd[x].entry].id = cmd[x].id
  <2>1. PICK e \in Entries : e = cmd[x].entry
    BY <1>0, <1>6 DEF ShapeOK, Cmd, Keeps
  <2>2. vault[e] \in Key /\ vault[e].kind = "own" /\ vault[e].id = cmd[x].id
    BY <1>0, <1>6, <2>1 DEF ShapeOK, HeldIn
  <2>3. vault'[e] = vault[e] \/ vault'[e] = [vault[e] EXCEPT !.on = FALSE]
    BY <1>6, <2>1
  <2> QED BY <2>1, <2>2, <2>3 DEF Key
<1>7. \A x \in Tags \ {t} : HeldIn(vault, cmd[x]) => HeldIn(vault', cmd[x])
  BY <1>6 DEF HeldIn
<1> QED BY <1>1, <1>2, <1>3, <1>4, <1>5, <1>7, StepKeeps

(* The command of a response *)
OutOf(c, ok) == [st |-> "Out", kind |-> c.kind, id |-> c.id, nonce |-> 0,
                 entry |-> IF ok THEN c.entry ELSE 0, inst |-> 0, ok |-> ok]

LEMMA OutIs ==
    ASSUME cmd \in [Tags -> Cmd], NEW t \in Tags, NEW ok \in BOOLEAN, ToOut(t, ok)
    PROVE  Moved(t, OutOf(cmd[t], ok))
<1>1. cmd[t] \in Cmd
  OBVIOUS
<1>3. cmd' \in [Tags -> Cmd] /\ \A x \in Tags \ {t} : cmd'[x] = cmd[x]
  BY <1>1, NamesAssumption DEF ToOut, Cmd
<1>4. cmd'[t] = OutOf(cmd[t], ok)
  BY <1>1 DEF ToOut, OutOf, Cmd
<1> QED BY <1>3, <1>4 DEF Moved

(* A command that has changed nothing, or has undone what it changed, fails *)
LEMMA FailKeeps ==
    ASSUME SessionsInv, NEW t \in Tags, ToOut(t, FALSE), cmd[t].st # "None",
           UNCHANGED <<enabled, tableVars, vault, leaked>>, cred' \in BOOLEAN,
           enabled \/ (cred' = FALSE /\ nonce' = nonce)
    PROVE  SessionsInv'
<1> DEFINE c == OutOf(cmd[t], FALSE)
<1>1. ShapeOK /\ FormOK(cmd[t]) /\ OffEmpty
  BY DEF SessionsInv, FormsOK
<1>2. Moved(t, c)
  BY <1>1, OutIs DEF ShapeOK
<1>3. FormOK(c)
  BY <1>1 DEF FormOK, OutOf
<1>4. /\ vault' \in [Entries -> Key] /\ \A e \in Entries : vault'[e] = vault[e]
      /\ leaked' = leaked
  BY <1>1 DEF ShapeOK
<1>5. ~Keeps(c) /\ ~Granted(c) /\ ~Closes(c) /\ c.st \notin {"Gen", "Ecdh"} /\ c.entry = 0
  BY DEF Keeps, Granted, Closes, OutOf
<1>6. c.kind = cmd[t].kind /\ c.id = cmd[t].id /\ HeldIn(vault', c)
      /\ (~enabled => cmd[t].kind # "Gen")
  BY <1>1, <1>5 DEF OutOf, HeldIn, OffEmpty
<1> HIDE DEF c
<1> QED BY <1>2, <1>3, <1>4, <1>5, <1>6, MoveKeeps DEF Makes

(* A command that starts *)
Fresh(st, kind, s, n, e, i, ok) == [st |-> st, kind |-> kind, id |-> s, nonce |-> n, entry |-> e,
                                    inst |-> i, ok |-> ok]

LEMMA EcdhJoins ==
    ASSUME SessionsInv, NEW t \in Tags, NEW kind \in {"Establish", "Open", "Reopen"},
           NEW s \in Ids \cup {NoId}, kind = "Reopen" => s \in Ids,
           Moved(t, Fresh("Ecdh", kind, s, nonce, 0, 0, FALSE)), enabled,
           UNCHANGED <<enabled, tableVars, vault, cred, leaked>>
    PROVE  SessionsInv'
<1> DEFINE c == Fresh("Ecdh", kind, s, nonce, 0, 0, FALSE)
<1>1. FormOK(c)
  BY DEF FormOK, Fresh
<1>2. ~Keeps(c) /\ ~Makes(c) /\ ~Granted(c) /\ ~Closes(c)
  BY DEF Keeps, Makes, Granted, Closes, Fresh
<1>3. /\ vault' \in [Entries -> Key] /\ \A e \in Entries : vault'[e] = vault[e]
      /\ cred' \in BOOLEAN /\ leaked' = leaked
  BY DEF SessionsInv, ShapeOK
<1>4. HeldIn(vault', c)
  BY <1>2 DEF HeldIn
<1> HIDE DEF c
<1>5. Moved(t, c)
  BY DEF c
<1> QED BY <1>1, <1>2, <1>3, <1>4, <1>5, MoveKeeps

LEMMA EstablishStarts ==
    ASSUME SessionsInv, nonce \in Nonces, NEW t \in Tags, StartEstablish(t)
    PROVE  SessionsInv'
<1>1. UNCHANGED <<enabled, tableVars, vault, cred, leaked>> /\ enabled
  BY DEF StartEstablish, Unmoved, Begin, partVars, history
<1>2. cmd' = [cmd EXCEPT ![t] = [Idle EXCEPT !.st = "Ecdh", !.kind = "Establish", !.nonce = nonce]]
  BY DEF StartEstablish, Begin
<1>3. cmd \in [Tags -> Cmd]
  BY DEF SessionsInv, ShapeOK
<1>4. Moved(t, Fresh("Ecdh", "Establish", NoId, nonce, 0, 0, FALSE))
  <2>1. cmd'[t] = Fresh("Ecdh", "Establish", NoId, nonce, 0, 0, FALSE)
    BY <1>2, <1>3 DEF Idle, Fresh
  <2>2. Fresh("Ecdh", "Establish", NoId, nonce, 0, 0, FALSE) \in Cmd
    BY DEF Fresh, Cmd, Kinds
  <2> QED BY <1>2, <1>3, <2>1, <2>2 DEF Moved
<1> QED BY <1>1, <1>4, EcdhJoins

LEMMA OpenStarts ==
    ASSUME SessionsInv, nonce \in Nonces, NEW t \in Tags, NEW kind \in {"Open", "Reopen"},
           NEW s \in Ids \cup {NoId}, StartOpen(t, kind, s)
    PROVE  SessionsInv'
<1>1. UNCHANGED <<enabled, tableVars, vault, cred, leaked>> /\ enabled /\ (kind = "Reopen" => s \in Ids)
  BY DEF StartOpen, Unmoved, Begin, partVars, history
<1>2. cmd' = [cmd EXCEPT ![t] = [Idle EXCEPT !.st = "Ecdh", !.kind = kind, !.id = s, !.nonce = nonce]]
  BY DEF StartOpen, Begin
<1>3. cmd \in [Tags -> Cmd]
  BY DEF SessionsInv, ShapeOK
<1>4. Moved(t, Fresh("Ecdh", kind, s, nonce, 0, 0, FALSE))
  <2>1. cmd'[t] = Fresh("Ecdh", kind, s, nonce, 0, 0, FALSE)
    BY <1>2, <1>3 DEF Idle, Fresh
  <2>2. Fresh("Ecdh", kind, s, nonce, 0, 0, FALSE) \in Cmd
    BY DEF Fresh, Cmd, Kinds
  <2> QED BY <1>2, <1>3, <2>1, <2>2 DEF Moved
<1> QED BY <1>1, <1>4, EcdhJoins

(* A command that accepts the nonce finds the partition enabled *)
LEMMA AcceptedOn ==
    ASSUME SessionsInv, NEW t \in Tags, cmd[t].st = "Ecdh", AcceptNonce(t)
    PROVE  enabled
  BY DEF SessionsInv, OffEmpty, Carries, AcceptNonce

LEMMA EstablishEnds ==
    ASSUME SessionsInv, NEW t \in Tags, EndEstablish(t)
    PROVE  SessionsInv'
<1>1. /\ cmd[t].st = "Ecdh" /\ cmd[t].kind = "Establish" /\ AcceptNonce(t)
      /\ UNCHANGED <<enabled, tableVars, vault, leaked>>
  BY DEF EndEstablish, history
<1>2. enabled
  BY <1>1, AcceptedOn
<1>3. PICK ok \in BOOLEAN : cred' = ok /\ ToOut(t, ok)
  BY DEF EndEstablish
<1>4. CASE ok = FALSE
  BY <1>1, <1>2, <1>3, <1>4, FailKeeps
<1>5. CASE ok = TRUE
  <2> DEFINE c == OutOf(cmd[t], TRUE)
  <2>1. ShapeOK /\ FormOK(cmd[t])
    BY DEF SessionsInv, FormsOK
  <2>2. Moved(t, c)
    BY <1>3, <1>5, <2>1, OutIs DEF ShapeOK
  <2>3. FormOK(c) /\ ~Keeps(c) /\ ~Makes(c) /\ ~Granted(c) /\ ~Closes(c)
    BY <1>1, <2>1 DEF FormOK, OutOf, Keeps, Makes, Granted, Closes
  <2>4. /\ vault' \in [Entries -> Key] /\ \A e \in Entries : vault'[e] = vault[e]
        /\ leaked' = leaked /\ cred' \in BOOLEAN
    BY <1>1, <1>3, <2>1 DEF ShapeOK
  <2>5. HeldIn(vault', c)
    BY <2>3 DEF HeldIn
  <2> HIDE DEF c
  <2> QED BY <1>1, <1>2, <2>2, <2>3, <2>4, <2>5, MoveKeeps
<1> QED BY <1>4, <1>5

LEMMA Fails ==
    ASSUME SessionsInv, NEW t \in Tags,
           EcdhFails(t) \/ EndOpenFails(t) \/ CloseFails(t)
    PROVE  SessionsInv'
<1>0. cred \in BOOLEAN /\ enabled \in BOOLEAN /\ (~enabled => cred = FALSE)
  BY DEF SessionsInv, ShapeOK, OffEmpty
<1>1. /\ cmd[t].st # "None" /\ ToOut(t, FALSE)
      /\ UNCHANGED <<enabled, cred, tableVars, vault, leaked>>
  BY DEF EcdhFails, EndOpenFails, CloseFails, Ending, Unmoved, partVars, history
<1>2. enabled \/ nonce' = nonce
  <2>1. CASE EndOpenFails(t)
    BY <2>1, AcceptedOn DEF EndOpenFails, Ending
  <2> QED BY <2>1 DEF EcdhFails, CloseFails, Unmoved, nonceVars
<1> QED BY <1>0, <1>1, <1>2, FailKeeps

LEMMA GenStarts ==
    ASSUME SessionsInv, Orderly, NEW t \in Tags, NEW s \in Ids, StartGen(t, s)
    PROVE  SessionsInv'
<1>0. ShapeOK /\ FormsOK /\ ClosingAlone /\ TableVaultAgree
  BY DEF SessionsInv
<1>1. /\ HasSession(s, FALSE) /\ Settled(s) /\ enabled
      /\ UNCHANGED <<enabled, tableVars, vault, cred, leaked>>
      /\ cmd' = [cmd EXCEPT ![t] = [Idle EXCEPT !.st = "Gen", !.kind = "Gen", !.id = s,
                                                !.inst = vault[table[s]].inst]]
  BY DEF StartGen, Unmoved, Begin, partVars, history
<1>2. Valid(s) /\ table[s] \in Entries /\ vault[table[s]].on /\ vault[table[s]] \in Key
  BY <1>0, <1>1 DEF HasSession, ShapeOK
<1> DEFINE i == vault[table[s]].inst
           c == Fresh("Gen", "Gen", s, 0, 0, i, FALSE)
<1>3. Moved(t, c)
  <2>1. cmd'[t] = c
    BY <1>0, <1>1 DEF ShapeOK, Idle, Fresh
  <2>2. c \in Cmd
    BY <1>2, NamesAssumption DEF Fresh, Cmd, Kinds, Key
  <2> QED BY <1>0, <1>1, <2>1, <2>2 DEF Moved, ShapeOK
<1>4. FormOK(c) /\ ~Keeps(c) /\ ~Granted(c) /\ ~Closes(c)
  BY DEF FormOK, Fresh, Keeps, Granted, Closes
<1>5. \A x \in Tags : cmd[x].id = s => ~Granted(cmd[x]) /\ ~Closes(cmd[x])
  <2>1. \A x \in Tags : Granted(cmd[x]) => InFlight(x)
    BY <1>0 DEF FormsOK, FormOK, Granted, InFlight
  <2> QED BY <1>0, <1>1, <1>2, <2>1 DEF Settled, Opening, Granted, ClosingAlone
<1>6. /\ vault' \in [Entries -> Key] /\ \A e \in Entries : vault'[e] = vault[e]
      /\ leaked' = leaked /\ cred' \in BOOLEAN
  BY <1>0, <1>1 DEF ShapeOK
<1>7. HeldIn(vault', c) /\ c.id = s /\ c.entry = 0 /\ c.inst = vault[table[s]].inst
  BY <1>4 DEF HeldIn, Fresh
<1> HIDE DEF c
<1> QED BY <1>1, <1>2, <1>3, <1>4, <1>5, <1>6, <1>7, MoveKeeps

LEMMA SignStarts ==
    ASSUME SessionsInv, NEW t \in Tags, NEW s \in Ids, NEW e \in Entries, StartSign(t, s, e)
    PROVE  SessionsInv'
<1>0. ShapeOK
  BY DEF SessionsInv
<1>1. /\ e \in Owned(s) /\ enabled
      /\ UNCHANGED <<enabled, tableVars, vault, cred, leaked>>
      /\ cmd' = [cmd EXCEPT ![t] = [Idle EXCEPT !.st = "Sign", !.kind = "Sign", !.id = s, !.entry = e]]
  BY DEF StartSign, Unmoved, Begin, partVars, history
<1> DEFINE c == Fresh("Sign", "Sign", s, 0, e, 0, FALSE)
<1>2. Moved(t, c)
  <2>1. cmd'[t] = c
    BY <1>0, <1>1 DEF ShapeOK, Idle, Fresh
  <2>2. c \in Cmd
    BY NamesAssumption DEF Fresh, Cmd, Kinds
  <2> QED BY <1>0, <1>1, <2>1, <2>2 DEF Moved, ShapeOK
<1>3. FormOK(c) /\ ~Makes(c) /\ ~Granted(c) /\ ~Closes(c)
  BY DEF FormOK, Fresh, Makes, Granted, Closes
<1>4. /\ vault' \in [Entries -> Key] /\ \A x \in Entries : vault'[x] = vault[x]
      /\ leaked' = leaked /\ cred' \in BOOLEAN
  BY <1>0, <1>1 DEF ShapeOK
<1>5. HeldIn(vault', c)
  BY <1>1, <1>4 DEF HeldIn, Fresh, Owned
<1> HIDE DEF c
<1> QED BY <1>1, <1>2, <1>3, <1>4, <1>5, MoveKeeps

(* A maker's partition is enabled, and what it keeps is a key of its session *)
LEMMA MakerFacts ==
    ASSUME SessionsInv, NEW t \in Tags, Makes(cmd[t])
    PROVE  /\ enabled /\ cmd[t].id \in Ids /\ cmd[t] \in Cmd /\ FormOK(cmd[t])
           /\ cmd[t].entry # 0 => /\ cmd[t].entry \in Entries
                                  /\ vault[cmd[t].entry].kind = "own"
                                  /\ vault[cmd[t].entry].id = cmd[t].id
<1>1. enabled /\ cmd[t] \in Cmd /\ FormOK(cmd[t])
  BY DEF SessionsInv, OffEmpty, Makes, ShapeOK, FormsOK
<1> QED BY <1>1 DEF SessionsInv, KeysHeld, HeldIn, Keeps, Makes, Cmd, FormOK

LEMMA TestStarts ==
    ASSUME SessionsInv, NEW t \in Tags, StartTest(t)
    PROVE  SessionsInv'
<1>0. ShapeOK
  BY DEF SessionsInv
<1>1. /\ cmd[t].st = "Pct" /\ cmd' = [cmd EXCEPT ![t].st = "Test"]
      /\ UNCHANGED <<enabled, tableVars, vault, cred, leaked>>
  BY DEF StartTest, Unmoved, partVars, history
<1>2. Makes(cmd[t])
  BY <1>1 DEF SessionsInv, FormsOK, FormOK, Makes
<1>3. /\ enabled /\ cmd[t] \in Cmd /\ FormOK(cmd[t])
      /\ cmd[t].entry # 0 => vault[cmd[t].entry].kind = "own" /\ vault[cmd[t].entry].id = cmd[t].id
  BY <1>2, MakerFacts
<1>4. PICK c : c = cmd'[t]
  OBVIOUS
<1>5. /\ c.st = "Test" /\ c.kind = cmd[t].kind /\ c.id = cmd[t].id /\ c.entry = cmd[t].entry
      /\ c.ok = cmd[t].ok /\ Moved(t, c)
  BY <1>0, <1>1, <1>3, <1>4 DEF ShapeOK, Cmd, Moved
<1>6. FormOK(c) /\ Makes(c) /\ ~Granted(c) /\ ~Closes(c)
  BY <1>1, <1>2, <1>3, <1>5 DEF FormOK, Makes, Granted, Closes
<1>7. /\ vault' \in [Entries -> Key] /\ \A x \in Entries : vault'[x] = vault[x]
      /\ leaked' = leaked /\ cred' \in BOOLEAN /\ vault' = vault
  BY <1>0, <1>1 DEF ShapeOK
<1>8. HeldIn(vault', c)
  BY <1>3, <1>5, <1>7 DEF HeldIn, Keeps
<1> QED BY <1>1, <1>2, <1>3, <1>5, <1>6, <1>7, <1>8, MoveKeeps

(* The key that a maker gives up goes, unless an engine still works with it *)
LEMMA UndoneIs ==
    ASSUME SessionsInv, NEW t \in Tags, Makes(cmd[t]), vault' = Undone(t)
    PROVE  /\ vault' \in [Entries -> Key]
           /\ \A e \in Entries :
               \/ vault'[e] = vault[e]
               \/ /\ vault[e].kind = "own"
                  /\ \/ vault'[e] = [vault[e] EXCEPT !.on = FALSE]
                     \/ /\ vault'[e] = NoKey
                        /\ \A x \in Tags \ {t} : Keeps(cmd[x]) => cmd[x].entry # e
<1>0. vault \in [Entries -> Key] /\ MakersApart
  BY DEF SessionsInv, ShapeOK
<1>1. CASE ~CanDelete(cmd[t].entry, cmd[t].id)
  BY <1>0, <1>1 DEF Undone
<1>2. CASE CanDelete(cmd[t].entry, cmd[t].id)
  <2>1. PICK d \in Entries : d = cmd[t].entry
    BY <1>2 DEF CanDelete
  <2>2. d # 0 /\ vault[d].kind = "own" /\ vault[d] \in Key
    BY <1>0, <2>1, MakerFacts, TablesAssumption
  <2>3. CASE InUse(d, t)
    <3>1. vault' = [vault EXCEPT ![d] = [vault[d] EXCEPT !.on = FALSE]]
      BY <1>0, <1>2, <2>1, <2>3 DEF Undone, Deleted
    <3>2. [vault[d] EXCEPT !.on = FALSE] \in Key
      BY <2>2 DEF Key
    <3> QED BY <1>0, <2>2, <3>1, <3>2
  <2>4. CASE ~InUse(d, t)
    <3>1. vault' = [vault EXCEPT ![d] = NoKey]
      BY <1>2, <2>1, <2>4 DEF Undone, Deleted
    <3>2. NoKey \in Key
      BY DEF NoKey, Key
    <3>3. ASSUME NEW x \in Tags \ {t}, Keeps(cmd[x]), cmd[x].entry = d PROVE FALSE
      <4>1. CASE Works(cmd[x])
        BY <2>4, <3>3, <4>1, UsesWorks DEF InUse
      <4>2. CASE Makes(cmd[x])
        BY <1>0, <2>1, <2>2, <3>3, <4>2 DEF MakersApart
      <4> QED BY <3>3, <4>1, <4>2 DEF Keeps
    <3> QED BY <1>0, <2>2, <3>1, <3>2, <3>3
  <2> QED BY <2>3, <2>4
<1> QED BY <1>1, <1>2

LEMMA TestEndsBadly ==
    ASSUME SessionsInv, NEW t \in Tags, TestFails(t)
    PROVE  SessionsInv'
<1>0. ShapeOK /\ FormOK(cmd[t])
  BY DEF SessionsInv, FormsOK
<1>1. /\ cmd[t].st \in {"Pct", "Test"} /\ vault' = Undone(t) /\ leaked' = StillLeaked
      /\ ToOut(t, FALSE) /\ UNCHANGED <<enabled, tableVars, cred>>
  BY DEF TestFails, partVars
<1>2. Makes(cmd[t])
  BY <1>0, <1>1 DEF FormOK, Makes
<1>3. enabled /\ cmd[t] \in Cmd /\ cmd[t].id \in Ids
  BY <1>2, MakerFacts
<1> DEFINE c == OutOf(cmd[t], FALSE)
<1>4. Moved(t, c) /\ FormOK(c)
  BY <1>0, <1>1, OutIs DEF ShapeOK, FormOK, OutOf
<1>5. /\ ~Keeps(c) /\ ~Granted(c) /\ ~Closes(c) /\ c.st # "Gen" /\ c.entry = 0
      /\ c.id = cmd[t].id /\ HeldIn(vault', c)
  BY DEF Keeps, Granted, Closes, OutOf, HeldIn
<1>6. cred' \in BOOLEAN
  BY <1>0, <1>1 DEF ShapeOK
<1> HIDE DEF c
<1> QED BY <1>1, <1>2, <1>3, <1>4, <1>5, <1>6, UndoneIs, MoveKeeps

LEMMA KeyEnds ==
    ASSUME SessionsInv, NEW t \in Tags, KeyDone(t)
    PROVE  SessionsInv'
<1>0. ShapeOK /\ FormOK(cmd[t]) /\ OffEmpty /\ cmd[t] \in Cmd
  BY DEF SessionsInv, FormsOK, ShapeOK
<1>1. /\ cmd[t].st \in {"Sign", "Test"}
      /\ ToOut(t, TRUE) /\ UNCHANGED <<enabled, tableVars, cred, vault, leaked, nonce>>
  BY DEF KeyDone, Unmoved, partVars, history, nonceVars
<1> DEFINE c == OutOf(cmd[t], TRUE)
<1>2. Moved(t, c) /\ FormOK(c)
  BY <1>0, <1>1, OutIs DEF ShapeOK, FormOK, OutOf
<1>3. /\ ~Granted(c) /\ ~Closes(c) /\ c.st \notin {"Gen", "Ecdh"} /\ c.entry = cmd[t].entry
      /\ c.id = cmd[t].id /\ c.kind = cmd[t].kind
  BY <1>0, <1>1 DEF Granted, Closes, OutOf, FormOK
<1>4. /\ vault' \in [Entries -> Key] /\ \A e \in Entries : vault'[e] = vault[e]
      /\ cred' \in BOOLEAN /\ leaked' = leaked /\ vault' = vault
  BY <1>0, <1>1 DEF ShapeOK
<1>5. Keeps(cmd[t]) <=> cmd[t].entry # 0
  BY <1>1 DEF Keeps, Works
<1>6. enabled => HeldIn(vault', c)
  BY <1>1, <1>3, <1>5 DEF SessionsInv, KeysHeld, HeldIn, Keeps
<1>7. ~enabled => cred' = FALSE /\ c.kind # "Gen"
  BY <1>0, <1>1, <1>3 DEF OffEmpty, ShapeOK
<1> HIDE DEF c
<1> QED BY <1>1, <1>2, <1>3, <1>4, <1>6, <1>7, MoveKeeps DEF Makes

LEMMA KeyTimedOut ==
    ASSUME SessionsInv, NEW t \in Tags, KeyTimesOut(t)
    PROVE  SessionsInv'
<1>0. ShapeOK /\ FormOK(cmd[t]) /\ OffEmpty /\ cmd[t] \in Cmd /\ KeysHeld
  BY DEF SessionsInv, FormsOK, ShapeOK
<1>1. /\ cmd[t].st \in {"Gen", "Pct", "Test", "Sign"}
      /\ cmd' = [cmd EXCEPT ![t].st = "Out", ![t].inst = 0,
                            ![t].entry = IF Uses(t) THEN @ ELSE 0]
      /\ leaked' = StillLeaked
      /\ UNCHANGED <<enabled, tableVars, cred, nonce>>
  BY DEF KeyTimesOut, partVars, nonceVars
<1>2. PICK c : c = cmd'[t]
  OBVIOUS
<1>3. /\ c.st = "Out" /\ c.kind = cmd[t].kind /\ c.id = cmd[t].id /\ c.ok = cmd[t].ok
      /\ c.entry = IF Uses(t) THEN cmd[t].entry ELSE 0
  BY <1>0, <1>1, <1>2 DEF ShapeOK, Cmd
<1>4. Moved(t, c)
  BY <1>0, <1>1, <1>2, NamesAssumption DEF ShapeOK, Cmd, Moved
<1>5. FormOK(c) /\ ~Granted(c) /\ ~Closes(c) /\ c.ok = FALSE
  BY <1>0, <1>1, <1>3 DEF FormOK, Granted, Closes, Cmd
<1>6. ~enabled => cred' = FALSE /\ c.kind # "Gen" /\ cmd[t].st = "Sign"
  BY <1>0, <1>1, <1>3 DEF OffEmpty, ShapeOK, FormOK
<1>7. cred' \in BOOLEAN
  BY <1>0, <1>1 DEF ShapeOK
<1>8. CASE cmd[t].st \in {"Gen", "Sign"}
  <2>1. /\ vault' \in [Entries -> Key] /\ vault' = vault
        /\ \A e \in Entries : vault'[e] = vault[e]
    BY <1>0, <1>8 DEF KeyTimesOut, ShapeOK
  <2>2. c.entry # 0 => Keeps(cmd[t]) /\ c.entry = cmd[t].entry
    BY <1>3, <1>8, UsesWorks DEF Keeps
  <2>3. enabled => HeldIn(vault', c)
    BY <1>0, <1>3, <2>1, <2>2 DEF KeysHeld, HeldIn, Keeps
  <2> QED BY <1>1, <1>3, <1>4, <1>5, <1>6, <1>7, <2>1, <2>3, MoveKeeps DEF Makes
<1>9. CASE cmd[t].st = "Pct"
  <2>1. vault' = Undone(t)
    BY <1>9 DEF KeyTimesOut
  <2>2. Makes(cmd[t]) /\ ~Uses(t)
    BY <1>0, <1>9 DEF FormOK, Makes, Uses
  <2>3. HeldIn(vault', c)
    BY <1>3, <2>2 DEF HeldIn, Keeps
  <2> QED BY <1>1, <1>3, <1>4, <1>5, <1>6, <1>7, <2>1, <2>2, <2>3, UndoneIs, MoveKeeps DEF Makes
<1>10. CASE cmd[t].st = "Test"
  <2>1. vault' = [vault EXCEPT ![cmd[t].entry].on = FALSE]
    BY <1>10 DEF KeyTimesOut
  <2>2. Makes(cmd[t]) /\ Uses(t)
    BY <1>0, <1>10 DEF FormOK, Makes, Uses
  <2>3. PICK d \in Entries : d = cmd[t].entry
    BY <1>0, <1>10 DEF FormOK
  <2>4. /\ vault[d].kind = "own" /\ vault[d].id = cmd[t].id /\ vault[d] \in Key
    BY <1>0, <2>2, <2>3, MakerFacts, TablesAssumption DEF ShapeOK
  <2>5. vault' = [vault EXCEPT ![d] = [vault[d] EXCEPT !.on = FALSE]]
    BY <1>0, <2>1, <2>3 DEF ShapeOK
  <2>6. [vault[d] EXCEPT !.on = FALSE] \in Key
    BY <2>4 DEF Key
  <2>7. /\ vault' \in [Entries -> Key]
        /\ \A e \in Entries : \/ vault'[e] = vault[e]
                              \/ vault[e].kind = "own" /\ vault'[e] = [vault[e] EXCEPT !.on = FALSE]
        /\ vault'[d] = [vault[d] EXCEPT !.on = FALSE]
    BY <1>0, <2>4, <2>5, <2>6 DEF ShapeOK
  <2>8. c.entry = d /\ c.id = vault[d].id
    BY <1>3, <2>2, <2>3, <2>4
  <2>9. HeldIn(vault', c)
    BY <2>4, <2>7, <2>8 DEF HeldIn, Key
  <2>10. c.entry \in {cmd[t].entry, 0}
    BY <2>3, <2>8
  <2> QED BY <1>1, <1>3, <1>4, <1>5, <1>6, <1>7, <2>2, <2>7, <2>9, <2>10, MoveKeeps DEF Makes
<1> QED BY <1>1, <1>8, <1>9, <1>10

LEMMA Ends ==
    ASSUME SessionsInv, NEW t \in Tags, Done(t)
    PROVE  SessionsInv'
<1>0. ShapeOK /\ OffEmpty
  BY DEF SessionsInv
<1>1. /\ cmd' = [cmd EXCEPT ![t] = Idle]
      /\ UNCHANGED <<enabled, tableVars, cred, vault, leaked, nonce>>
  BY DEF Done, Drop, partVars, nonceVars
<1>2. Moved(t, Idle)
  BY <1>0, <1>1, NamesAssumption DEF ShapeOK, Moved, Idle, Cmd, Kinds
<1>3. /\ FormOK(Idle) /\ ~Keeps(Idle) /\ ~Makes(Idle) /\ ~Granted(Idle) /\ ~Closes(Idle)
      /\ Idle.kind # "Gen" /\ Idle.st # "Ecdh"
  BY DEF FormOK, Idle, Keeps, Makes, Granted, Closes
<1>4. /\ vault' \in [Entries -> Key] /\ \A e \in Entries : vault'[e] = vault[e]
      /\ cred' \in BOOLEAN /\ leaked' = leaked /\ HeldIn(vault', Idle)
      /\ ~enabled => cred' = FALSE
  BY <1>0, <1>1, <1>3 DEF ShapeOK, OffEmpty, HeldIn
<1> QED BY <1>1, <1>2, <1>3, <1>4, MoveKeeps

(* No engine works with the key of a session *)
LEMMA NoEngine ==
    ASSUME SessionsInv, enabled, NEW e \in Entries, vault[e].kind = "session", NEW t
    PROVE  ~InUse(e, t)
<1> SUFFICES ASSUME NEW x \in Tags, Uses(x), cmd[x].entry = e PROVE FALSE
  BY DEF InUse
<1>1. Keeps(cmd[x])
  BY UsesWorks, TablesAssumption DEF Keeps
<1> QED BY <1>1 DEF SessionsInv, KeysHeld, HeldIn

(* A valid id names the key of a session, and is a session to look up *)
LEMMA ValidHas ==
    ASSUME SessionsInv, NEW s, Valid(s)
    PROVE  /\ s \in Ids /\ enabled /\ table[s] \in Entries
           /\ vault[table[s]].kind = "session" /\ vault[table[s]] \in Key
           /\ HasSession(s, TRUE)
<1>1. s \in Ids /\ table[s] \in SessionEntries
  BY DEF SessionsInv, ShapeOK, TableVaultAgree, Valid
<1>2. enabled
  BY DEF SessionsInv, OffEmpty, Valid
<1> QED BY <1>1, <1>2 DEF SessionEntries, HasSession, SessionsInv, ShapeOK

(* A session goes with its keys, when nobody else depends on it *)
LEMMA SessionGoes ==
    ASSUME SessionsInv, NEW s, Valid(s), NEW t \in Tags, NEW c, FormOK(c), Moved(t, c),
           ~Closes(c), ~Makes(c), ~Granted(c), ~Keeps(c), UNCHANGED <<enabled, cred>>,
           alloc' \subseteq Ids, reneg' \subseteq alloc', alloc' \ reneg' = (alloc \ reneg) \ {s},
           table' = [table EXCEPT ![s] = 0], leaked' = StillLeaked,
           vault' \in [Entries -> Key],
           \A e \in Entries : vault'[e] = IF e = table[s] \/ e \in Owned(s) THEN NoKey ELSE vault[e],
           \A x \in Tags \ {t} : /\ cmd[x].id = s => ~Makes(cmd[x]) /\ ~Granted(cmd[x]) /\ ~Closes(cmd[x])
                                 /\ Keeps(cmd[x]) => cmd[x].entry \notin Owned(s)
    PROVE  SessionsInv'
<1>0. /\ ShapeOK /\ FormsOK /\ OffEmpty /\ KeysHeld /\ MakersApart /\ MakersLive
      /\ GrantedAlone /\ ClosingAlone /\ TableVaultAgree /\ KeysOfOwnSession
  BY DEF SessionsInv
<1>1. cmd'[t] = c /\ (\A x \in Tags \ {t} : cmd'[x] = cmd[x]) /\ cmd' \in [Tags -> Cmd]
  BY DEF Moved
<1>2. /\ s \in Ids /\ enabled /\ table[s] \in Entries /\ vault[table[s]].kind = "session"
  BY ValidHas
<1>3. /\ \A x \in Ids : x \in alloc' \ reneg' <=> Valid(x) /\ x # s
      /\ \A x \in Ids : x # s => table'[x] = table[x]
      /\ \A x \in Ids : Valid(x) => table[x] \in SessionEntries
      /\ \A x \in Ids : Valid(x) /\ x # s => table[x] # table[s]
  BY <1>0 DEF Valid, ShapeOK, TableVaultAgree
<1>4. \A x \in Ids : Valid(x) /\ x # s => /\ x \in alloc' \ reneg' /\ table'[x] = table[x]
                                          /\ vault'[table'[x]] = vault[table[x]]
  BY <1>3 DEF SessionEntries, Owned
<1>5. SessionEntries' = SessionEntries \ {table[s]}
  BY <1>2 DEF SessionEntries, Owned, NoKey
<1>6. ShapeOK'
  BY <1>0, <1>1, <1>2 DEF ShapeOK, StillLeaked
<1>7. TableVaultAgree'
  <2>1. leaked' = leaked \ {table[s]}
    BY <1>0, <1>5 DEF StillLeaked, TableVaultAgree, SessionEntries
  <2>2. \A x \in alloc' \ reneg' : x \in Ids
    BY <1>6 DEF ShapeOK
  <2>3. \A x \in alloc' \ reneg' : table'[x] \in SessionEntries'
    BY <1>3, <1>5, <2>2
  <2>4. \A x, y \in alloc' \ reneg' : table'[x] = table'[y] => x = y
    BY <1>0, <1>3, <2>2 DEF TableVaultAgree, Valid
  <2>5. SessionEntries' = {table'[x] : x \in alloc' \ reneg'} \cup leaked'
    <3>1. SessionEntries = {table[x] : x \in alloc \ reneg} \cup leaked
      BY <1>0 DEF TableVaultAgree
    <3>2. {table'[x] : x \in alloc' \ reneg'} = {table[x] : x \in alloc \ reneg} \ {table[s]}
      <4>1. \A x \in alloc \ reneg : x \in Ids
        BY <1>0 DEF ShapeOK
      <4> QED BY <1>3, <2>2, <4>1 DEF Valid
    <3> QED BY <1>5, <2>1, <3>1, <3>2
  <2> QED BY <2>3, <2>4, <2>5 DEF TableVaultAgree
<1>8. FormsOK' /\ OffEmpty'
  BY <1>0, <1>1, <1>2 DEF FormsOK, OffEmpty
<1>9. KeysHeld'
  <2> SUFFICES ASSUME NEW x \in Tags, Keeps(cmd'[x])
               PROVE  vault'[cmd'[x].entry].kind = "own" /\ vault'[cmd'[x].entry].id = cmd'[x].id
    BY DEF KeysHeld, HeldIn
  <2>1. x # t /\ cmd'[x] = cmd[x]
    BY <1>1
  <2>2. PICK e \in Entries : e = cmd[x].entry
    BY <1>0, <2>1 DEF ShapeOK, Cmd, Keeps
  <2>3. vault[e].kind = "own" /\ vault[e].id = cmd[x].id /\ e \notin Owned(s)
    BY <1>0, <1>2, <2>1, <2>2 DEF KeysHeld, HeldIn
  <2>4. vault'[e] = vault[e]
    BY <1>2, <2>3
  <2> QED BY <2>1, <2>2, <2>3, <2>4
<1>10. MakersApart'
  BY <1>0, <1>1 DEF MakersApart
<1>11. MakersLive'
  <2> SUFFICES ASSUME NEW x \in Tags, Makes(cmd'[x])
               PROVE  /\ cmd'[x].id \in alloc' \ reneg'
                      /\ cmd'[x].st = "Gen" => cmd'[x].inst = vault'[table'[cmd'[x].id]].inst
    BY DEF MakersLive, Valid
  <2>1. x # t /\ cmd'[x] = cmd[x] /\ Makes(cmd[x])
    BY <1>1
  <2>2. cmd[x].id \in Ids /\ cmd[x].id # s
    BY <1>0, <2>1 DEF FormsOK, FormOK, Makes
  <2>3. Valid(cmd[x].id) /\ (cmd[x].st = "Gen" => cmd[x].inst = vault[table[cmd[x].id]].inst)
    BY <1>0, <2>1 DEF MakersLive
  <2> QED BY <1>4, <2>1, <2>2, <2>3
<1>12. \A x : Owned(x)' \subseteq Owned(x)
  BY DEF Owned, NoKey
<1>13. GrantedAlone'
  <2> SUFFICES ASSUME NEW x \in Tags, Granted(cmd'[x])
               PROVE  /\ cmd'[x].id \in alloc' \ reneg' /\ Owned(cmd[x].id)' = {}
                      /\ \A y \in Tags \ {x} : cmd'[y].id = cmd'[x].id =>
                           ~Granted(cmd'[y]) /\ ~Closes(cmd'[y]) /\ ~Makes(cmd'[y])
    BY DEF GrantedAlone, Valid
  <2>1. x # t /\ cmd'[x] = cmd[x] /\ Granted(cmd[x])
    BY <1>1
  <2>2. /\ Valid(cmd[x].id) /\ Owned(cmd[x].id) = {} /\ cmd[x].id \in Ids /\ cmd[x].id # s
        /\ \A y \in Tags \ {x} : cmd[y].id = cmd[x].id =>
             ~Granted(cmd[y]) /\ ~Closes(cmd[y]) /\ ~Makes(cmd[y])
    BY <1>0, <1>2, <2>1 DEF GrantedAlone, FormsOK, FormOK, Granted
  <2>3. cmd'[x].id \in alloc' \ reneg' /\ Owned(cmd[x].id)' = {}
    BY <1>4, <2>1, <2>2 DEF Owned, NoKey
  <2> QED BY <1>1, <2>1, <2>2, <2>3
<1>14. ClosingAlone'
  <2> SUFFICES ASSUME NEW x \in Tags, Closes(cmd'[x])
               PROVE  /\ cmd'[x].id \in alloc' \ reneg' /\ ~vault'[table'[cmd'[x].id]].on
                      /\ \A y \in Tags \ {x} : cmd'[y].id = cmd'[x].id =>
                           ~Closes(cmd'[y]) /\ ~Makes(cmd'[y])
    BY DEF ClosingAlone, Valid
  <2>1. x # t /\ cmd'[x] = cmd[x] /\ Closes(cmd[x])
    BY <1>1
  <2>2. /\ Valid(cmd[x].id) /\ ~vault[table[cmd[x].id]].on /\ cmd[x].id # s
        /\ \A y \in Tags \ {x} : cmd[y].id = cmd[x].id => ~Closes(cmd[y]) /\ ~Makes(cmd[y])
    BY <1>0, <1>2, <2>1 DEF ClosingAlone
  <2>3. cmd[x].id \in Ids
    BY <1>0, <2>2 DEF Valid, ShapeOK
  <2> QED BY <1>1, <1>4, <2>1, <2>2, <2>3
<1>15. KeysOfOwnSession'
  <2> SUFFICES ASSUME NEW e \in Entries, vault'[e].kind = "own"
               PROVE  /\ vault'[e].id \in alloc' \ reneg'
                      /\ vault'[table'[vault'[e].id]].inst = vault'[e].inst
    BY DEF KeysOfOwnSession, Valid
  <2>1. vault'[e] = vault[e] /\ vault[e].id # s
    BY DEF Owned, NoKey
  <2>2. Valid(vault[e].id) /\ vault[table[vault[e].id]].inst = vault[e].inst /\ vault[e].id \in Ids
    BY <1>0, <2>1 DEF KeysOfOwnSession, Valid, ShapeOK
  <2> QED BY <1>4, <2>1, <2>2
<1> QED BY <1>6, <1>7, <1>8, <1>9, <1>10, <1>11, <1>13, <1>14, <1>15 DEF SessionsInv

(* rollback_open_session takes back what the open granted *)
LEMMA OpenRolledBack ==
    ASSUME SessionsInv, NEW t \in Tags, OutFails(t), cmd[t].kind \in {"Open", "Reopen"}
    PROVE  SessionsInv'
<1>0. ShapeOK /\ FormOK(cmd[t]) /\ OffEmpty /\ GrantedAlone
  BY DEF SessionsInv, FormsOK
<1>1. /\ cmd[t].st = "Out" /\ cmd[t].ok /\ ToOut(t, FALSE) /\ leaked' = StillLeaked
      /\ RollbackOpen(cmd[t].id, cmd[t].kind = "Reopen")
      /\ UNCHANGED <<enabled, cred, nonce>>
  BY DEF OutFails, Rollback, partVars, nonceVars
<1>2. Granted(cmd[t]) /\ cmd[t].id \in Ids
  BY <1>0, <1>1 DEF Granted, FormOK
<1>3. CASE ~enabled
  <2>1. ~Valid(cmd[t].id)
    BY <1>0, <1>3 DEF OffEmpty, Valid
  <2>2. UNCHANGED <<vault, tableVars>>
    BY <1>1, <2>1 DEF RollbackOpen
  <2>3. leaked' = leaked
    BY <2>2, <1>0, <1>1, <1>3 DEF OffEmpty, StillLeaked
  <2>4. cred' = FALSE
    BY <1>0, <1>1, <1>3 DEF OffEmpty, ShapeOK
  <2> QED BY <1>1, <2>2, <2>3, <2>4, FailKeeps
<1>4. CASE enabled
  <2> DEFINE c == OutOf(cmd[t], FALSE)
  <2>1. Moved(t, c) /\ FormOK(c)
    BY <1>0, <1>1, OutIs DEF ShapeOK, FormOK, OutOf
  <2>2. ~Closes(c) /\ ~Makes(c) /\ ~Granted(c) /\ ~Keeps(c)
    BY DEF OutOf, Closes, Makes, Granted, Keeps
  <2>3. PICK s \in Ids : s = cmd[t].id
    BY <1>2
  <2>4. /\ Valid(s) /\ Owned(s) = {}
        /\ \A x \in Tags \ {t} : cmd[x].id = s => ~Makes(cmd[x]) /\ ~Granted(cmd[x]) /\ ~Closes(cmd[x])
    BY <1>0, <1>2, <1>4, <2>3 DEF GrantedAlone
  <2>5. table[s] \in Entries /\ vault[table[s]].kind = "session" /\ ~InUse(table[s], NoTag)
    BY <1>4, <2>4, ValidHas, NoEngine
  <2>6. CanDelete(table[s], NoId)
    BY <2>5 DEF CanDelete
  <2>7. /\ vault' = [vault EXCEPT ![table[s]] = NoKey]
        /\ table' = [table EXCEPT ![s] = 0]
        /\ \/ alloc' = alloc \cup {s} /\ reneg' = reneg \cup {s}
           \/ alloc' = alloc \ {s} /\ reneg' = reneg \ {s}
    BY <1>1, <2>3, <2>4, <2>5, <2>6 DEF RollbackOpen, Deleted, DeleteId
  <2>8. /\ alloc' \subseteq Ids /\ reneg' \subseteq alloc'
        /\ alloc' \ reneg' = (alloc \ reneg) \ {s}
    BY <1>0, <2>7 DEF ShapeOK
  <2>9. /\ vault' \in [Entries -> Key]
        /\ \A e \in Entries : vault'[e] = IF e = table[s] \/ e \in Owned(s) THEN NoKey ELSE vault[e]
    BY <1>0, <2>4, <2>7 DEF ShapeOK, Key, NoKey
  <2> HIDE DEF c
  <2> QED BY <1>1, <2>1, <2>2, <2>4, <2>7, <2>8, <2>9, SessionGoes
<1> QED BY <1>0, <1>3, <1>4 DEF ShapeOK

LEMMA AnswerLost ==
    ASSUME SessionsInv, NEW t \in Tags, OutFails(t)
    PROVE  SessionsInv'
<1>0. ShapeOK /\ FormOK(cmd[t]) /\ OffEmpty /\ TableVaultAgree /\ cmd[t].kind \in Kinds
  BY DEF SessionsInv, FormsOK, ShapeOK, Cmd
<1>1. /\ cmd[t].st = "Out" /\ ToOut(t, FALSE) /\ leaked' = StillLeaked /\ Rollback(t)
      /\ UNCHANGED nonce
  BY DEF OutFails, nonceVars
<1>2. CASE cmd[t].kind \in {"Open", "Reopen"}
  BY <1>2, OpenRolledBack
<1>3. CASE cmd[t].kind = "Gen"
  <2>1. vault' = Undone(t) /\ UNCHANGED <<enabled, cred, tableVars>>
    BY <1>1, <1>3 DEF Rollback, partVars
  <2>2. Makes(cmd[t]) /\ enabled
    BY <1>3, MakerFacts DEF Makes
  <2> DEFINE c == OutOf(cmd[t], FALSE)
  <2>3. Moved(t, c) /\ FormOK(c)
    BY <1>0, <1>1, OutIs DEF ShapeOK, FormOK, OutOf
  <2>4. /\ ~Keeps(c) /\ ~Granted(c) /\ ~Closes(c) /\ c.st # "Gen" /\ c.entry = 0
        /\ c.id = cmd[t].id /\ HeldIn(vault', c)
    BY DEF Keeps, Granted, Closes, OutOf, HeldIn
  <2>5. cred' \in BOOLEAN
    BY <1>0, <2>1 DEF ShapeOK
  <2> HIDE DEF c
  <2> QED BY <1>1, <2>1, <2>2, <2>3, <2>4, <2>5, UndoneIs, MoveKeeps
<1>4. CASE cmd[t].kind \in {"Establish", "Close", "Flush", "Sign"}
  <2>1. UNCHANGED <<enabled, tableVars, vault>> /\ cred' \in {FALSE, cred}
    BY <1>1, <1>4 DEF Rollback, partVars
  <2>2. leaked' = leaked
    BY <1>0, <1>1, <2>1, AgreeKept
  <2>3. cred' \in BOOLEAN /\ (~enabled => cred' = FALSE)
    BY <1>0, <2>1 DEF ShapeOK, OffEmpty
  <2> QED BY <1>1, <2>1, <2>2, <2>3, FailKeeps
<1> QED BY <1>0, <1>2, <1>3, <1>4 DEF Kinds

(* end_close_user_session *)
LEMMA CloseEnds ==
    ASSUME SessionsInv, NEW t \in Tags, EndClose(t)
    PROVE  SessionsInv'
<1>0. /\ ShapeOK /\ FormOK(cmd[t]) /\ OffEmpty /\ ClosingAlone /\ GrantedAlone /\ KeysHeld
      /\ vault \in [Entries -> Key]
  BY DEF SessionsInv, FormsOK, ShapeOK
<1>1. PICK s : s = cmd[t].id
  OBVIOUS
<1>2. /\ cmd[t].st = "Fp" /\ leaked' = StillLeaked /\ UNCHANGED <<enabled, cred, nonce>>
  BY DEF EndClose, partVars, nonceVars
<1>3. s \in Ids /\ Closes(cmd[t]) /\ ~Granted(cmd[t])
  BY <1>0, <1>1, <1>2 DEF FormOK, Closes, Granted
<1>4. \A e \in Owned(s) : e \in Entries /\ vault[e].kind = "own" /\ vault[e].id = s
  BY DEF Owned
<1>5. ASSUME NEW x \in Tags \ {t}, Keeps(cmd[x]), cmd[x].entry \in Owned(s)
      PROVE  InUse(cmd[x].entry, NoTag) /\ enabled
  <2>1. enabled
    BY <1>0, <1>4, <1>5 DEF OffEmpty, NoKey
  <2>2. cmd[x].id = s
    BY <1>0, <1>4, <1>5, <2>1 DEF KeysHeld, HeldIn
  <2>3. ~Makes(cmd[x])
    BY <1>0, <1>1, <1>3, <2>1, <2>2 DEF ClosingAlone
  <2>4. Uses(x)
    BY <1>5, <2>3, UsesWorks DEF Keeps
  <2> QED BY <2>1, <2>4, CommandsAssumption DEF InUse
<1>6. Swept(s) \in [Entries -> Key]
  <2>1. \A e \in Entries : [vault[e] EXCEPT !.on = FALSE] \in Key
    BY <1>0 DEF Key
  <2>2. NoKey \in Key
    BY DEF NoKey, Key
  <2> QED BY <1>0, <2>1, <2>2 DEF Swept
<1>7. CASE (\E e \in Owned(s) : InUse(e, NoTag)) \/ ~Valid(s)
  <2>1. vault' = Swept(s) /\ ToOut(t, FALSE) /\ UNCHANGED tableVars
    BY <1>1, <1>7 DEF EndClose
  <2> DEFINE c == OutOf(cmd[t], FALSE)
  <2>2. Moved(t, c) /\ FormOK(c)
    BY <1>0, <2>1, <1>2, OutIs DEF ShapeOK, FormOK, OutOf
  <2>3. ~Closes(c) /\ ~Makes(c) /\ ~Granted(c) /\ ~Keeps(c) /\ c.kind # "Gen" /\ c.st # "Ecdh"
    BY <1>0, <1>2 DEF OutOf, Closes, Makes, Granted, Keeps, FormOK
  <2>4. ASSUME NEW e \in Entries
        PROVE  \/ vault'[e] = vault[e]
               \/ /\ vault[e].kind = "own"
                  /\ \/ vault'[e] = [vault[e] EXCEPT !.on = FALSE]
                     \/ /\ vault'[e] = NoKey
                        /\ \A x \in Tags \ {t} : Keeps(cmd[x]) => cmd[x].entry # e
    <3>1. CASE e \notin Owned(s)
      BY <2>1, <3>1 DEF Swept
    <3>2. CASE e \in Owned(s) /\ InUse(e, NoTag)
      BY <1>4, <2>1, <3>2 DEF Swept
    <3>3. CASE e \in Owned(s) /\ ~InUse(e, NoTag)
      <4>1. vault'[e] = NoKey
        BY <2>1, <3>3 DEF Swept
      <4> QED BY <1>4, <1>5, <3>3, <4>1
    <3> QED BY <3>1, <3>2, <3>3
  <2>5. HeldIn(vault', c)
    BY <2>3 DEF HeldIn
  <2>6. cred' \in BOOLEAN /\ (~enabled => cred' = FALSE)
    BY <1>0, <1>2 DEF ShapeOK, OffEmpty
  <2>7. vault' \in [Entries -> Key]
    BY <1>6, <2>1
  <2> HIDE DEF c
  <2> QED BY <1>2, <2>1, <2>2, <2>3, <2>4, <2>5, <2>6, <2>7, MoveKeeps
<1>8. CASE ~((\E e \in Owned(s) : InUse(e, NoTag)) \/ ~Valid(s))
  <2>1. vault' = [Swept(s) EXCEPT ![table[s]] = NoKey] /\ DeleteId(s) /\ ToOut(t, TRUE)
    BY <1>1, <1>8 DEF EndClose
  <2>2. table[s] \in Entries /\ enabled
    BY <1>8, ValidHas
  <2>3. /\ vault' \in [Entries -> Key]
        /\ \A e \in Entries : vault'[e] = IF e = table[s] \/ e \in Owned(s) THEN NoKey ELSE vault[e]
    <3>1. NoKey \in Key
      BY DEF NoKey, Key
    <3>2. \A e \in Entries : Swept(s)[e] = IF e \in Owned(s) THEN NoKey ELSE vault[e]
      BY <1>8 DEF Swept
    <3> QED BY <1>6, <2>1, <2>2, <3>1, <3>2
  <2> DEFINE c == OutOf(cmd[t], TRUE)
  <2>4. Moved(t, c) /\ FormOK(c)
    BY <1>0, <2>1, <1>2, OutIs DEF ShapeOK, FormOK, OutOf
  <2>5. ~Closes(c) /\ ~Makes(c) /\ ~Granted(c) /\ ~Keeps(c)
    BY <1>0, <1>2 DEF OutOf, Closes, Makes, Granted, Keeps, FormOK
  <2>6. /\ alloc' \subseteq Ids /\ reneg' \subseteq alloc'
        /\ alloc' \ reneg' = (alloc \ reneg) \ {s} /\ table' = [table EXCEPT ![s] = 0]
    BY <1>0, <2>1 DEF ShapeOK, DeleteId
  <2>7. ASSUME NEW x \in Tags \ {t}
        PROVE  /\ cmd[x].id = s => ~Makes(cmd[x]) /\ ~Granted(cmd[x]) /\ ~Closes(cmd[x])
               /\ Keeps(cmd[x]) => cmd[x].entry \notin Owned(s)
    BY <1>0, <1>1, <1>3, <1>5, <1>8, <2>2 DEF ClosingAlone, GrantedAlone
  <2> HIDE DEF c
  <2> QED BY <1>2, <1>8, <2>1, <2>3, <2>4, <2>5, <2>6, <2>7, SessionGoes
<1> QED BY <1>7, <1>8

(* begin_close_user_session: the session is invalidated, and its close waits,  *)
(* runs or fails                                                               *)
LEMMA CloseJoins ==
    ASSUME SessionsInv, NEW s, HasSession(s, TRUE), NEW t \in Tags, NEW c, Moved(t, c),
           c.kind \in {"Close", "Flush"}, c.id = s, c.entry = 0, c.ok = FALSE,
           c.st \in {"Wait", "Fp", "Out"},
           \A x \in Tags \ {t} : cmd[x].id = s => ~Granted(cmd[x]) /\ ~Closes(cmd[x]) /\ ~Makes(cmd[x]),
           vault' = Invalidated(s), UNCHANGED <<enabled, cred, tableVars, leaked>>
    PROVE  SessionsInv'
<1>0. /\ ShapeOK /\ TableVaultAgree /\ vault \in [Entries -> Key]
  BY DEF SessionsInv, ShapeOK
<1>1. /\ s \in Ids /\ enabled /\ Valid(s) /\ table[s] \in Entries
      /\ vault[table[s]].kind = "session" /\ vault[table[s]] \in Key
  BY ValidHas DEF HasSession
<1>2. PICK d \in Entries : d = table[s]
  BY <1>1
<1>3. vault' = [vault EXCEPT ![d] = [vault[d] EXCEPT !.on = FALSE]]
  BY <1>0, <1>2 DEF Invalidated
<1>4. /\ [vault[d] EXCEPT !.on = FALSE] \in Key
      /\ [vault[d] EXCEPT !.on = FALSE].kind = "session"
      /\ [vault[d] EXCEPT !.on = FALSE].inst = vault[d].inst
      /\ [vault[d] EXCEPT !.on = FALSE].on = FALSE
  BY <1>1, <1>2 DEF Key
<1>5. /\ vault' \in [Entries -> Key]
      /\ \A e \in Entries : vault'[e].kind = vault[e].kind /\ vault'[e].inst = vault[e].inst
      /\ \A e \in Entries : e # d => vault'[e] = vault[e]
      /\ vault'[d].on = FALSE
  BY <1>0, <1>1, <1>2, <1>3, <1>4
<1>6. FormOK(c) /\ ~Makes(c) /\ ~Granted(c) /\ ~Keeps(c)
  BY <1>1 DEF FormOK, Makes, Granted, Keeps
<1>7. TableKept /\ TableVaultAgree'
  BY <1>0, <1>5, TableStays, AgreeKept
<1>8. \A x \in alloc \ reneg : /\ vault'[table[x]].inst = vault[table[x]].inst
                               /\ vault'[table[x]].on => vault[table[x]].on
  BY <1>0, <1>5 DEF TableVaultAgree, SessionEntries
<1>9. ASSUME NEW x \in Tags, HeldIn(vault, cmd[x]) PROVE HeldIn(vault', cmd[x])
  <2>1. Keeps(cmd[x]) => cmd[x].entry \in Entries
    BY <1>0 DEF ShapeOK, Cmd, Keeps
  <2> QED BY <1>1, <1>2, <1>5, <1>9, <2>1 DEF HeldIn
<1>10. \A e \in Entries : vault'[e].kind = "own" =>
               /\ vault[e].kind = "own" /\ vault'[e].id = vault[e].id
               /\ vault'[e].inst = vault[e].inst
  BY <1>1, <1>2, <1>5
<1>11. HeldIn(vault', c) /\ cred' \in BOOLEAN /\ leaked' \subseteq Entries
  BY <1>0, <1>6 DEF HeldIn, ShapeOK
<1>12. ~vault'[table[c.id]].on
  BY <1>2, <1>5
<1> QED BY <1>1, <1>5, <1>6, <1>7, <1>8, <1>9, <1>10, <1>11, <1>12, StepKeeps

LEMMA CloseStarts ==
    ASSUME SessionsInv, Orderly, NEW t \in Tags, NEW kind, NEW s \in Ids, StartClose(t, kind, s)
    PROVE  SessionsInv'
<1>0. ShapeOK /\ FormsOK
  BY DEF SessionsInv
<1>1. /\ kind \in {"Close", "Flush"} /\ HasSession(s, TRUE) /\ Unencumbered(s)
      /\ vault' = Invalidated(s) /\ UNCHANGED <<enabled, cred, tableVars, leaked>>
  BY DEF StartClose, partVars, history
<1>2. PICK st \in {"Wait", "Fp", "Out"} :
        \/ cmd' = [cmd EXCEPT ![t] = [[Idle EXCEPT !.kind = kind, !.id = s] EXCEPT !.st = st]]
        \/ cmd' = [cmd EXCEPT ![t] = [[Idle EXCEPT !.kind = kind, !.id = s] EXCEPT !.st = st, !.ok = FALSE]]
  BY DEF StartClose, Send
<1> DEFINE c == Fresh(st, kind, s, 0, 0, 0, FALSE)
<1>3. cmd'[t] = c /\ \A x \in Tags \ {t} : cmd'[x] = cmd[x]
  <2>1. CASE cmd' = [cmd EXCEPT ![t] = [[Idle EXCEPT !.kind = kind, !.id = s] EXCEPT !.st = st]]
    BY <1>0, <2>1 DEF Idle, Fresh, ShapeOK
  <2>2. CASE cmd' = [cmd EXCEPT ![t] = [[Idle EXCEPT !.kind = kind, !.id = s] EXCEPT !.st = st, !.ok = FALSE]]
    BY <1>0, <2>2 DEF Idle, Fresh, ShapeOK
  <2> QED BY <1>2, <2>1, <2>2
<1>4. c \in Cmd
  BY <1>1, NamesAssumption DEF Fresh, Cmd, Kinds
<1>5. Moved(t, c)
  <2>1. DOMAIN cmd' = Tags /\ cmd' = [x \in Tags |-> cmd'[x]]
    BY <1>0, <1>2 DEF ShapeOK
  <2>2. \A x \in Tags : cmd'[x] \in Cmd
    BY <1>0, <1>3, <1>4 DEF ShapeOK
  <2> QED BY <1>3, <2>1, <2>2 DEF Moved
<1>6. ASSUME NEW x \in Tags \ {t}, cmd[x].id = s
      PROVE  ~Granted(cmd[x]) /\ ~Closes(cmd[x]) /\ ~Makes(cmd[x])
  <2>1. ~InFlight(x) \/ cmd[x].kind = "Sign"
    BY <1>1, <1>6 DEF Unencumbered
  <2>2. FormOK(cmd[x])
    BY <1>0 DEF FormsOK
  <2> QED BY <2>1, <2>2 DEF InFlight, FormOK, Idle, Granted, Closes, Makes
<1>7. /\ c.kind \in {"Close", "Flush"} /\ c.id = s /\ c.entry = 0 /\ c.ok = FALSE
      /\ c.st \in {"Wait", "Fp", "Out"}
  BY <1>1 DEF Fresh
<1> HIDE DEF c
<1> QED BY <1>1, <1>5, <1>6, <1>7, CloseJoins

LEMMA CloseResumes ==
    ASSUME SessionsInv, NEW t \in Tags, Resume(t)
    PROVE  SessionsInv'
<1>0. /\ ShapeOK /\ FormOK(cmd[t]) /\ OffEmpty /\ ClosingAlone /\ GrantedAlone
      /\ cmd[t] \in Cmd
  BY DEF SessionsInv, FormsOK, ShapeOK
<1>1. cmd[t].st = "Wait" /\ UNCHANGED <<enabled, cred, tableVars, leaked, nonce>>
  BY DEF Resume, partVars, nonceVars, history
<1>2. CASE ~HasSession(cmd[t].id, TRUE)
  <2>1. ToOut(t, FALSE) /\ UNCHANGED vault
    BY <1>2 DEF Resume
  <2>2. cred' \in BOOLEAN /\ (~enabled => cred' = FALSE)
    BY <1>0, <1>1 DEF ShapeOK, OffEmpty
  <2> QED BY <1>1, <2>1, <2>2, FailKeeps
<1>3. CASE HasSession(cmd[t].id, TRUE)
  <2>1. vault' = Invalidated(cmd[t].id)
    BY <1>3 DEF Resume
  <2>2. PICK st \in {"Fp", "Out"} :
          \/ cmd' = [cmd EXCEPT ![t] = [cmd[t] EXCEPT !.st = st]]
          \/ cmd' = [cmd EXCEPT ![t] = [cmd[t] EXCEPT !.st = st, !.ok = FALSE]]
    BY <1>3 DEF Resume, Send
  <2>3. PICK c : c = cmd'[t]
    OBVIOUS
  <2>4. /\ Moved(t, c) /\ c.st = st /\ c.kind = cmd[t].kind /\ c.id = cmd[t].id
        /\ c.entry = cmd[t].entry /\ c.ok \in {FALSE, cmd[t].ok}
    <3>1. CASE cmd' = [cmd EXCEPT ![t] = [cmd[t] EXCEPT !.st = st]]
      BY <1>0, <2>3, <3>1 DEF ShapeOK, Moved, Cmd
    <3>2. CASE cmd' = [cmd EXCEPT ![t] = [cmd[t] EXCEPT !.st = st, !.ok = FALSE]]
      BY <1>0, <2>3, <3>2 DEF ShapeOK, Moved, Cmd
    <3> QED BY <2>2, <3>1, <3>2
  <2>5. c.kind \in {"Close", "Flush"} /\ c.entry = 0 /\ c.ok = FALSE
    BY <1>0, <1>1, <2>4 DEF FormOK, Cmd
  <2>6. enabled /\ Closes(cmd[t])
    BY <1>1, <1>3, ValidHas DEF HasSession, Closes
  <2>7. \A x \in Tags \ {t} : cmd[x].id = cmd[t].id =>
           ~Granted(cmd[x]) /\ ~Closes(cmd[x]) /\ ~Makes(cmd[x])
    BY <1>0, <2>6 DEF ClosingAlone, GrantedAlone
  <2> QED BY <1>1, <1>3, <2>1, <2>4, <2>5, <2>7, CloseJoins
<1> QED BY <1>2, <1>3

LEMMA ClosedAtOnce ==
    ASSUME SessionsInv, NEW t \in Tags, NEW kind \in {"Close", "Flush"}, NEW s \in Ids,
           CloseAtOnce(t, kind, s)
    PROVE  SessionsInv'
<1>0. ShapeOK /\ TableVaultAgree
  BY DEF SessionsInv
<1>1. /\ NeedsRenegotiation(s) \/ ~HasSession(s, TRUE)
      /\ enabled /\ DeleteId(s)
      /\ cmd' = [cmd EXCEPT ![t] = [Idle EXCEPT !.st = "Out", !.kind = kind, !.id = s, !.ok = TRUE]]
      /\ UNCHANGED <<enabled, cred, vault, leaked>>
  BY DEF CloseAtOnce, Begin, Closing, partVars
<1>2. ~Valid(s)
  BY <1>1, ValidHas DEF NeedsRenegotiation, Valid
<1>3. TableKept
  BY <1>0, <1>1, <1>2 DEF ShapeOK, DeleteId, TableKept, Valid
<1>4. TableVaultAgree'
  <2>1. SessionEntries' = SessionEntries
    BY <1>1 DEF SessionEntries
  <2> QED BY <1>0, <1>1, <1>3, <2>1 DEF TableVaultAgree, TableKept
<1> DEFINE c == Fresh("Out", kind, s, 0, 0, 0, TRUE)
<1>5. Moved(t, c)
  <2>1. cmd'[t] = c
    BY <1>0, <1>1 DEF ShapeOK, Idle, Fresh
  <2>2. c \in Cmd
    BY NamesAssumption DEF Fresh, Cmd, Kinds
  <2> QED BY <1>0, <1>1, <2>1, <2>2 DEF Moved, ShapeOK
<1>6. FormOK(c) /\ ~Keeps(c) /\ ~Makes(c) /\ ~Granted(c) /\ ~Closes(c) /\ HeldIn(vault', c)
  BY DEF FormOK, Fresh, Keeps, Makes, Granted, Closes, HeldIn
<1>7. vault' \in [Entries -> Key] /\ cred' \in BOOLEAN /\ leaked' \subseteq Entries /\ vault' = vault
  BY <1>0, <1>1 DEF ShapeOK
<1> HIDE DEF c
<1> QED BY <1>1, <1>3, <1>4, <1>5, <1>6, <1>7, StepKeeps

(* An import finds a free entry, and names it as no other *)
LEMMA RoomFound ==
    ASSUME HasRoom
    PROVE  FreeEntry \in Entries /\ vault[FreeEntry].kind = "free"
<1> DEFINE S == {e \in Entries : vault[e].kind = "free"}
<1>1. S # {} /\ S \subseteq Nat
  BY TablesAssumption DEF HasRoom
<1>2. Min(S) \in S
  BY <1>1, MinIn
<1> QED BY <1>2 DEF FreeEntry

LEMMA NameFound == FreshInst \in Insts
<1> DEFINE V == {vault[e].inst : e \in Entries}
           C == {cmd[t].inst : t \in Tags}
<1>1. IsFiniteSet(V) /\ Cardinality(V) <= Cardinality(Entries)
  <2> DEFINE f == [e \in Entries |-> vault[e].inst]
  <2>1. f \in Surjection(Entries, V)
    BY DEF Surjection
  <2>2. IsFiniteSet(Entries)
    BY TablesAssumption
  <2> QED BY <2>1, <2>2, FS_Surjection
<1>2. IsFiniteSet(C) /\ Cardinality(C) <= Cardinality(Tags)
  <2> DEFINE f == [t \in Tags |-> cmd[t].inst]
  <2>1. f \in Surjection(Tags, C)
    BY DEF Surjection
  <2>2. IsFiniteSet(Tags)
    BY CommandsAssumption
  <2> QED BY <2>1, <2>2, FS_Surjection
<1>3. /\ IsFiniteSet(V \cup C)
      /\ Cardinality(V \cup C) = Cardinality(V) + Cardinality(C) - Cardinality(V \cap C)
  BY <1>1, <1>2, FS_Union
<1>4. IsFiniteSet(V \cap C)
  BY <1>1, FS_Subset
<1>5. /\ Cardinality(V) \in Nat /\ Cardinality(C) \in Nat /\ Cardinality(V \cap C) \in Nat
      /\ Cardinality(V \cup C) \in Nat /\ Cardinality(Entries) \in Nat
      /\ Cardinality(Tags) \in Nat /\ Cardinality(Insts) \in Nat
  BY <1>1, <1>2, <1>3, <1>4, FS_CardinalityType, TablesAssumption, CommandsAssumption, NamesAssumption
<1>6. Cardinality(Insts) > Cardinality(Tags) + Cardinality(Entries)
  BY NamesAssumption
<1>7. Insts \subseteq V \cup C => Cardinality(Insts) <= Cardinality(V \cup C)
  BY <1>3, FS_Subset
<1>8. ~(Insts \subseteq V \cup C)
  <2> HIDE DEF V, C
  <2> QED BY <1>1, <1>2, <1>3, <1>5, <1>6, <1>7
<1>9. Insts \ (V \cup C) # {} /\ Insts \ (V \cup C) \subseteq Nat
  BY <1>8, NamesAssumption
<1>10. Min(Insts \ (V \cup C)) \in Insts \ (V \cup C)
  BY <1>9, MinIn
<1> QED BY <1>10 DEF FreshInst

LEMMA ImportIs ==
    ASSUME SessionsInv, HasRoom, vault' = Imported
    PROVE  \E e \in Entries :
             /\ e = FreeEntry /\ vault[e].kind = "free" /\ vault'[e].kind = "session"
             /\ vault' \in [Entries -> Key]
             /\ \A x \in Entries \ {e} : vault'[x] = vault[x]
<1>1. PICK e \in Entries : e = FreeEntry /\ vault[e].kind = "free"
  BY RoomFound
<1>2. vault \in [Entries -> Key]
  BY DEF SessionsInv, ShapeOK
<1> DEFINE k == [kind |-> "session", id |-> NoId, inst |-> FreshInst, on |-> TRUE]
<1>3. k \in Key /\ k.kind = "session"
  BY NameFound DEF Key
<1>4. vault' = [vault EXCEPT ![e] = k]
  BY <1>1 DEF Imported
<1> QED BY <1>1, <1>2, <1>3, <1>4

(* The import and the id of an open make a session *)
LEMMA SessionJoins ==
    ASSUME SessionsInv, enabled, NEW s \in Ids, ~Valid(s), HasRoom, vault' = Imported,
           NEW t \in Tags, NEW c, FormOK(c), Moved(t, c), c.id = s,
           ~Closes(c), ~Makes(c), ~Keeps(c), UNCHANGED <<enabled, leaked>>, cred' \in BOOLEAN,
           alloc' \subseteq Ids, reneg' \subseteq alloc', alloc' \ reneg' = (alloc \ reneg) \cup {s},
           table' = [table EXCEPT ![s] = FreeEntry]
    PROVE  SessionsInv'
<1>0. /\ ShapeOK /\ FormsOK /\ OffEmpty /\ KeysHeld /\ MakersApart /\ MakersLive
      /\ GrantedAlone /\ ClosingAlone /\ TableVaultAgree /\ KeysOfOwnSession
  BY DEF SessionsInv
<1>1. cmd'[t] = c /\ (\A x \in Tags \ {t} : cmd'[x] = cmd[x]) /\ cmd' \in [Tags -> Cmd]
  BY DEF Moved
<1>2. PICK d \in Entries : /\ d = FreeEntry /\ vault[d].kind = "free" /\ vault'[d].kind = "session"
                           /\ vault' \in [Entries -> Key]
                           /\ \A x \in Entries \ {d} : vault'[x] = vault[x]
  BY ImportIs
<1>3. table' = [table EXCEPT ![s] = d]
  BY <1>2
<1>4. \A x \in Ids : Valid(x) => /\ x # s /\ x \in alloc' \ reneg' /\ table'[x] = table[x]
                                 /\ table[x] \in Entries /\ table[x] # d
                                 /\ vault'[table'[x]] = vault[table[x]]
  BY <1>0, <1>2, <1>3 DEF Valid, TableVaultAgree, SessionEntries, ShapeOK
<1>5. SessionEntries' = SessionEntries \cup {d}
  BY <1>2 DEF SessionEntries
<1>6. ShapeOK'
  BY <1>0, <1>1, <1>2, <1>3 DEF ShapeOK
<1>7. TableVaultAgree'
  <2>1. d \notin SessionEntries /\ SessionEntries = {table[x] : x \in alloc \ reneg} \cup leaked
        /\ \A x \in alloc \ reneg : x \in Ids /\ table[x] \in SessionEntries
    BY <1>0, <1>2 DEF TableVaultAgree, SessionEntries, ShapeOK
  <2>2. \A x \in alloc \ reneg : table'[x] = table[x]
    BY <1>4, <2>1 DEF Valid
  <2>3. table'[s] = d
    BY <1>0, <1>3 DEF ShapeOK
  <2>4. \A x \in alloc' \ reneg' : table'[x] \in SessionEntries'
    BY <1>5, <2>1, <2>2, <2>3
  <2>5. \A x, y \in alloc' \ reneg' : table'[x] = table'[y] => x = y
    BY <1>0, <2>1, <2>2, <2>3 DEF TableVaultAgree
  <2>6. {table'[x] : x \in alloc' \ reneg'} = {table[x] : x \in alloc \ reneg} \cup {d}
    BY <2>2, <2>3
  <2> QED BY <1>5, <2>1, <2>4, <2>5, <2>6 DEF TableVaultAgree
<1>8. FormsOK' /\ OffEmpty'
  BY <1>0, <1>1, <1>2 DEF FormsOK, OffEmpty
<1>9. KeysHeld'
  <2> SUFFICES ASSUME NEW x \in Tags, Keeps(cmd'[x])
               PROVE  vault'[cmd'[x].entry].kind = "own" /\ vault'[cmd'[x].entry].id = cmd'[x].id
    BY DEF KeysHeld, HeldIn
  <2>1. x # t /\ cmd'[x] = cmd[x]
    BY <1>1
  <2>2. PICK e \in Entries : e = cmd[x].entry
    BY <1>0, <2>1 DEF ShapeOK, Cmd, Keeps
  <2>3. vault[e].kind = "own" /\ vault[e].id = cmd[x].id
    BY <1>0, <2>1, <2>2 DEF KeysHeld, HeldIn
  <2> QED BY <1>2, <2>1, <2>2, <2>3
<1>10. MakersApart'
  BY <1>0, <1>1 DEF MakersApart
<1>11. MakersLive'
  <2> SUFFICES ASSUME NEW x \in Tags, Makes(cmd'[x])
               PROVE  /\ cmd'[x].id \in alloc' \ reneg'
                      /\ cmd'[x].st = "Gen" => cmd'[x].inst = vault'[table'[cmd'[x].id]].inst
    BY DEF MakersLive, Valid
  <2>1. x # t /\ cmd'[x] = cmd[x] /\ Makes(cmd[x])
    BY <1>1
  <2>2. cmd[x].id \in Ids
    BY <1>0, <2>1 DEF FormsOK, FormOK, Makes
  <2>3. Valid(cmd[x].id) /\ (cmd[x].st = "Gen" => cmd[x].inst = vault[table[cmd[x].id]].inst)
    BY <1>0, <2>1 DEF MakersLive
  <2> QED BY <1>4, <2>1, <2>2, <2>3
<1>12. \A x : Owned(x)' = Owned(x)
  BY <1>2 DEF Owned
<1>13. \A x \in Tags : Granted(cmd[x]) \/ Closes(cmd[x]) \/ Makes(cmd[x]) => cmd[x].id # s
  BY <1>0 DEF GrantedAlone, ClosingAlone, MakersLive
<1>14. Owned(s) = {}
  BY <1>0 DEF KeysOfOwnSession, Owned
<1>15. GrantedAlone'
  <2> SUFFICES ASSUME NEW x \in Tags, Granted(cmd'[x])
               PROVE  /\ cmd'[x].id \in alloc' \ reneg' /\ Owned(cmd[x].id)' = {}
                      /\ \A y \in Tags \ {x} : cmd'[y].id = cmd'[x].id =>
                           ~Granted(cmd'[y]) /\ ~Closes(cmd'[y]) /\ ~Makes(cmd'[y])
    BY DEF GrantedAlone, Valid
  <2>1. CASE x = t
    <3>1. cmd'[x].id = s
      BY <1>1, <2>1
    <3>2. Owned(cmd[x].id)' = {}
      BY <1>2, <1>14, <3>1 DEF Owned
    <3> QED BY <1>1, <1>13, <2>1, <3>1, <3>2
  <2>2. CASE x # t
    <3>1. cmd'[x] = cmd[x] /\ Granted(cmd[x])
      BY <1>1, <2>2
    <3>2. /\ Valid(cmd[x].id) /\ Owned(cmd[x].id) = {} /\ cmd[x].id \in Ids /\ cmd[x].id # s
          /\ \A y \in Tags \ {x} : cmd[y].id = cmd[x].id =>
             ~Granted(cmd[y]) /\ ~Closes(cmd[y]) /\ ~Makes(cmd[y])
      BY <1>0, <1>13, <3>1 DEF GrantedAlone, FormsOK, FormOK, Granted
    <3>3. cmd'[x].id \in alloc' \ reneg' /\ Owned(cmd[x].id)' = {}
      BY <1>2, <1>4, <3>1, <3>2 DEF Owned
    <3> QED BY <1>1, <3>1, <3>2, <3>3
  <2> QED BY <2>1, <2>2
<1>16. ClosingAlone'
  <2> SUFFICES ASSUME NEW x \in Tags, Closes(cmd'[x])
               PROVE  /\ cmd'[x].id \in alloc' \ reneg' /\ ~vault'[table'[cmd'[x].id]].on
                      /\ \A y \in Tags \ {x} : cmd'[y].id = cmd'[x].id =>
                           ~Closes(cmd'[y]) /\ ~Makes(cmd'[y])
    BY DEF ClosingAlone, Valid
  <2>1. x # t /\ cmd'[x] = cmd[x] /\ Closes(cmd[x])
    BY <1>1
  <2>2. /\ Valid(cmd[x].id) /\ ~vault[table[cmd[x].id]].on
        /\ \A y \in Tags \ {x} : cmd[y].id = cmd[x].id => ~Closes(cmd[y]) /\ ~Makes(cmd[y])
    BY <1>0, <2>1 DEF ClosingAlone
  <2>3. cmd[x].id \in Ids
    BY <1>0, <2>2 DEF Valid, ShapeOK
  <2> QED BY <1>1, <1>4, <2>1, <2>2, <2>3
<1>17. KeysOfOwnSession'
  <2> SUFFICES ASSUME NEW e \in Entries, vault'[e].kind = "own"
               PROVE  /\ vault'[e].id \in alloc' \ reneg'
                      /\ vault'[table'[vault'[e].id]].inst = vault'[e].inst
    BY DEF KeysOfOwnSession, Valid
  <2>1. vault'[e] = vault[e]
    BY <1>2
  <2>2. Valid(vault[e].id) /\ vault[table[vault[e].id]].inst = vault[e].inst /\ vault[e].id \in Ids
    BY <1>0, <2>1 DEF KeysOfOwnSession, Valid, ShapeOK
  <2> QED BY <1>4, <2>1, <2>2
<1> QED BY <1>6, <1>7, <1>8, <1>9, <1>10, <1>11, <1>15, <1>16, <1>17 DEF SessionsInv

LEMMA OpenEnds ==
    ASSUME SessionsInv, NEW t \in Tags, EndOpen(t)
    PROVE  SessionsInv'
<1>0. ShapeOK /\ FormOK(cmd[t]) /\ cmd[t] \in Cmd
  BY DEF SessionsInv, FormsOK, ShapeOK
<1>1. PICK s : s = Min(Ids \ alloc)
  OBVIOUS
<1>2. /\ cmd[t].st = "Ecdh" /\ cmd[t].kind = "Open" /\ AcceptNonce(t)
      /\ HasRoom /\ vault' = Imported /\ alloc # Ids
      /\ alloc' = alloc \cup {s} /\ table' = [table EXCEPT ![s] = FreeEntry]
      /\ cmd' = [cmd EXCEPT ![t].st = "Out", ![t].ok = TRUE, ![t].nonce = 0, ![t].id = s]
      /\ UNCHANGED <<enabled, cred, reneg, leaked>>
  BY <1>1 DEF EndOpen, Ending, Reopens, partVars
<1>3. enabled
  BY <1>2, AcceptedOn
<1>4. s \in Ids \ alloc
  <2>1. Ids \ alloc # {} /\ Ids \ alloc \subseteq Nat
    BY <1>0, <1>2, TablesAssumption DEF ShapeOK
  <2> QED BY <1>1, <2>1, MinIn
<1>5. PICK c : c = cmd'[t]
  OBVIOUS
<1>6. /\ c.st = "Out" /\ c.kind = "Open" /\ c.id = s /\ c.entry = cmd[t].entry /\ c.ok = TRUE
  BY <1>0, <1>2, <1>5 DEF ShapeOK, Cmd
<1>7. Moved(t, c)
  BY <1>0, <1>2, <1>4, <1>5, NamesAssumption DEF ShapeOK, Cmd, Moved
<1>8. FormOK(c) /\ ~Closes(c) /\ ~Makes(c) /\ ~Keeps(c)
  BY <1>0, <1>2, <1>4, <1>6 DEF FormOK, Closes, Makes, Keeps
<1>9. /\ ~Valid(s) /\ alloc' \subseteq Ids /\ reneg' \subseteq alloc' /\ cred' \in BOOLEAN
      /\ alloc' \ reneg' = (alloc \ reneg) \cup {s} /\ s \in Ids
  BY <1>0, <1>2, <1>4 DEF ShapeOK, Valid
<1> QED BY <1>2, <1>3, <1>6, <1>7, <1>8, <1>9, SessionJoins

LEMMA ReopenEnds ==
    ASSUME SessionsInv, NEW t \in Tags, EndReopen(t)
    PROVE  SessionsInv'
<1>0. ShapeOK /\ FormOK(cmd[t]) /\ cmd[t] \in Cmd /\ TableVaultAgree /\ KeysHeld
  BY DEF SessionsInv, FormsOK, ShapeOK
<1>1. PICK s : s = cmd[t].id
  OBVIOUS
<1>2. /\ cmd[t].st = "Ecdh" /\ cmd[t].kind = "Reopen" /\ AcceptNonce(t)
      /\ HasRoom /\ vault' = Imported
      /\ UNCHANGED <<enabled, cred, alloc>>
  BY DEF EndReopen, Ending, Reopens, partVars
<1>3. enabled /\ s \in Ids /\ cred' \in BOOLEAN
  BY <1>0, <1>1, <1>2, AcceptedOn DEF FormOK, ShapeOK
<1>4. CASE NeedsRenegotiation(s)
  <2>1. /\ reneg' = reneg \ {s} /\ table' = [table EXCEPT ![s] = FreeEntry]
        /\ ToOut(t, TRUE) /\ UNCHANGED leaked
    BY <1>1, <1>4 DEF EndReopen
  <2> DEFINE c == OutOf(cmd[t], TRUE)
  <2>2. Moved(t, c) /\ FormOK(c) /\ c.id = s
    BY <1>0, <1>1, <1>2, <2>1, OutIs DEF ShapeOK, FormOK, OutOf
  <2>3. ~Closes(c) /\ ~Makes(c) /\ ~Keeps(c)
    BY <1>0, <1>2 DEF FormOK, OutOf, Closes, Makes, Keeps
  <2>4. /\ ~Valid(s) /\ alloc' \subseteq Ids /\ reneg' \subseteq alloc'
        /\ alloc' \ reneg' = (alloc \ reneg) \cup {s}
    BY <1>0, <1>2, <1>4, <2>1 DEF ShapeOK, Valid, NeedsRenegotiation
  <2> HIDE DEF c
  <2> QED BY <1>2, <1>3, <2>1, <2>2, <2>3, <2>4, SessionJoins
<1>5. CASE ~NeedsRenegotiation(s)
  <2>1. leaked' = leaked \cup {FreeEntry} /\ ToOut(t, FALSE) /\ UNCHANGED <<reneg, table>>
    BY <1>1, <1>5 DEF EndReopen
  <2>2. PICK d \in Entries : /\ d = FreeEntry /\ vault[d].kind = "free" /\ vault'[d].kind = "session"
                             /\ vault' \in [Entries -> Key]
                             /\ \A x \in Entries \ {d} : vault'[x] = vault[x]
    BY <1>2, ImportIs
  <2> DEFINE c == OutOf(cmd[t], FALSE)
  <2>3. Moved(t, c) /\ FormOK(c)
    BY <1>0, <1>2, <2>1, OutIs DEF ShapeOK, FormOK, OutOf
  <2>4. ~Closes(c) /\ ~Makes(c) /\ ~Granted(c) /\ ~Keeps(c)
    BY <1>0, <1>2 DEF FormOK, OutOf, Closes, Makes, Granted, Keeps
  <2>5. TableKept
    BY <1>0, <1>2, <2>1, TableStays DEF tableVars
  <2>6. \A x \in alloc \ reneg : table[x] \in Entries \ {d} /\ vault'[table[x]] = vault[table[x]]
    BY <1>0, <2>2 DEF TableVaultAgree, SessionEntries
  <2>7. TableVaultAgree'
    <3>1. SessionEntries' = SessionEntries \cup {d}
      BY <2>2 DEF SessionEntries
    <3> QED BY <1>0, <1>2, <2>1, <2>2, <3>1 DEF TableVaultAgree
  <2>8. ASSUME NEW x \in Tags, HeldIn(vault, cmd[x]) PROVE HeldIn(vault', cmd[x])
    <3>1. Keeps(cmd[x]) => cmd[x].entry \in Entries
      BY <1>0 DEF ShapeOK, Cmd, Keeps
    <3> QED BY <2>2, <2>8, <3>1 DEF HeldIn
  <2>9. /\ \A e \in Entries : vault'[e].kind = "own" => vault'[e] = vault[e]
        /\ leaked' \subseteq Entries /\ HeldIn(vault', c)
    BY <1>0, <2>1, <2>2, <2>4 DEF ShapeOK, HeldIn
  <2> HIDE DEF c
  <2> QED BY <1>2, <1>3, <2>2, <2>3, <2>4, <2>5, <2>6, <2>7, <2>8, <2>9, StepKeeps
<1> QED BY <1>4, <1>5

(* The key a command has generated becomes one of its session *)
LEMMA GenEnds ==
    ASSUME SessionsInv, NEW t \in Tags, GenDone(t)
    PROVE  SessionsInv'
<1>0. /\ ShapeOK /\ FormsOK /\ OffEmpty /\ KeysHeld /\ MakersApart /\ MakersLive
      /\ GrantedAlone /\ ClosingAlone /\ TableVaultAgree /\ KeysOfOwnSession
      /\ cmd[t] \in Cmd /\ FormOK(cmd[t]) /\ vault \in [Entries -> Key]
  BY DEF SessionsInv, FormsOK, ShapeOK
<1>1. cmd[t].st = "Gen" /\ UNCHANGED <<enabled, cred, tableVars, leaked>>
  BY DEF GenDone, partVars, history
<1>2. Makes(cmd[t]) /\ enabled /\ cmd[t].id \in Ids
  BY <1>0, <1>1, MakerFacts DEF Makes, FormOK
<1>3. CASE ToOut(t, FALSE) /\ UNCHANGED vault
  BY <1>0, <1>1, <1>2, <1>3, FailKeeps DEF ShapeOK
<1>4. CASE /\ HasRoom /\ vault' = [vault EXCEPT ![FreeEntry] = OwnKey(cmd[t].id, cmd[t].inst)]
           /\ cmd' = [cmd EXCEPT ![t].st = "Pct", ![t].entry = FreeEntry]
  <2>1. PICK d \in Entries : d = FreeEntry /\ vault[d].kind = "free"
    BY <1>4, RoomFound
  <2>2. PICK s \in Ids : s = cmd[t].id
    BY <1>2
  <2>3. PICK k : k = OwnKey(cmd[t].id, cmd[t].inst)
    OBVIOUS
  <2>4. k \in Key /\ k.kind = "own" /\ k.id = s /\ k.inst = cmd[t].inst
    BY <1>0, <2>2, <2>3 DEF OwnKey, Key, Cmd
  <2>5. /\ vault' \in [Entries -> Key] /\ vault'[d] = k
        /\ \A x \in Entries \ {d} : vault'[x] = vault[x]
    BY <1>0, <1>4, <2>1, <2>3, <2>4
  <2>6. PICK c : c = cmd'[t]
    OBVIOUS
  <2>7. /\ cmd' \in [Tags -> Cmd] /\ \A x \in Tags \ {t} : cmd'[x] = cmd[x]
        /\ c.st = "Pct" /\ c.entry = d /\ c.kind = cmd[t].kind /\ c.id = s /\ c.ok = cmd[t].ok
    BY <1>0, <1>4, <2>1, <2>2, <2>6 DEF ShapeOK, Cmd
  <2>8. FormOK(c) /\ Makes(c) /\ ~Granted(c) /\ ~Closes(c)
    BY <1>0, <1>1, <1>2, <2>2, <2>7 DEF FormOK, Makes, Granted, Closes
  <2>9. UNCHANGED <<alloc, reneg, table>>
    BY <1>1 DEF tableVars
  <2>10. Valid(s) /\ cmd[t].inst = vault[table[s]].inst
    BY <1>0, <1>1, <1>2, <2>2 DEF MakersLive
  <2>11. \A x \in Ids : Valid(x) => /\ table[x] \in Entries \ {d} /\ vault'[table[x]] = vault[table[x]]
    BY <1>0, <2>1, <2>5 DEF TableVaultAgree, SessionEntries, Valid
  <2>12. SessionEntries' = SessionEntries
    BY <2>1, <2>4, <2>5 DEF SessionEntries
  <2>13. TableVaultAgree'
    BY <1>0, <1>1, <2>9, <2>12 DEF TableVaultAgree
  <2>14. ShapeOK' /\ FormsOK' /\ OffEmpty'
    BY <1>0, <1>1, <1>2, <2>5, <2>6, <2>7, <2>8, <2>9 DEF ShapeOK, FormsOK, OffEmpty
  <2>15. ASSUME NEW x \in Tags, Keeps(cmd[x])
         PROVE  /\ cmd[x].entry \in Entries \ {d} /\ vault[cmd[x].entry].kind = "own"
                /\ vault'[cmd[x].entry] = vault[cmd[x].entry] /\ vault[cmd[x].entry].id = cmd[x].id
    <3>1. cmd[x].entry \in Entries
      BY <1>0, <2>15 DEF ShapeOK, Cmd, Keeps
    <3>2. vault[cmd[x].entry].kind = "own" /\ vault[cmd[x].entry].id = cmd[x].id
      BY <1>0, <1>2, <2>15 DEF KeysHeld, HeldIn
    <3> QED BY <2>1, <2>5, <3>1, <3>2
  <2>16. KeysHeld'
    <3> SUFFICES ASSUME NEW x \in Tags, Keeps(cmd'[x])
                 PROVE  vault'[cmd'[x].entry].kind = "own" /\ vault'[cmd'[x].entry].id = cmd'[x].id
      BY DEF KeysHeld, HeldIn
    <3>1. CASE x = t
      BY <2>4, <2>5, <2>6, <2>7, <3>1
    <3>2. CASE x # t
      BY <2>7, <2>15, <3>2
    <3> QED BY <3>1, <3>2
  <2>17. MakersApart'
    <3>1. \A x \in Tags : Makes(cmd[x]) => cmd[x].entry # d
      BY <2>15, TablesAssumption DEF Keeps
    <3> QED BY <1>0, <2>6, <2>7, <3>1 DEF MakersApart
  <2>18. MakersLive'
    <3> SUFFICES ASSUME NEW x \in Tags, Makes(cmd'[x])
                 PROVE  /\ cmd'[x].id \in alloc \ reneg
                        /\ cmd'[x].st = "Gen" => cmd'[x].inst = vault'[table[cmd'[x].id]].inst
      BY <2>9 DEF MakersLive, Valid
    <3>1. CASE x = t
      BY <2>6, <2>7, <2>10, <3>1 DEF Valid
    <3>2. CASE x # t
      <4>1. cmd'[x] = cmd[x] /\ Makes(cmd[x])
        BY <2>7, <3>2
      <4>2. cmd[x].id \in Ids /\ Valid(cmd[x].id)
            /\ (cmd[x].st = "Gen" => cmd[x].inst = vault[table[cmd[x].id]].inst)
        BY <1>0, <4>1 DEF MakersLive, FormsOK, FormOK, Makes
      <4> QED BY <2>11, <4>1, <4>2 DEF Valid
    <3> QED BY <3>1, <3>2
  <2>19. GrantedAlone'
    <3> SUFFICES ASSUME NEW x \in Tags, Granted(cmd'[x])
                 PROVE  /\ cmd'[x].id \in alloc \ reneg /\ Owned(cmd[x].id)' = {}
                        /\ \A y \in Tags \ {x} : cmd'[y].id = cmd'[x].id =>
                             ~Granted(cmd'[y]) /\ ~Closes(cmd'[y]) /\ ~Makes(cmd'[y])
      BY <2>9 DEF GrantedAlone, Valid
    <3>1. x # t /\ cmd'[x] = cmd[x] /\ Granted(cmd[x])
      BY <2>6, <2>7, <2>8
    <3>2. /\ Valid(cmd[x].id) /\ Owned(cmd[x].id) = {} /\ cmd[x].id # s
          /\ \A y \in Tags \ {x} : cmd[y].id = cmd[x].id =>
             ~Granted(cmd[y]) /\ ~Closes(cmd[y]) /\ ~Makes(cmd[y])
      BY <1>0, <1>2, <2>2, <3>1 DEF GrantedAlone
    <3>3. Owned(cmd[x].id)' = {}
      BY <2>4, <2>5, <3>1, <3>2 DEF Owned
    <3> QED BY <2>6, <2>7, <2>8, <3>1, <3>2, <3>3 DEF Valid
  <2>20. ClosingAlone'
    <3> SUFFICES ASSUME NEW x \in Tags, Closes(cmd'[x])
                 PROVE  /\ cmd'[x].id \in alloc \ reneg /\ ~vault'[table[cmd'[x].id]].on
                        /\ \A y \in Tags \ {x} : cmd'[y].id = cmd'[x].id =>
                             ~Closes(cmd'[y]) /\ ~Makes(cmd'[y])
      BY <2>9 DEF ClosingAlone, Valid
    <3>1. x # t /\ cmd'[x] = cmd[x] /\ Closes(cmd[x])
      BY <2>6, <2>7, <2>8
    <3>2. /\ Valid(cmd[x].id) /\ ~vault[table[cmd[x].id]].on /\ cmd[x].id # s
          /\ \A y \in Tags \ {x} : cmd[y].id = cmd[x].id => ~Closes(cmd[y]) /\ ~Makes(cmd[y])
      BY <1>0, <1>2, <2>2, <3>1 DEF ClosingAlone
    <3>3. cmd[x].id \in Ids
      BY <1>0, <3>2 DEF Valid, ShapeOK
    <3> QED BY <2>6, <2>7, <2>11, <3>1, <3>2, <3>3 DEF Valid
  <2>21. KeysOfOwnSession'
    <3> SUFFICES ASSUME NEW e \in Entries, vault'[e].kind = "own"
                 PROVE  /\ vault'[e].id \in alloc \ reneg
                        /\ vault'[table[vault'[e].id]].inst = vault'[e].inst
      BY <2>9 DEF KeysOfOwnSession, Valid
    <3>1. CASE e = d
      BY <2>4, <2>5, <2>10, <2>11, <3>1 DEF Valid
    <3>2. CASE e # d
      <4>1. vault'[e] = vault[e]
        BY <2>5, <3>2
      <4>2. /\ Valid(vault[e].id) /\ vault[table[vault[e].id]].inst = vault[e].inst
            /\ vault[e].id \in Ids
        BY <1>0, <4>1 DEF KeysOfOwnSession, Valid, ShapeOK
      <4> QED BY <2>11, <4>1, <4>2 DEF Valid
    <3> QED BY <3>1, <3>2
  <2> QED BY <2>13, <2>14, <2>16, <2>17, <2>18, <2>19, <2>20, <2>21 DEF SessionsInv
<1> QED BY <1>3, <1>4 DEF GenDone

(* PartitionState::disable and Partition::reset *)
LEMMA Disabled ==
    ASSUME SessionsInv, Orderly, nonce \in Nonces, Disable \/ Reset
    PROVE  SessionsInv'
<1>0. ShapeOK /\ FormsOK
  BY DEF SessionsInv
<1>1. /\ Ceased /\ enabled' = FALSE /\ cred' = FALSE /\ leaked' = {} /\ UNCHANGED cmd
      /\ vault' = [e \in Entries |-> NoKey] /\ table' = [s \in Ids |-> 0]
      /\ alloc' = reneg' /\ alloc' \subseteq alloc /\ nonce' = FreshNonce
  BY DEF Disable, Reset, Wiped, Restore, ResetNonce
<1>2. NoKey \in Key /\ NoKey.kind = "free"
  BY DEF NoKey, Key
<1>3. ShapeOK'
  BY <1>0, <1>1, <1>2 DEF ShapeOK
<1>4. \A t \in Tags : cmd[t].kind # "Gen"
  BY <1>0, <1>1 DEF Ceased, InFlight, FormsOK, FormOK, Idle
<1>5. \A t \in Tags : ~Carries(t, FreshNonce)
  BY FreshIsFresh
<1>6. OffEmpty'
  BY <1>1, <1>4, <1>5 DEF OffEmpty, Carries
<1>7. FormsOK'
  BY <1>0, <1>1 DEF FormsOK
<1>8. KeysHeld' /\ GrantedAlone' /\ ClosingAlone'
  BY <1>1 DEF KeysHeld, GrantedAlone, ClosingAlone
<1>9. MakersApart' /\ MakersLive'
  BY <1>1, <1>4 DEF MakersApart, MakersLive, Makes
<1>10. TableVaultAgree' /\ KeysOfOwnSession'
  BY <1>1, <1>2 DEF TableVaultAgree, SessionEntries, KeysOfOwnSession
<1> QED BY <1>3, <1>6, <1>7, <1>8, <1>9, <1>10 DEF SessionsInv

(* Nothing is left, and nobody is at work *)
Vacant == /\ ShapeOK
          /\ \A t \in Tags : cmd[t] = Idle
          /\ \A e \in Entries : vault[e] = NoKey
          /\ alloc = reneg /\ leaked = {} /\ (enabled \/ ~cred)

LEMMA EmptyKeeps == Vacant => SessionsInv
<1> SUFFICES ASSUME Vacant PROVE SessionsInv
  OBVIOUS
<1> USE DEF Vacant
<1>1. /\ FormOK(Idle) /\ ~Keeps(Idle) /\ ~Makes(Idle) /\ ~Granted(Idle) /\ ~Closes(Idle)
      /\ Idle.kind # "Gen" /\ Idle.st # "Ecdh"
  BY DEF FormOK, Idle, Keeps, Makes, Granted, Closes
<1>2. FormsOK /\ OffEmpty
  BY <1>1 DEF FormsOK, OffEmpty, Carries
<1>3. KeysHeld /\ MakersApart /\ MakersLive /\ GrantedAlone /\ ClosingAlone
  BY <1>1 DEF KeysHeld, HeldIn, MakersApart, MakersLive, GrantedAlone, ClosingAlone
<1>4. TableVaultAgree /\ KeysOfOwnSession
  BY DEF TableVaultAgree, SessionEntries, KeysOfOwnSession, NoKey
<1> QED BY <1>2, <1>3, <1>4 DEF SessionsInv

LEMMA EnabledOrMigrated ==
    ASSUME SessionsInv, Orderly, Enable \/ Migrate
    PROVE  SessionsInv'
<1>0. ShapeOK /\ FormsOK /\ OffEmpty
  BY DEF SessionsInv
<1>1. NoneInFlight /\ UNCHANGED cmd /\ enabled' = TRUE
  BY <1>0 DEF Enable, Migrate, ShapeOK
<1>2. \A t \in Tags : cmd'[t] = Idle
  BY <1>0, <1>1 DEF NoneInFlight, InFlight, FormsOK, FormOK
<1>3. /\ \A e \in Entries : vault'[e] = NoKey
      /\ alloc' = reneg' /\ leaked' = {}
  <2>1. CASE Enable
    BY <1>0, <2>1 DEF Enable, OffEmpty, tableVars, history
  <2>2. CASE Migrate
    BY <2>2 DEF Migrate, Wiped, Restore
  <2> QED BY <2>1, <2>2
<1>4. ShapeOK'
  <2>1. CASE Enable
    BY <1>0, <2>1 DEF Enable, ShapeOK, tableVars, history
  <2>2. CASE Migrate
    <3>1. NoKey \in Key
      BY DEF NoKey, Key
    <3> QED BY <1>0, <2>2, <3>1 DEF Migrate, Wiped, Restore, ShapeOK
  <2> QED BY <2>1, <2>2
<1>5. (Vacant => SessionsInv)'
  BY EmptyKeeps, PTL
<1> QED BY <1>1, <1>2, <1>3, <1>4, <1>5 DEF Vacant

LEMMA NothingMoves ==
    ASSUME SessionsInv,
           UNCHANGED <<enabled, cred, tableVars, vault, cmd, nonce, leaked>>
    PROVE  SessionsInv'
<1>1. UNCHANGED <<enabled, cred, alloc, reneg, table, vault, cmd, nonce, leaked>>
  BY DEF tableVars
<1>2. ShapeOK' /\ FormsOK' /\ OffEmpty' /\ KeysHeld' /\ MakersApart'
  BY <1>1 DEF SessionsInv, ShapeOK, FormsOK, OffEmpty, KeysHeld, MakersApart, Carries
<1>3. MakersLive' /\ GrantedAlone' /\ ClosingAlone'
  BY <1>1 DEF SessionsInv, MakersLive, GrantedAlone, ClosingAlone, Valid, Owned
<1>4. TableVaultAgree' /\ KeysOfOwnSession'
  BY <1>1 DEF SessionsInv, TableVaultAgree, SessionEntries, KeysOfOwnSession, Valid
<1> QED BY <1>2, <1>3, <1>4 DEF SessionsInv

LEMMA SessionsInit == Init => SessionsInv
<1> SUFFICES ASSUME Init PROVE SessionsInv
  OBVIOUS
<1>1. ShapeOK
  BY NamesAssumption DEF Init, ShapeOK, NoKey, Key, Idle, Cmd, Kinds
<1>2. /\ \A t \in Tags : cmd[t] = Idle
      /\ \A e \in Entries : vault[e] = NoKey
      /\ alloc = reneg /\ leaked = {} /\ ~cred
  BY DEF Init
<1> QED BY <1>1, <1>2, EmptyKeeps DEF Vacant

LEMMA SessionsStep ==
    ASSUME SessionsInv, Orderly, nonce \in Nonces, [Next]_vars
    PROVE  SessionsInv'
<1>1. CASE UNCHANGED vars \/ Time
  <2>1. UNCHANGED <<enabled, cred, tableVars, vault, cmd, nonce, leaked>>
    BY <1>1 DEF vars, Time, partVars, nonceVars, history
  <2> QED BY <2>1, NothingMoves
<1>2. CASE Enable \/ Disable \/ Reset \/ Migrate
  BY <1>2, Disabled, EnabledOrMigrated
<1>3. ASSUME NEW t \in Tags, \/ StartEstablish(t) \/ EndEstablish(t) \/ EcdhFails(t)
                             \/ EndOpen(t) \/ EndReopen(t) \/ EndOpenFails(t)
                             \/ Resume(t) \/ CloseFails(t) \/ EndClose(t)
      PROVE  SessionsInv'
  BY <1>3, EstablishStarts, EstablishEnds, Fails, OpenEnds, ReopenEnds, CloseResumes, CloseEnds
<1>4. ASSUME NEW t \in Tags, \/ GenDone(t) \/ StartTest(t) \/ TestFails(t) \/ KeyTimesOut(t)
                             \/ KeyDone(t) \/ OutFails(t) \/ Done(t)
      PROVE  SessionsInv'
  BY <1>4, GenEnds, TestStarts, TestEndsBadly, KeyTimedOut, KeyEnds, AnswerLost, Ends
<1>5. ASSUME NEW t \in Tags, NEW kind \in {"Open", "Reopen"}, NEW s \in Ids \cup {NoId},
             StartOpen(t, kind, s)
      PROVE  SessionsInv'
  BY <1>5, OpenStarts
<1>6. ASSUME NEW t \in Tags, NEW kind \in {"Close", "Flush"}, NEW s \in Ids,
             CloseAtOnce(t, kind, s) \/ StartClose(t, kind, s)
      PROVE  SessionsInv'
  BY <1>6, ClosedAtOnce, CloseStarts
<1>7. ASSUME NEW t \in Tags, NEW s \in Ids, StartGen(t, s) \/ \E e \in Entries : StartSign(t, s, e)
      PROVE  SessionsInv'
  BY <1>7, GenStarts, SignStarts
<1> QED BY <1>1, <1>2, <1>3, <1>4, <1>5, <1>6, <1>7 DEF Next

(* As long as the host and the admin core are orderly, SessionsInv is never   *)
(* left.                                                                      *)
LEMMA SessionsHold ==
    ASSUME Orderly
    PROVE  Spec => []SessionsInv
<1>1. SessionsInv /\ NonceInv /\ [Next]_vars => SessionsInv'
  BY SessionsStep DEF NonceInv
<1>2. Spec => []NonceInv
  BY NonceHolds
<1> QED BY <1>1, <1>2, SessionsInit, PTL DEF Spec

(* Of an orderly host's sessions, for any number of ids, entries and commands *)
(* in flight: whatever opens, reopens, closes, rollbacks, disables and        *)
(* migrations have come in between, a valid id of HsmPartSessionTable names a *)
(* session key in the vault, two never name the same, and the only session    *)
(* keys no id names are those a refused Reopen left behind.                   *)
THEOREM TableAndVaultAgree ==
    ASSUME Orderly
    PROVE  Spec => []TableVaultAgree
<1>1. SessionsInv => TableVaultAgree
  BY DEF SessionsInv
<1> QED BY <1>1, SessionsHold, PTL

(* Under the same hypothesis, a key that EccGenKeyCmd made for a session is   *)
(* never found under an id that has been given to another: it goes with       *)
(* remove_all_session_only_entries, with the disabled partition, or with the  *)
(* command that made it.                                                      *)
THEOREM KeysDieWithTheirSession ==
    ASSUME Orderly
    PROVE  Spec => []KeysOfOwnSession
<1>1. SessionsInv => KeysOfOwnSession
  BY DEF SessionsInv
<1> QED BY <1>1, SessionsHold, PTL

-----------------------------------------------------------------------------
(* The ids, whether or not the host is orderly *)

(* Only a response can be one to a success *)
Formed == /\ DOMAIN cmd = Tags
          /\ \A t \in Tags : DOMAIN cmd[t] = DOMAIN Idle /\ (cmd[t].ok => cmd[t].st = "Out")

(* What a step does to one command *)
Changed(t, c) == cmd' = [cmd EXCEPT ![t] = c]

LEMMA ChangedForms ==
    ASSUME Formed, NEW t \in Tags, NEW c, Changed(t, c), DOMAIN c = DOMAIN Idle, c.ok => c.st = "Out"
    PROVE  /\ Formed' /\ cmd'[t] = c /\ \A x \in Tags \ {t} : cmd'[x] = cmd[x]
  BY DEF Formed, Changed

LEMMA OutForms ==
    ASSUME Formed, NEW t \in Tags, NEW ok, ToOut(t, ok)
    PROVE  /\ Formed' /\ \A x \in Tags \ {t} : cmd'[x] = cmd[x]
           /\ cmd'[t].kind = cmd[t].kind /\ cmd'[t].id = cmd[t].id /\ cmd'[t].st = "Out"
           /\ cmd'[t].ok = ok
<1>1. /\ "st" \in DOMAIN Idle /\ "kind" \in DOMAIN Idle /\ "id" \in DOMAIN Idle
      /\ "ok" \in DOMAIN Idle
  BY DEF Idle
<1>2. DOMAIN cmd = Tags /\ DOMAIN cmd[t] = DOMAIN Idle
  BY DEF Formed
<1>3. /\ DOMAIN cmd' = Tags /\ \A x \in Tags \ {t} : cmd'[x] = cmd[x]
      /\ DOMAIN cmd'[t] = DOMAIN Idle
  BY <1>2 DEF ToOut
<1>4. /\ cmd'[t].kind = cmd[t].kind /\ cmd'[t].id = cmd[t].id /\ cmd'[t].st = "Out"
      /\ cmd'[t].ok = ok
  BY <1>1, <1>2 DEF ToOut
<1> QED BY <1>3, <1>4 DEF Formed

(* An id that leaves the host's knowledge, or the answers to come, leaves the  *)
(* table too, or goes from one to the other                                    *)
LEMMA AccountKept ==
    ASSUME AccountedInv, NEW t \in Tags, \A x \in Tags \ {t} : cmd'[x] = cmd[x],
           cmd[t].kind = "Open" /\ cmd[t].ok =>
              \/ cmd'[t].kind = "Open" /\ cmd'[t].ok /\ cmd'[t].id = cmd[t].id
              \/ cmd[t].id \in told' \/ cmd[t].id \notin alloc',
           \A s \in alloc' : s \in alloc \/ (cmd'[t].kind = "Open" /\ cmd'[t].ok /\ cmd'[t].id = s),
           \A s \in told : s \in told' \/ s \notin alloc'
    PROVE  AccountedInv'
<1> SUFFICES ASSUME NEW s \in alloc'
             PROVE  s \in told' \/ \E x \in Tags : cmd'[x].kind = "Open" /\ cmd'[x].ok /\ cmd'[x].id = s
  BY DEF AccountedInv
<1>1. CASE s \notin alloc
  BY <1>1
<1>2. CASE s \in told
  BY <1>2
<1>3. ASSUME NEW x \in Tags, cmd[x].kind = "Open", cmd[x].ok, cmd[x].id = s
      PROVE  s \in told' \/ \E y \in Tags : cmd'[y].kind = "Open" /\ cmd'[y].ok /\ cmd'[y].id = s
  <2>1. CASE x = t
    BY <1>3, <2>1
  <2>2. CASE x # t
    BY <1>3, <2>2
  <2> QED BY <2>1, <2>2
<1> QED BY <1>1, <1>2, <1>3 DEF AccountedInv

AccountInv == Formed /\ AccountedInv

LEMMA AccountBegins ==
    ASSUME AccountInv, NEW t \in Tags, NEW c, DOMAIN c = DOMAIN Idle, c.ok => c.st = "Out",
           ~InFlight(t), Changed(t, c),
           \/ UNCHANGED <<alloc, told>>
           \/ \E s : alloc' = alloc \ {s} /\ told' = told \ {s}
    PROVE  AccountInv'
<1>0. Formed /\ AccountedInv
  BY DEF AccountInv
<1>2. Formed' /\ \A x \in Tags \ {t} : cmd'[x] = cmd[x]
  BY <1>0, ChangedForms
<1>3. ~cmd[t].ok
  BY <1>0 DEF InFlight, Formed
<1>5. AccountedInv'
  BY <1>0, <1>2, <1>3, AccountKept
<1> QED BY <1>2, <1>5 DEF AccountInv

LEMMA AccountEstablish ==
    ASSUME AccountInv, NEW t \in Tags, StartEstablish(t)
    PROVE  AccountInv'
<1> DEFINE c == [Idle EXCEPT !.st = "Ecdh", !.kind = "Establish", !.nonce = nonce]
<1>1. DOMAIN c = DOMAIN Idle /\ (c.ok => c.st = "Out")
  BY DEF Idle
<1>2. ~InFlight(t) /\ Changed(t, c)
  BY DEF StartEstablish, Begin, Changed
<1>3. \/ UNCHANGED <<alloc, told>>
      \/ \E x : alloc' = alloc \ {x} /\ told' = told \ {x}
  BY DEF StartEstablish, Unmoved, tableVars, history, DeleteId
<1> HIDE DEF c
<1> QED BY <1>1, <1>2, <1>3, AccountBegins

LEMMA AccountOpenStarts ==
    ASSUME AccountInv, NEW t \in Tags, NEW kind, NEW s, StartOpen(t, kind, s)
    PROVE  AccountInv'
<1> DEFINE c == [Idle EXCEPT !.st = "Ecdh", !.kind = kind, !.id = s, !.nonce = nonce]
<1>1. DOMAIN c = DOMAIN Idle /\ (c.ok => c.st = "Out")
  BY DEF Idle
<1>2. ~InFlight(t) /\ Changed(t, c)
  BY DEF StartOpen, Begin, Changed
<1>3. \/ UNCHANGED <<alloc, told>>
      \/ \E x : alloc' = alloc \ {x} /\ told' = told \ {x}
  BY DEF StartOpen, Unmoved, tableVars, history, DeleteId
<1> HIDE DEF c
<1> QED BY <1>1, <1>2, <1>3, AccountBegins

LEMMA AccountAtOnce ==
    ASSUME AccountInv, NEW t \in Tags, NEW kind, NEW s, CloseAtOnce(t, kind, s)
    PROVE  AccountInv'
<1> DEFINE c == [Idle EXCEPT !.st = "Out", !.kind = kind, !.id = s, !.ok = TRUE]
<1>1. DOMAIN c = DOMAIN Idle /\ (c.ok => c.st = "Out")
  BY DEF Idle
<1>2. ~InFlight(t) /\ Changed(t, c)
  BY DEF CloseAtOnce, Begin, Changed, Closing
<1>3. \/ UNCHANGED <<alloc, told>>
      \/ \E x : alloc' = alloc \ {x} /\ told' = told \ {x}
  BY DEF CloseAtOnce, Unmoved, tableVars, history, DeleteId
<1> HIDE DEF c
<1> QED BY <1>1, <1>2, <1>3, AccountBegins

LEMMA AccountGenStarts ==
    ASSUME AccountInv, NEW t \in Tags, NEW s, StartGen(t, s)
    PROVE  AccountInv'
<1> DEFINE c == [Idle EXCEPT !.st = "Gen", !.kind = "Gen", !.id = s, !.inst = vault[table[s]].inst]
<1>1. DOMAIN c = DOMAIN Idle /\ (c.ok => c.st = "Out")
  BY DEF Idle
<1>2. ~InFlight(t) /\ Changed(t, c)
  BY DEF StartGen, Begin, Changed
<1>3. \/ UNCHANGED <<alloc, told>>
      \/ \E x : alloc' = alloc \ {x} /\ told' = told \ {x}
  BY DEF StartGen, Unmoved, tableVars, history, DeleteId
<1> HIDE DEF c
<1> QED BY <1>1, <1>2, <1>3, AccountBegins

LEMMA AccountSignStarts ==
    ASSUME AccountInv, NEW t \in Tags, NEW s, NEW e, StartSign(t, s, e)
    PROVE  AccountInv'
<1> DEFINE c == [Idle EXCEPT !.st = "Sign", !.kind = "Sign", !.id = s, !.entry = e]
<1>1. DOMAIN c = DOMAIN Idle /\ (c.ok => c.st = "Out")
  BY DEF Idle
<1>2. ~InFlight(t) /\ Changed(t, c)
  BY DEF StartSign, Begin, Changed
<1>3. \/ UNCHANGED <<alloc, told>>
      \/ \E x : alloc' = alloc \ {x} /\ told' = told \ {x}
  BY DEF StartSign, Unmoved, tableVars, history, DeleteId
<1> HIDE DEF c
<1> QED BY <1>1, <1>2, <1>3, AccountBegins

LEMMA AccountCloseStarts ==
    ASSUME AccountInv, NEW t \in Tags, NEW kind, NEW s, StartClose(t, kind, s)
    PROVE  AccountInv'
<1>1. PICK st \in {"Wait", "Fp", "Out"} :
        \/ cmd' = [cmd EXCEPT ![t] = [[Idle EXCEPT !.kind = kind, !.id = s] EXCEPT !.st = st]]
        \/ cmd' = [cmd EXCEPT ![t] = [[Idle EXCEPT !.kind = kind, !.id = s] EXCEPT !.st = st, !.ok = FALSE]]
  BY DEF StartClose, Send
<1>2. ~InFlight(t) /\ UNCHANGED <<alloc, told>>
  BY DEF StartClose, tableVars, history
<1> DEFINE c == [[Idle EXCEPT !.kind = kind, !.id = s] EXCEPT !.st = st]
           d == [[Idle EXCEPT !.kind = kind, !.id = s] EXCEPT !.st = st, !.ok = FALSE]
<1>3. /\ DOMAIN c = DOMAIN Idle /\ (c.ok => c.st = "Out")
      /\ DOMAIN d = DOMAIN Idle /\ (d.ok => d.st = "Out")
  BY DEF Idle
<1>4. Changed(t, c) \/ Changed(t, d)
  BY <1>1 DEF Changed
<1> HIDE DEF c, d
<1> QED BY <1>2, <1>3, <1>4, AccountBegins

LEMMA AccountAnswers ==
    ASSUME AccountInv, NEW t \in Tags,
           \/ EndEstablish(t) \/ EcdhFails(t) \/ EndOpenFails(t) \/ EndReopen(t)
           \/ CloseFails(t) \/ EndClose(t) \/ TestFails(t) \/ KeyDone(t)
    PROVE  AccountInv'
<1>0. Formed /\ AccountedInv
  BY DEF AccountInv
<1>1. cmd[t].st # "Out" /\ \E ok : ToOut(t, ok)
  BY DEF EndEstablish, EcdhFails, EndOpenFails, EndReopen, Ending, CloseFails, EndClose, TestFails, KeyDone
<1>2. Formed' /\ \A x \in Tags \ {t} : cmd'[x] = cmd[x]
  BY <1>0, <1>1, OutForms
<1>3. ~cmd[t].ok
  BY <1>0, <1>1 DEF Formed
<1>4. \/ UNCHANGED <<alloc, told>>
      \/ \E s : alloc' = alloc \ {s} /\ told' = told \ {s}
  BY DEF EndEstablish, EcdhFails, EndOpenFails, EndReopen, CloseFails, EndClose, TestFails, KeyDone,
         Unmoved, tableVars, history, DeleteId
<1>5. AccountedInv'
  BY <1>0, <1>2, <1>3, <1>4, AccountKept
<1> QED BY <1>2, <1>5 DEF AccountInv

LEMMA AccountMoves ==
    ASSUME AccountInv, NEW t \in Tags,
           GenDone(t) \/ StartTest(t) \/ KeyTimesOut(t) \/ Resume(t)
    PROVE  AccountInv'
<1>0. Formed /\ AccountedInv
  BY DEF AccountInv
<1>1. cmd[t].st # "Out" /\ UNCHANGED <<alloc, told>>
  BY DEF GenDone, StartTest, KeyTimesOut, Resume, Unmoved, tableVars, history
<1>2. ~cmd[t].ok
  BY <1>0, <1>1 DEF Formed
<1>3. /\ "st" \in DOMAIN Idle /\ "ok" \in DOMAIN Idle /\ DOMAIN cmd = Tags
      /\ DOMAIN cmd[t] = DOMAIN Idle
  BY <1>0 DEF Idle, Formed
<1>4. /\ DOMAIN cmd' = Tags /\ \A x \in Tags \ {t} : cmd'[x] = cmd[x]
      /\ DOMAIN cmd'[t] = DOMAIN Idle
      /\ ~cmd'[t].ok \/ cmd'[t].st = "Out"
  <2>1. CASE GenDone(t)
    <3>1. CASE ToOut(t, FALSE)
      BY <1>0, <3>1, OutForms DEF Formed
    <3>2. CASE cmd' = [cmd EXCEPT ![t].st = "Pct", ![t].entry = FreeEntry]
      BY <1>2, <1>3, <3>2
    <3> QED BY <2>1, <3>1, <3>2 DEF GenDone
  <2>2. CASE StartTest(t)
    <3>1. cmd' = [cmd EXCEPT ![t].st = "Test"]
      BY <2>2 DEF StartTest
    <3> QED BY <1>2, <1>3, <3>1
  <2>3. CASE KeyTimesOut(t)
    <3>1. cmd' = [cmd EXCEPT ![t].st = "Out", ![t].inst = 0, ![t].entry = IF Uses(t) THEN @ ELSE 0]
      BY <2>3 DEF KeyTimesOut
    <3> QED BY <1>2, <1>3, <3>1
  <2>4. CASE Resume(t)
    <3>1. \/ ToOut(t, FALSE)
          \/ cmd' = [cmd EXCEPT ![t] = [cmd[t] EXCEPT !.st = "Fp"]]
          \/ cmd' = [cmd EXCEPT ![t] = [cmd[t] EXCEPT !.st = "Out", !.ok = FALSE]]
      BY <2>4 DEF Resume, Send
    <3>2. CASE ToOut(t, FALSE)
      BY <1>0, <3>2, OutForms DEF Formed
    <3>3. CASE cmd' = [cmd EXCEPT ![t] = [cmd[t] EXCEPT !.st = "Fp"]]
      BY <1>2, <1>3, <3>3
    <3>4. CASE cmd' = [cmd EXCEPT ![t] = [cmd[t] EXCEPT !.st = "Out", !.ok = FALSE]]
      BY <1>2, <1>3, <3>4
    <3> QED BY <3>1, <3>2, <3>3, <3>4
  <2> QED BY <2>1, <2>2, <2>3, <2>4
<1>5. Formed'
  BY <1>0, <1>4 DEF Formed
<1>6. AccountedInv'
  BY <1>0, <1>1, <1>2, <1>4, AccountKept
<1> QED BY <1>5, <1>6 DEF AccountInv

(* An id is allocated for a command that will tell it *)
LEMMA AccountOpens ==
    ASSUME AccountInv, NEW t \in Tags, EndOpen(t)
    PROVE  AccountInv'
<1>0. Formed /\ AccountedInv
  BY DEF AccountInv
<1>1. PICK s : s = Min(Ids \ alloc)
  OBVIOUS
<1>2. /\ cmd[t].st # "Out" /\ cmd[t].kind = "Open" /\ alloc' = alloc \cup {s} /\ told' = told
      /\ cmd' = [cmd EXCEPT ![t].st = "Out", ![t].ok = TRUE, ![t].nonce = 0, ![t].id = s]
  BY <1>1 DEF EndOpen, Ending, Reopens
<1>3. /\ "st" \in DOMAIN Idle /\ "ok" \in DOMAIN Idle /\ "id" \in DOMAIN Idle /\ "kind" \in DOMAIN Idle
      /\ DOMAIN cmd = Tags /\ DOMAIN cmd[t] = DOMAIN Idle /\ ~cmd[t].ok
  BY <1>0, <1>2 DEF Idle, Formed
<1>4. /\ DOMAIN cmd' = Tags /\ \A x \in Tags \ {t} : cmd'[x] = cmd[x]
      /\ DOMAIN cmd'[t] = DOMAIN Idle
      /\ cmd'[t].ok = TRUE /\ cmd'[t].st = "Out" /\ cmd'[t].id = s /\ cmd'[t].kind = "Open"
  BY <1>2, <1>3
<1>5. Formed'
  BY <1>0, <1>4 DEF Formed
<1>6. AccountedInv'
  BY <1>0, <1>2, <1>3, <1>4, AccountKept
<1> QED BY <1>5, <1>6 DEF AccountInv

(* The answer that would have told the id is lost or arrives *)
LEMMA AccountLeaves ==
    ASSUME AccountInv, NEW t \in Tags, OutFails(t) \/ Done(t)
    PROVE  AccountInv'
<1>0. Formed /\ AccountedInv
  BY DEF AccountInv
<1>1. CASE Done(t)
  <2>1. /\ Changed(t, Idle) /\ UNCHANGED alloc
        /\ told' = IF cmd[t].kind = "Open" /\ cmd[t].ok
                     THEN told \cup ({cmd[t].id} \cap alloc) ELSE told
    BY <1>1 DEF Done, Drop, Changed, tableVars
  <2>2. Formed' /\ \A x \in Tags \ {t} : cmd'[x] = cmd[x]
    BY <1>0, <2>1, ChangedForms DEF Idle
  <2>3. AccountedInv'
    BY <1>0, <2>1, <2>2, AccountKept
  <2> QED BY <2>2, <2>3 DEF AccountInv
<1>2. CASE OutFails(t)
  <2>1. Rollback(t) /\ ToOut(t, FALSE)
    BY <1>2 DEF OutFails
  <2>2. Formed' /\ \A x \in Tags \ {t} : cmd'[x] = cmd[x]
    BY <1>0, <2>1, OutForms
  <2>3. CASE cmd[t].kind \in {"Open", "Reopen"}
    <3>1. PICK s : s = cmd[t].id
      OBVIOUS
    <3>2. RollbackOpen(s, cmd[t].kind = "Reopen")
      BY <2>1, <2>3, <3>1 DEF Rollback
    <3>3. CASE Valid(s) /\ CanDelete(table[s], NoId) /\ cmd[t].kind = "Reopen"
      <4>1. alloc' = alloc /\ told' = told
        BY <3>2, <3>3 DEF RollbackOpen, Valid
      <4> QED BY <1>0, <2>2, <3>3, <4>1, AccountKept DEF AccountInv
    <3>4. CASE Valid(s) /\ CanDelete(table[s], NoId) /\ cmd[t].kind = "Open"
      <4>1. alloc' = alloc \ {s} /\ told' = told \ {s}
        BY <3>2, <3>4 DEF RollbackOpen, DeleteId
      <4> QED BY <1>0, <2>2, <3>1, <4>1, AccountKept DEF AccountInv
    <3>5. CASE ~(Valid(s) /\ CanDelete(table[s], NoId))
      <4>1. alloc' = alloc /\ told' = told \cup ({s} \cap alloc)
        BY <3>2, <3>5 DEF RollbackOpen, tableVars
      <4> QED BY <1>0, <2>2, <3>1, <4>1, AccountKept DEF AccountInv
    <3> QED BY <2>3, <3>3, <3>4, <3>5
  <2>4. CASE cmd[t].kind \notin {"Open", "Reopen"}
    <3>1. UNCHANGED <<alloc, told>>
      BY <2>1, <2>4 DEF Rollback, tableVars
    <3> QED BY <1>0, <2>2, <2>4, <3>1, AccountKept DEF AccountInv
  <2> QED BY <2>3, <2>4
<1> QED BY <1>1, <1>2

LEMMA AccountStep == AccountInv /\ [Next]_vars => AccountInv'
<1> SUFFICES ASSUME AccountInv, [Next]_vars PROVE AccountInv'
  OBVIOUS
<1>1. CASE \/ UNCHANGED vars \/ Time \/ Enable \/ Disable \/ Reset \/ Migrate
  <2>1. UNCHANGED cmd /\ (UNCHANGED <<alloc, told>> \/ alloc' = {})
    BY <1>1 DEF vars, tableVars, history, Time, Enable, Disable, Reset, Migrate, Restore
  <2> QED BY <2>1 DEF AccountInv, AccountedInv, Formed
<1>2. ASSUME NEW t \in Tags, \/ StartEstablish(t) \/ EndEstablish(t) \/ EcdhFails(t)
                             \/ EndOpen(t) \/ EndReopen(t) \/ EndOpenFails(t)
                             \/ Resume(t) \/ CloseFails(t) \/ EndClose(t)
      PROVE  AccountInv'
  BY <1>2, AccountEstablish, AccountAnswers, AccountOpens, AccountMoves
<1>3. ASSUME NEW t \in Tags, \/ GenDone(t) \/ StartTest(t) \/ TestFails(t) \/ KeyTimesOut(t)
                             \/ KeyDone(t) \/ OutFails(t) \/ Done(t)
      PROVE  AccountInv'
  BY <1>3, AccountAnswers, AccountMoves, AccountLeaves
<1>4. ASSUME NEW t \in Tags, NEW kind, NEW s,
             StartOpen(t, kind, s) \/ CloseAtOnce(t, kind, s) \/ StartClose(t, kind, s)
      PROVE  AccountInv'
  BY <1>4, AccountOpenStarts, AccountAtOnce, AccountCloseStarts
<1>5. ASSUME NEW t \in Tags, NEW s, StartGen(t, s) \/ \E e \in Entries : StartSign(t, s, e)
      PROVE  AccountInv'
  BY <1>5, AccountGenStarts, AccountSignStarts
<1> QED BY <1>1, <1>2, <1>3, <1>4, <1>5 DEF Next

(* No session id leaks, whatever the host, the FP core and the DMA do and for *)
(* any number of commands in flight: an id that is allocated is one the host  *)
(* has been told, one an OpenSession has yet to answer with, or one lost with *)
(* an answer that could not leave.                                            *)
THEOREM NoIdLost == Spec => []IdsAccounted
<1>1. Init => AccountInv
  BY DEF Init, AccountInv, AccountedInv, Formed, Idle
<1>2. AccountInv => IdsAccounted
  <2> SUFFICES ASSUME AccountInv, NEW s \in alloc
               PROVE  s \in told \/ \E t \in Tags : cmd[t].kind = "Open" /\ cmd[t].st = "Out" /\ cmd[t].id = s
    BY DEF IdsAccounted
  <2> QED BY DEF AccountInv, AccountedInv, Formed
<1> QED BY <1>1, <1>2, AccountStep, PTL DEF Spec

=============================================================================
