------------------------------- MODULE WebToken -------------------------------
(***************************************************************************)
(* How long an API key lives: createWebToken of WebToken.java, with the    *)
(* time to live ApiKeyBuilder takes from the settings.                     *)
(*                                                                         *)
(* Times are milliseconds in a Java long, whose sums wrap around.  The     *)
(* date of expiry is written in whole seconds.                             *)
(***************************************************************************)
EXTENDS Integers

CONSTANTS
  LongMax,    \* Long.MAX_VALUE
  Second,     \* milliseconds of a second
  Null        \* an absent setting, an absent claim

ASSUME LongMaxAssumption == LongMax \in Nat

ASSUME SecondAssumption == Second \in Nat \ {0}

ASSUME NullAssumption == Null \notin Int

VARIABLES
  clock,        \* System.currentTimeMillis()
  expiration,   \* the setting token.expiration
  token         \* the API key signed last, with the time to live asked for

vars == <<clock, expiration, token>>

Longs == -(LongMax + 1) .. LongMax

Settings == Longs \cup {Null}

Tokens == [issuedAt : 1..LongMax, ttlMillis : Settings, exp : Longs \cup {Null}]

(* PlusLong of integers without bound. *)
PlusInt(x, y) == x + y

(* The sum of two longs. *)
PlusLong(x, y) ==
  CASE x + y > LongMax         -> x + y - 2 * (LongMax + 1)
    [] x + y < -(LongMax + 1) -> x + y + 2 * (LongMax + 1)
    [] OTHER                   -> x + y

(* The date a JWT claim gives back: the JSON number counts seconds. *)
InSeconds(millis) == millis - (millis % Second)

(* Expiration that trusts the sum. *)
ExpirationOfSum(now, ttlMillis) ==
  IF ttlMillis # Null /\ ttlMillis >= 0
  THEN InSeconds(PlusLong(now, ttlMillis))
  ELSE Null

(* The claim "exp" of a token signed now.  No time to live, a negative one, or
   one whose sum wraps around leave the claim out. *)
Expiration(now, ttlMillis) ==
  IF /\ ttlMillis # Null
     /\ ttlMillis >= 0
     /\ PlusLong(now, ttlMillis) > 0
  THEN InSeconds(PlusLong(now, ttlMillis))
  ELSE Null

Init ==
  /\ clock \in 1..LongMax
  /\ expiration \in Settings
  /\ token = Null

(* ApiKeyBuilder.build reads the setting and WebToken.createToken the clock. *)
CreateToken ==
  /\ token' = [issuedAt |-> clock, ttlMillis |-> expiration,
               exp |-> Expiration(clock, expiration)]
  /\ UNCHANGED <<clock, expiration>>

(* The settings are loaded again. *)
Reload ==
  /\ expiration' \in Settings
  /\ UNCHANGED <<clock, token>>

Tick ==
  /\ clock' \in clock + 1 .. LongMax
  /\ UNCHANGED <<expiration, token>>

Next == CreateToken \/ Reload \/ Tick

Spec == Init /\ [][Next]_vars
-----------------------------------------------------------------------------
(* A consumer of the key takes it as long as it has not expired. *)
IsAccepted == token.exp = Null \/ clock <= token.exp

IsLimited == token.ttlMillis # Null /\ token.ttlMillis >= 0

(* When the life asked for ends, were there no limit to a long. *)
End == token.issuedAt + token.ttlMillis

WebTokenTypeOK ==
  /\ clock \in 1..LongMax
  /\ expiration \in Settings
  /\ token \in Tokens \cup {Null}

(* A key lives as long as the settings said when it was signed, to the second:
   the wrapped sum never makes it expire early, let alone at birth, and it lives
   for ever only if its end cannot be told in a long (createWebToken). *)
LivesAsLongAsAsked ==
  token # Null /\ IsLimited =>
    /\ clock <= End - Second => IsAccepted
    /\ IsAccepted => clock <= End
=============================================================================
